------------------------------- MODULE RunDetails -------------------------------
(* What the view of a run keeps of its invocations beside their states      *)
(* (run-view-model.ts, run-activity.ts, run-output.ts,                      *)
(* run-value-retention.ts): inputs, results, activities and observations as *)
(* whole values within a budget of the run, the oldest of which are dropped *)
(* first; output, cut to what a row and the run have room for; and counts   *)
(* of the activities.  A value is the set of its parts, an output a number  *)
(* of bytes.  The texts and the metrics are left out.                       *)
EXTENDS Integers, Sequences, FiniteSets, SequencesExt, FiniteSetsExt

CONSTANTS
    Rows,                   \* rows of the view; those in Checks are validations
    Checks,
    Activities,             \* <<kind, activity id>>
    Observations,           \* observation ids
    Parts,                  \* parts of a value
    ValueBytes, ValueEntries, \* limits.runValueBytes, limits.runValueEntries
    RowBytes, RunBytes,     \* limits.nodeDetailBytes, limits.runDetailBytes
    Chunks,                 \* MAX_PERSISTENT_CHUNKS
    MaxEvents               \* bound: events after those that start the rows

VARIABLES
    row,        \* what each row holds
    entries,    \* retainedValueEntries, oldest first
    retained,   \* retainedValueBytes
    details,    \* retainedDetailBytes
    told        \* events so far

detailVars == <<row, entries, retained, details, told>>

Absent == {"absent"}   \* no value
Values == SUBSET Parts
Size(value) == 1 + Cardinality(value)
Ends == {"succeeded", "failed", "cancelled"}

DetailsInit ==
    /\ row = [n \in Rows |->
                [state |-> "active", input |-> Absent, result |-> Absent, evidence |-> Absent,
                 activity |-> [a \in Activities |-> Absent],
                 observation |-> [o \in Observations |-> Absent],
                 live |-> {}, seen |-> {}, completed |-> {}, tools |-> 0, skills |-> 0,
                 persistent |-> <<>>, transient |-> 0, truncated |-> FALSE]]
    /\ entries = <<>> /\ retained = 0 /\ details = 0 /\ told = 0

-----------------------------------------------------------------------------
(* Values. *)

Entry(n, kind, id, bytes) == [row |-> n, kind |-> kind, id |-> id, bytes |-> bytes]
Same(e, f) == <<e.row, e.kind, e.id>> = <<f.row, f.kind, f.id>>

(* withoutValue; with a result goes the evidence that it held. *)
Without(held, e) ==
    CASE e.kind = "input" -> [held EXCEPT !.input = Absent]
      [] e.kind = "result" -> [held EXCEPT !.result = Absent, !.evidence = Absent]
      [] e.kind = "activity" -> [held EXCEPT !.activity[e.id] = Absent]
      [] e.kind = "observation" -> [held EXCEPT !.observation[e.id] = Absent]
      [] e.kind = "validation" -> [held EXCEPT !.evidence = Absent]

BytesOf(S) == FoldLeft(LAMBDA sum, e : sum + e.bytes, 0, S)

(* How many of the oldest entries are dropped. *)
Evicted(S) ==
    Min({k \in 0 .. Len(S) :
            LET rest == SubSeq(S, k + 1, Len(S))
            IN  BytesOf(rest) <= ValueBytes /\ Len(rest) <= ValueEntries})

(* A faulty Retain: what takes the place of a value is added to its bytes.  *)
RetainTwice(rows, kept, e) ==
    LET others == SelectSeq(entries, LAMBDA f : ~Same(e, f))
        wanted == IF kept /\ e.bytes <= ValueBytes THEN Append(others, e) ELSE others
        k == Evicted(wanted)
    IN  /\ entries' = SubSeq(wanted, k + 1, Len(wanted))
        /\ retained' = retained + (IF kept THEN e.bytes ELSE 0) - BytesOf(SubSeq(wanted, 1, k))
        /\ row' = FoldLeft(LAMBDA r, f : [r EXCEPT ![f.row] = Without(@, f)], rows,
                           SubSeq(wanted, 1, k))

(* retainRunValue: the value becomes the newest; one that has no room at    *)
(* all is dropped, and the oldest are until the others have.  Nothing       *)
(* happens when there is no value to keep.                                  *)
Retain(rows, kept, e) ==
    IF ~kept THEN row' = rows /\ UNCHANGED <<entries, retained>> ELSE
    LET others == SelectSeq(entries, LAMBDA f : ~Same(e, f))
        fits == e.bytes <= ValueBytes /\ ValueEntries > 0
        wanted == IF fits THEN Append(others, e) ELSE others
        k == Evicted(wanted)
        dropped == (IF fits THEN <<>> ELSE <<e>>) \o SubSeq(wanted, 1, k)
        replaced == BytesOf(entries) - BytesOf(others)
    IN  /\ entries' = SubSeq(wanted, k + 1, Len(wanted))
        /\ retained' = retained - replaced + (IF fits THEN e.bytes ELSE 0)
                        - BytesOf(SubSeq(wanted, 1, k))
        /\ row' = FoldLeft(LAMBDA r, f : [r EXCEPT ![f.row] = Without(@, f)], rows, dropped)

-----------------------------------------------------------------------------
(* Events. *)

Event == told < MaxEvents /\ told' = told + 1

Input(n) ==
    /\ Event
    /\ \E v \in Values :
          Retain([row EXCEPT ![n].input = v], TRUE, Entry(n, "input", "", Size(v)))
    /\ UNCHANGED details

(* projectValidationResult: the evidence a validation may show of a result. *)
ResultEvidence(n, v) == IF n \in Checks THEN SUBSET v \cup {Absent} ELSE {Absent}

Result(n) ==
    /\ Event
    /\ \E v \in Values : \E evidence \in ResultEvidence(n, v) :
          Retain([row EXCEPT ![n].result = v, ![n].evidence = evidence],
                 TRUE, Entry(n, "result", "", Size(v)))
    /\ UNCHANGED details

(* mergeInvocationObservation, retainActivityDetails: what was told stays.  *)
Merged(old, v) == (old \ Absent) \cup v

Observe(n, o) ==
    /\ Event
    /\ \E v \in Values :
          LET merged == Merged(row[n].observation[o], v)
          IN  Retain([row EXCEPT ![n].observation[o] = merged],
                     TRUE, Entry(n, "observation", o, Size(merged)))
    /\ UNCHANGED details

(* A faulty Project: a call that is told of late is live after the end.     *)
ProjectLate(held, a, state, value) ==
    [held EXCEPT
        !.activity[a] = Merged(@, value),
        !.live = IF state \in Ends THEN @ \ {a[2]} ELSE @ \cup {a[2]},
        !.seen = @ \cup {a},
        !.tools = IF a \in held.seen \/ a[1] = "skill" THEN @ ELSE @ + 1,
        !.skills = IF a \in held.seen \/ a[1] # "skill" THEN @ ELSE @ + 1]

(* projectNodeActivity, retainActivityDetails.  The live activities are     *)
(* known by their id, the others by their kind too.                         *)
Project(held, a, state, value) ==
    [held EXCEPT
        !.activity[a] = Merged(@, value),
        !.live = IF {held.state, state} \cap Ends # {} THEN @ \ {a[2]} ELSE @ \cup {a[2]},
        !.seen = @ \cup {a},
        !.completed = IF a[1] = "tool" /\ state = "succeeded" THEN @ \cup {a[2]} ELSE @,
        !.tools = IF a \in held.seen \/ a[1] = "skill" THEN @ ELSE @ + 1,
        !.skills = IF a \in held.seen \/ a[1] # "skill" THEN @ ELSE @ + 1]

(* projectActivity. *)
Activity(n, a) ==
    /\ Event
    /\ \E v \in Values, state \in {"started", "succeeded", "failed"} :
          LET held == Project(row[n], a, state, v)
          IN  Retain([row EXCEPT ![n] = held],
                     TRUE, Entry(n, "activity", a, Size(held.activity[a])))
    /\ UNCHANGED details

-----------------------------------------------------------------------------
(* Output. *)

Total(chunks) == FoldLeft(LAMBDA sum, b : sum + b, 0, chunks)
OutputBytes(held) == held.transient + Total(held.persistent)

(* A faulty Room: the budget of the run is forgotten. *)
RoomOfRow(n, policy) ==
    Max({0, RowBytes - OutputBytes(row[n]) + (IF policy = "transient" THEN row[n].transient ELSE 0)})

(* What an output may still take; a transient one replaces the last.        *)
Room(n, policy) ==
    LET replaced == IF policy = "transient" THEN row[n].transient ELSE 0
    IN  Max({0, Min({RowBytes - OutputBytes(row[n]), RunBytes - details}) + replaced})

(* retainOutput: once a row has lost something it keeps no more.            *)
Kept(held, policy, bytes, room) ==
    LET full == held.truncated \/ (policy = "persistent" /\ Len(held.persistent) >= Chunks)
        content == IF full THEN 0 ELSE Min({bytes, room})
    IN  [held EXCEPT
            !.persistent = IF policy = "persistent" /\ content > 0 THEN Append(@, content) ELSE @,
            !.transient = IF policy = "transient" /\ ~full THEN content ELSE @,
            !.truncated = @ \/ content < bytes]

Output(n) ==
    /\ Event
    /\ \E policy \in {"persistent", "transient"}, bytes \in 1 .. 2 :
          LET held == Kept(row[n], policy, bytes, Room(n, policy)) IN
          /\ row' = [row EXCEPT ![n] = held]
          /\ details' = details - OutputBytes(row[n]) + OutputBytes(held)
    /\ UNCHANGED <<entries, retained>>

-----------------------------------------------------------------------------
(* Ends. *)

(* projectValidationFailure: the evidence of the error, which may have none.*)
FailureEvidence(n) == IF n \in Checks THEN Values \cup {Absent} ELSE {}

(* withState; a validation may fail with a verdict. *)
EndRow(n) ==
    /\ Event /\ row[n].state = "active"
    /\ \/ /\ \E state \in Ends : row' = [row EXCEPT ![n].state = state, ![n].live = {}]
          /\ UNCHANGED <<entries, retained>>
       \/ \E evidence \in FailureEvidence(n) :
             LET held == [row[n] EXCEPT !.state = "failed", !.live = {}, !.evidence = evidence]
             IN  Retain([row EXCEPT ![n] = held], evidence # Absent,
                        Entry(n, "validation", "", Size(evidence)))
    /\ UNCHANGED details

DetailsNext ==
    \E n \in Rows :
        \/ Input(n) \/ Result(n) \/ Output(n) \/ EndRow(n)
        \/ \E o \in Observations : Observe(n, o)
        \/ \E a \in Activities : Activity(n, a)

DetailsOver == told = MaxEvents

-----------------------------------------------------------------------------
(* Properties. *)

Entries == {entries[k] : k \in DOMAIN entries}
HasEntry(n, kind, id, value) ==
    value = Absent \/ \E e \in Entries : e = Entry(n, kind, id, Size(value))

(* The bytes are counted as they are, within the limits, and nothing is     *)
(* shown that is not counted, whatever was replaced, merged or dropped      *)
(* before (retainRunValue).                                                 *)
ValuesCounted ==
    /\ retained = BytesOf(entries) /\ retained <= ValueBytes /\ Len(entries) <= ValueEntries
    /\ \A n \in Rows :
          /\ HasEntry(n, "input", "", row[n].input)
          /\ HasEntry(n, "result", "", row[n].result)
          /\ \A a \in Activities : HasEntry(n, "activity", a, row[n].activity[a])
          /\ \A o \in Observations : HasEntry(n, "observation", o, row[n].observation[o])
          /\ row[n].evidence # Absent =>
                \/ HasEntry(n, "validation", "", row[n].evidence)
                \/ row[n].result # Absent /\ row[n].evidence \subseteq row[n].result

(* The output of the run is counted as it is, within the limit of each row  *)
(* and of the run (retainOutput).                                           *)
OutputCounted ==
    /\ details = Total([k \in 1 .. Cardinality(Rows) |-> OutputBytes(row[SetToSeq(Rows)[k]])])
    /\ details <= RunBytes
    /\ \A n \in Rows : OutputBytes(row[n]) <= RowBytes /\ Len(row[n].persistent) <= Chunks

(* Nothing goes on in a row that has ended, however late it is told of, and *)
(* each activity is counted once (projectNodeActivity).                     *)
ActivitiesCounted ==
    \A n \in Rows :
        /\ row[n].state \in Ends => row[n].live = {}
        /\ row[n].tools + row[n].skills = Cardinality(row[n].seen)
        /\ row[n].completed \cup row[n].live \subseteq {a[2] : a \in row[n].seen}

DetailsSafe == ValuesCounted /\ OutputCounted /\ ActivitiesCounted
=============================================================================
