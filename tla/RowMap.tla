------------------------------- MODULE RowMap -------------------------------
(***************************************************************************)
(* What LumoDB's row API promises to callers that serialize the writes of  *)
(* one row: a map from rows to contents.  A write takes effect at one      *)
(* instant between its call and its return, or fails without effect; a     *)
(* read returns what the row held at some instant of the call.  A call may *)
(* answer Corruption only when a row with the same identity was replaced   *)
(* while it ran, and it still changes nothing then.                        *)
(***************************************************************************)
CONSTANTS Thread, Row, NoRow, Ident, IdentOf, Key, Val, NoVal, Batch, Kinds

EmptyRow == [k \in Key |-> NoVal]
Content  == [Key -> Val \cup {NoVal}]
Merge(c, d) == [k \in Key |-> IF d[k] # NoVal THEN d[k] ELSE c[k]]

VARIABLES
  rows,      \* Row -> Content, EmptyRow while the row does not exist
  phase,     \* each thread: idle, running, applied, done
  call,      \* each thread's call
  seen,      \* the contents the call's row has had since the call began
  disturbed, \* a row of the same identity was replaced since then
  result     \* the status and value of a call that is done

vars == <<rows, phase, call, seen, disturbed, result>>

NoCall == [kind |-> "none", row |-> NoRow, key |-> CHOOSE k \in Key : TRUE,
           entries |-> EmptyRow]
NoResult == [status |-> "none", value |-> NoVal]
IsWrite(t) == call[t].kind \in {"PutRowStructs", "PutRowStruct"}

Init ==
  /\ rows = [r \in Row |-> EmptyRow]
  /\ phase = [t \in Thread |-> "idle"]
  /\ call = [t \in Thread |-> NoCall]
  /\ seen = [t \in Thread |-> {}]
  /\ disturbed = [t \in Thread |-> FALSE]
  /\ result = [t \in Thread |-> NoResult]

Begin(t, c) ==
  /\ phase[t] = "idle"
  /\ c.kind # "GetRowStruct" =>
       \A u \in Thread : ~(phase[u] # "idle" /\ IsWrite(u) /\ call[u].row = c.row)
  /\ phase' = [phase EXCEPT ![t] = "running"]
  /\ call' = [call EXCEPT ![t] = c]
  /\ seen' = [seen EXCEPT ![t] = {rows[c.row]}]
  /\ UNCHANGED <<rows, disturbed, result>>

\* PutRowStructs replaces the row, PutRowStruct merges one key into it.
Apply(t) ==
  LET r == call[t].row
      c == IF call[t].kind = "PutRowStructs" THEN call[t].entries
           ELSE Merge(rows[r], call[t].entries)
      Running(u) == phase[u] \in {"running", "applied"}
  IN
  /\ phase[t] = "running"
  /\ IsWrite(t)
  /\ phase' = [phase EXCEPT ![t] = "applied"]
  /\ rows' = [rows EXCEPT ![r] = c]
  /\ seen' = [u \in Thread |-> IF Running(u) /\ call[u].row = r
                               THEN seen[u] \cup {c} ELSE seen[u]]
  /\ disturbed' = [u \in Thread |->
       \/ disturbed[u]
       \/ /\ rows[r] # EmptyRow
          /\ Running(u)
          /\ IdentOf[call[u].row] = IdentOf[r]]
  /\ UNCHANGED <<call, result>>

Finish(t, status, value) ==
  /\ phase' = [phase EXCEPT ![t] = "done"]
  /\ result' = [result EXCEPT ![t] = [status |-> status, value |-> value]]
  /\ UNCHANGED <<rows, call, seen, disturbed>>

FinishWrite(t) == phase[t] = "applied" /\ Finish(t, "OK", NoVal)

FinishRead(t) ==
  /\ phase[t] = "running"
  /\ ~IsWrite(t)
  /\ \E c \in seen[t] :
       LET v == c[call[t].key] IN
       Finish(t, IF v = NoVal THEN "NotFound" ELSE "OK", v)

Refuse(t) ==
  /\ phase[t] = "running"
  /\ \/ IsWrite(t) /\ Finish(t, "InvalidArgument", NoVal)
     \/ Finish(t, "IOError", NoVal)
     \/ disturbed[t] /\ Finish(t, "Corruption", NoVal)

Return(t) ==
  /\ phase[t] = "done"
  /\ phase' = [phase EXCEPT ![t] = "idle"]
  /\ call' = [call EXCEPT ![t] = NoCall]
  /\ seen' = [seen EXCEPT ![t] = {}]
  /\ disturbed' = [disturbed EXCEPT ![t] = FALSE]
  /\ result' = [result EXCEPT ![t] = NoResult]
  /\ UNCHANGED rows

Calls == [kind : Kinds, row : Row, key : Key, entries : Content]

Next == \E t \in Thread :
  \/ \E c \in Calls : Begin(t, c)
  \/ Apply(t) \/ FinishWrite(t) \/ FinishRead(t) \/ Refuse(t) \/ Return(t)

Spec == Init /\ [][Next]_vars
=============================================================================
