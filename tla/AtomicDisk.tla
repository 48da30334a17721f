----------------------------- MODULE AtomicDisk -----------------------------
(* What block_read and block_write promise their callers: every call takes *)
(* effect at one moment between its start and its return.                  *)
CONSTANTS Threads, Devices, Sectors, Values, None

VARIABLES
  mem,     \* what the sectors of the devices hold
  call,    \* the request a thread has made, None when it has none
  res      \* what its last request read; None for a write and before the end

Requests == [kind: {"read"}, dev: Devices, sec: Sectors]
              \union [kind: {"write"}, dev: Devices, sec: Sectors, val: Values]

Init == /\ mem \in [Devices -> [Sectors -> Values]]
        /\ call = [t \in Threads |-> None]
        /\ res = [t \in Threads |-> None]

Request(t, r) ==
  /\ call[t] = None
  /\ call' = [call EXCEPT ![t] = r]
  /\ res' = [res EXCEPT ![t] = None]
  /\ UNCHANGED mem

Perform(t) ==
  /\ call[t] # None
  /\ IF call[t].kind = "read"
     THEN /\ res' = [res EXCEPT ![t] = mem[call[t].dev][call[t].sec]]
          /\ UNCHANGED mem
     ELSE /\ mem' = [mem EXCEPT ![call[t].dev][call[t].sec] = call[t].val]
          /\ UNCHANGED res
  /\ call' = [call EXCEPT ![t] = None]

Next == \E t \in Threads : Perform(t) \/ \E r \in Requests : Request(t, r)

Spec == Init /\ [][Next]_<<mem, call, res>>
=============================================================================
