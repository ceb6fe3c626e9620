------------------------------- MODULE KVStore -------------------------------
(***************************************************************************)
(* What Database promises its caller: a map from keys to values.  The      *)
(* value of a key is the number of the operation (put or delete) that      *)
(* wrote it last, 0 if there is none.                                      *)
(*                                                                         *)
(* A batch takes effect at one instant between the call of write_opts and  *)
(* its return.  A get returns a value the key had at some instant between  *)
(* its call and its return.  If the process is killed, what has been       *)
(* acknowledged stays, and of the batch being written any prefix may stay. *)
(***************************************************************************)
EXTENDS Integers, Sequences

CONSTANTS Keys, Readers

VARIABLES
  store,    \* the number of the last operation on each key
  count,    \* how many operations took effect
  pending,  \* the batch being written, a sequence of keys
  reading,  \* for each reader the key it asks for and the values it may get
  got       \* for each reader the result of its last get, once it has returned

kvVars == <<store, count, pending, reading, got>>

NotReading == [busy |-> FALSE, key |-> 0, seen |-> {}]

KVInit ==
  /\ store = [k \in Keys |-> 0]
  /\ count = 0
  /\ pending = <<>>
  /\ reading = [r \in Readers |-> NotReading]
  /\ got = [r \in Readers |-> 0]

\* The store after the operations of b, numbered from count + 1 on.
After(b) ==
  [k \in Keys |->
     LET writes == {i \in DOMAIN b : b[i] = k}
     IN  IF writes = {} THEN store[k]
         ELSE count + CHOOSE i \in writes : \A j \in writes : j <= i]

Write ==
  /\ pending = <<>>
  /\ pending' \in Seq(Keys)
  /\ pending' # <<>>
  /\ UNCHANGED <<store, count, reading, got>>

Commit ==
  /\ pending # <<>>
  /\ store' = After(pending)
  /\ count' = count + Len(pending)
  /\ pending' = <<>>
  /\ reading' = [r \in Readers |->
       IF reading[r].busy
       THEN [reading[r] EXCEPT !.seen = @ \cup {store'[reading[r].key]}]
       ELSE reading[r]]
  /\ UNCHANGED got

Begin(r, k) ==
  /\ ~reading[r].busy
  /\ reading' = [reading EXCEPT ![r] =
                   [busy |-> TRUE, key |-> k, seen |-> {store[k]}]]
  /\ got' = [got EXCEPT ![r] = 0]
  /\ UNCHANGED <<store, count, pending>>

End(r) ==
  /\ reading[r].busy
  /\ \E v \in reading[r].seen : got' = [got EXCEPT ![r] = v]
  /\ reading' = [reading EXCEPT ![r] = NotReading]
  /\ UNCHANGED <<store, count, pending>>

Crash ==
  /\ \E n \in 0 .. Len(pending) :
       /\ store' = After(SubSeq(pending, 1, n))
       /\ count' = count + n
  /\ pending' = <<>>
  /\ reading' = [r \in Readers |-> NotReading]
  /\ got' = [r \in Readers |-> 0]

KVNext ==
  \/ Write
  \/ Commit
  \/ \E r \in Readers : (\E k \in Keys : Begin(r, k)) \/ End(r)
  \/ Crash

KVSpec == KVInit /\ [][KVNext]_kvVars
=============================================================================
