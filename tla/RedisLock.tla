----------------------------- MODULE RedisLock -----------------------------
(***************************************************************************)
(* The lock handlers take in Redis (SET key token EX ttl NX): a lease that *)
(* one holder has until it gives it back with its own token, or until its  *)
(* time to live is over, whether or not the holder is done.  A handler     *)
(* that cannot reach Redis goes on without the lock.                       *)
(***************************************************************************)
CONSTANTS Holders, Nil

VARIABLE lock   \* the handler whose token the key holds

LockType == lock \in Holders \cup {Nil}

Granted(h) == lock = Nil /\ lock' = h

Busy == lock # Nil /\ UNCHANGED lock

OutOfReach == UNCHANGED lock

\* RELEASE_LUA deletes the key only if it still holds this handler's token.
Release(h) == lock' = IF lock = h THEN Nil ELSE lock

Expire == lock # Nil /\ lock' = Nil

=============================================================================
