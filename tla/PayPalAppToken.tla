--------------------------- MODULE PayPalAppToken ---------------------------
(***************************************************************************)
(* The application token that every call of PayPal's API carries, kept in  *)
(* a variable of the process until shortly before it expires.  Requests    *)
(* that find no usable token fetch one each; the last answer to arrive is  *)
(* kept, a refusal or a disconnection empties the cache.  Time is counted  *)
(* in units of fifteen seconds.                                            *)
(***************************************************************************)
EXTENDS Naturals

CONSTANTS
  Callers,   \* requests that may fetch at the same time
  Lives,     \* the lives of the tokens PayPal issues
  Margin,    \* a token this close to its end is not used
  Floor,     \* a token is taken to live at least this long
  MaxTime    \* bound of the clock

VARIABLES
  now,     \* the clock
  cache,   \* appTokenCache: used until `until`, valid until `expires`
  call     \* the fetches under way

vars == <<now, cache, call>>

Empty == [full |-> FALSE, until |-> 0, expires |-> 0]

\* A fetch: when it was sent, and the life and end of the token issued.
NoCall == [stage |-> "idle", asked |-> 0, life |-> 0, expires |-> 0]

Init ==
  /\ now = 0
  /\ cache = Empty
  /\ call = [c \in Callers |-> NoCall]

Usable == cache.full /\ cache.until > now + Margin

\* getPayPalAppAccessToken returns the cached token, or sends a request.
Fetch(c) ==
  /\ call[c].stage = "idle"
  /\ ~Usable
  /\ call' = [call EXCEPT ![c] = [NoCall EXCEPT !.stage = "sent",
                                                !.asked = now]]
  /\ UNCHANGED <<now, cache>>

\* PayPal issues a token, whose life begins here.
Issue(c) ==
  /\ call[c].stage = "sent"
  /\ \E life \in Lives:
       call' = [call EXCEPT ![c].stage = "issued", ![c].life = life,
                            ![c].expires = now + life]
  /\ UNCHANGED <<now, cache>>

Longer(a, b) == IF a > b THEN a ELSE b

\* Slip: the life is counted from the arrival of the answer.
KeptFromArrival(c) == now + Longer(Floor, call[c].life)

\* The life, taken for the floor when shorter, is counted from before the
\* request was sent.
KeptUntil(c) == call[c].asked + Longer(Floor, call[c].life)

Keep(c) ==
  /\ call[c].stage = "issued"
  /\ cache' = [full |-> TRUE, until |-> KeptUntil(c),
               expires |-> call[c].expires]
  /\ call' = [call EXCEPT ![c] = NoCall]
  /\ UNCHANGED now

\* A refusal empties the cache, even of what another request just put there;
\* an answer that never comes, or has no token in it, leaves it alone.
Refused(c) ==
  /\ call[c].stage # "idle"
  /\ cache' \in {cache, Empty}
  /\ call' = [call EXCEPT ![c] = NoCall]
  /\ UNCHANGED now

\* disconnectPayPal; a fetch under way fills the cache again.
ClearAppTokenCache ==
  /\ cache' = Empty
  /\ UNCHANGED <<now, call>>

Tick ==
  /\ now < MaxTime
  /\ now' = now + 1
  /\ UNCHANGED <<cache, call>>

Next ==
  \/ \E c \in Callers: Fetch(c) \/ Issue(c) \/ Keep(c) \/ Refused(c)
  \/ ClearAppTokenCache
  \/ Tick

Spec == Init /\ [][Next]_vars

\* A token taken from the cache is valid for the margin at least, however slow
\* the answer that brought it, whichever fetch filled the cache last, and also
\* when PayPal's tokens live shorter than the cache believes.
CachedTokenLasts == Usable => cache.expires > now + Margin

-----------------------------------------------------------------------------
(* The inductive invariant. *)

\* A fetch was sent before its token was issued.
CallOK(q) ==
  /\ q.asked <= now
  /\ q.stage = "issued" => q.life \in Lives /\ q.asked + q.life <= q.expires

\* The cache believes its token to live no longer than it does, unless it is
\* one whose life is below the floor, and those are never used.
IInv ==
  /\ now \in Nat
  /\ cache \in [full: BOOLEAN, until: Nat, expires: Nat]
  /\ call \in [Callers -> [stage: {"idle", "sent", "issued"}, asked: Nat,
                           life: Nat, expires: Nat]]
  /\ \A c \in Callers: CallOK(call[c])
  /\ cache.until <= cache.expires \/ cache.until <= now + Margin

=============================================================================
