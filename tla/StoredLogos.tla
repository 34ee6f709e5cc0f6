---------------------------- MODULE StoredLogos ----------------------------
(***************************************************************************)
(* Images in the object store (Cloudflare R2) and the rows that name them: *)
(* the organization's logo, an administrator's branding logo and a user's  *)
(* avatar.  A new image always gets a key of its own; the row is then      *)
(* pointed at it and the image named before is erased.  The database and   *)
(* the store share no transaction: the row read at the start of a request  *)
(* says what is erased at its end.                                         *)
(***************************************************************************)
EXTENDS Naturals, FiniteSets

CONSTANTS
  Handlers,     \* requests that may run at the same time
  Keys,         \* object keys (each holds a fresh UUID)
  Nothing,      \* null
  MaxOffers     \* bound: requests that set out to name one key

VARIABLES
  key,         \* the key in each row
  object,      \* the keys under which the store holds an image
  home,        \* the row each key was made for: the prefix of the key
  presigned,   \* the keys a browser was given an upload URL for
  offered,     \* how many requests set out to name each key
  hand         \* the requests under way

vars == <<key, object, home, presigned, offered, hand>>

\* Which rows take an image through the server, and which from the browser.
Slots == {"organization", "admin", "avatar"}
Uploaded == {"organization", "admin"}
Confirmed == {"organization", "avatar"}

Stages == {"idle", "put", "head", "write", "erase"}

Hand == [stage: Stages, slot: Slots, new: Keys \cup {Nothing},
         previous: Keys \cup {Nothing}]

Free == [stage |-> "idle", slot |-> "avatar", new |-> Nothing,
         previous |-> Nothing]

Go(h, stage) == hand' = [hand EXCEPT ![h].stage = stage]

Done(h) == hand' = [hand EXCEPT ![h] = Free]

\* A request reads the row once, when it begins.
Began(h, s, k, stage) ==
  hand' = [hand EXCEPT ![h] = [stage |-> stage, slot |-> s, new |-> k,
                               previous |-> key[s]]]

Init ==
  /\ key = [s \in Slots |-> Nothing]
  /\ object = {}
  /\ home = [k \in Keys |-> Nothing]
  /\ presigned = {}
  /\ offered = [k \in Keys |-> 0]
  /\ hand = [h \in Handlers |-> Free]

-----------------------------------------------------------------------------
(* An upload through the server. *)

BuildKey(s, k) == home[k] = Nothing /\ home' = [home EXCEPT ![k] = s]

Offer(k) == offered' = [offered EXCEPT ![k] = @ + 1]

UploadBegins(h, s) ==
  /\ hand[h].stage = "idle"
  /\ \E k \in Keys: BuildKey(s, k) /\ Offer(k) /\ Began(h, s, k, "put")
  /\ UNCHANGED <<key, object, presigned>>

\* An upload that times out may have reached the store all the same.
UploadObject(h) ==
  /\ hand[h].stage = "put"
  /\ \/ object' = object \cup {hand[h].new} /\ Go(h, "write")
     \/ object' \in {object, object \cup {hand[h].new}} /\ Done(h)
  /\ UNCHANGED <<key, home, presigned, offered>>

-----------------------------------------------------------------------------
(* An upload by the browser: a URL, the upload, its confirmation.  The URL *)
(* works for five minutes; that it is not used later is a choice.          *)

CreateUploadUrl(s) ==
  /\ \E k \in Keys: BuildKey(s, k) /\ presigned' = presigned \cup {k}
  /\ UNCHANGED <<key, object, offered, hand>>

BrowserPuts(k) ==
  /\ k \in presigned
  /\ object' = object \cup {k}
  /\ UNCHANGED <<key, home, presigned, offered, hand>>

\* isOrganizationLogoKey, isAvatarKey.
OwnKey(s, k) == home[k] = s

ConfirmBegins(h, s, k) ==
  /\ hand[h].stage = "idle"
  /\ offered[k] < MaxOffers
  /\ OwnKey(s, k)
  /\ Offer(k)
  /\ Began(h, s, k, "head")
  /\ UNCHANGED <<key, object, home, presigned>>

\* Slip: the store is not asked.
Believed(h) == TRUE

Present(h) == hand[h].new \in object

\* The image must be there, of the type claimed and not too large.
HeadObject(h) ==
  /\ hand[h].stage = "head"
  /\ \/ Present(h) /\ Go(h, "write")
     \/ Done(h)
  /\ UNCHANGED <<key, object, home, presigned, offered>>

-----------------------------------------------------------------------------
(* Both end alike; a removal only points the row at nothing. *)

RemoveBegins(h, s) ==
  /\ hand[h].stage = "idle"
  /\ Began(h, s, Nothing, "write")
  /\ UNCHANGED <<key, object, home, presigned, offered>>

\* The branding logo also looks at the prefix of what it erases.
Erasable(h) ==
  LET q == hand[h] IN
  /\ q.previous \notin {Nothing, q.new}
  /\ q.slot = "admin" => OwnKey("admin", q.previous)

WriteKey(h) ==
  /\ hand[h].stage = "write"
  /\ key' = [key EXCEPT ![hand[h].slot] = hand[h].new]
  /\ IF Erasable(h) THEN Go(h, "erase") ELSE Done(h)
  /\ UNCHANGED <<object, home, presigned, offered>>

\* Best effort: a failure is passed over.
DeleteObject(h) ==
  /\ hand[h].stage = "erase"
  /\ object' \in {object, object \ {hand[h].previous}}
  /\ Done(h)
  /\ UNCHANGED <<key, home, presigned, offered>>

Next ==
  \/ \E h \in Handlers:
       \/ \E s \in Uploaded: UploadBegins(h, s)
       \/ UploadObject(h)
       \/ \E s \in Confirmed, k \in Keys: ConfirmBegins(h, s, k)
       \/ HeadObject(h)
       \/ \E s \in Slots: RemoveBegins(h, s)
       \/ WriteKey(h)
       \/ DeleteObject(h)
  \/ \E s \in Confirmed: CreateUploadUrl(s)
  \/ \E k \in Keys: BrowserPuts(k)

Spec == Init /\ [][Next]_vars

-----------------------------------------------------------------------------
(* Properties. *)

\* Every variable holds a value of its kind.
TypeOK ==
  /\ key \in [Slots -> Keys \cup {Nothing}]
  /\ object \subseteq Keys
  /\ home \in [Keys -> Slots \cup {Nothing}]
  /\ presigned \subseteq Keys
  /\ offered \in [Keys -> Nat]
  /\ hand \in [Handlers -> Hand]

\* A row names an image that the store holds, however uploads, confirmations
\* and removals of the same row overlap and whichever store call fails.  The
\* one exception is a key that a second request sets out to name, a repeated
\* confirmation: its image may be erased by a request that moves the row on
\* after the confirmation has looked for it.
LogosAreThere ==
  \A s \in Slots:
    LET k == key[s] IN k # Nothing /\ k \notin object => offered[k] > 1

\* The exception does not reach the branding logo, which no request can name.
BrandingLogoIsThere == key["admin"] \in object \cup {Nothing}

-----------------------------------------------------------------------------
(* The inductive invariant. *)

\* h has yet to name k in a row.
Naming(h, k) == hand[h].stage \in {"put", "head", "write"} /\ hand[h].new = k

\* What a request carries was made for its row and set out for.
HandOK(q) ==
  /\ q.stage = "idle" => q = Free
  /\ q.stage \in {"put", "head"} => q.new # Nothing
  /\ q.stage = "erase" => q.previous \notin {Nothing, q.new}
  /\ \A k \in {q.new, q.previous} \ {Nothing}:
       home[k] = q.slot /\ offered[k] > 0

\* A key that no second request sets out to name: while its one request is on
\* the way nobody else knows of it, and once it is named nobody erases it.
KeyOK(k) ==
  /\ \A h \in Handlers: Naming(h, k) =>
       /\ hand[h].stage = "write" => k \in object
       /\ \A g \in Handlers: hand[g].previous # k /\ (Naming(g, k) => g = h)
       /\ \A s \in Slots: key[s] # k
  /\ \A s \in Slots: key[s] = k =>
       /\ k \in object
       /\ \A g \in Handlers: hand[g].stage = "erase" => hand[g].previous # k

IInv ==
  /\ TypeOK
  /\ \A h \in Handlers: HandOK(hand[h])
  /\ \A s \in Slots: key[s] # Nothing => home[key[s]] = s /\ offered[key[s]] > 0
  /\ \A k \in Keys:
       /\ home[k] = Nothing => offered[k] = 0
       /\ home[k] = "admin" => offered[k] <= 1
       /\ offered[k] <= 1 => KeyOK(k)

=============================================================================
