--------------------------- MODULE PlatformProofs ---------------------------
(***************************************************************************)
(* The parts of Platform keep their invariants, for any number of          *)
(* requests, keys, logos, jobs, products, customers, invoices, names and   *)
(* lives of tokens: the parts one by one, then their composition.          *)
(***************************************************************************)
EXTENDS Platform, GatewayProofs

(***************************************************************************)
(* The images in the object store (StoredLogos).  A request that is still to *)
(* write has its image in the store, and nobody names or erases it meanwhile. *)
(***************************************************************************)
\* What a request is after each kind of step.
LEMMA LogoFreeType == Images!Free \in Images!Hand /\ Images!HandOK(Images!Free)
BY DEF Images!Free, Images!Hand, Images!Stages, Images!Slots, Images!HandOK

\* One request moves; the others are as they were.
LEMMA LogoHandMoves ==
  ASSUME Images!TypeOK, NEW h \in Handlers, NEW q \in Images!Hand,
         hand' = [hand EXCEPT ![h] = q]
  PROVE  /\ hand' \in [Handlers -> Images!Hand]
         /\ hand'[h] = q
         /\ \A g \in Handlers \ {h}: hand'[g] = hand[g]
BY DEF Images!TypeOK

\* A request that goes on to its next stage.
LEMMA LogoStaged ==
  ASSUME Images!TypeOK, NEW h \in Handlers, NEW stage \in Images!Stages,
         Images!Go(h, stage)
  PROVE  /\ hand' \in [Handlers -> Images!Hand]
         /\ hand'[h].stage = stage
         /\ hand'[h].slot = hand[h].slot
         /\ hand'[h].new = hand[h].new
         /\ hand'[h].previous = hand[h].previous
         /\ \A g \in Handlers \ {h}: hand'[g] = hand[g]
BY DEF Images!TypeOK, Images!Go, Images!Hand

LEMMA LogoInitially == Images!Init => Images!IInv
BY PlatformAssumption, LogoFreeType DEF Images!Init, Images!IInv,
   Images!TypeOK, Images!KeyOK, Images!Naming, Images!Free, Images!Slots,
   Images!HandOK

\* A request ends, and images are added to the store.
LEMMA LogoEndKeeps ==
  ASSUME Images!IInv, NEW h \in Handlers, Images!Done(h),
         object \subseteq object', object' \subseteq Keys,
         UNCHANGED <<key, home, presigned, offered>>
  PROVE  Images!IInv'
<1>1. /\ hand' \in [Handlers -> Images!Hand]
      /\ hand'[h] = Images!Free
      /\ \A g \in Handlers \ {h}: hand'[g] = hand[g]
  BY LogoFreeType, LogoHandMoves DEF Images!Done, Images!IInv
<1>2. Images!TypeOK'
  BY <1>1 DEF Images!IInv, Images!TypeOK
<1>3. \A g \in Handlers: Images!HandOK(hand[g])'
  BY <1>1, LogoFreeType DEF Images!IInv, Images!HandOK, Images!Free
<1>4. ASSUME NEW k \in Keys, offered[k] <= 1 PROVE Images!KeyOK(k)'
  BY <1>1, <1>4, PlatformAssumption DEF Images!IInv, Images!KeyOK,
     Images!Naming, Images!Free
<1> QED BY <1>2, <1>3, <1>4 DEF Images!IInv

\* A request that has yet to write goes on to the next stage before the write.
LEMMA LogoGoKeeps ==
  ASSUME Images!IInv, NEW h \in Handlers, hand[h].stage \in {"put", "head"},
         Images!Go(h, "write"),
         object \subseteq object', object' \subseteq Keys,
         hand[h].new \in object',
         UNCHANGED <<key, home, presigned, offered>>
  PROVE  Images!IInv'
<1>1. /\ hand' \in [Handlers -> Images!Hand]
      /\ hand'[h].stage = "write"
      /\ hand'[h].slot = hand[h].slot
      /\ hand'[h].new = hand[h].new
      /\ hand'[h].previous = hand[h].previous
      /\ \A g \in Handlers \ {h}: hand'[g] = hand[g]
  BY LogoStaged DEF Images!IInv, Images!Stages
<1>2. Images!TypeOK'
  BY <1>1 DEF Images!IInv, Images!TypeOK
<1>3. \A g \in Handlers: Images!HandOK(hand[g])'
  BY <1>1 DEF Images!IInv, Images!HandOK, Images!Free
<1>4. ASSUME NEW k \in Keys, offered[k] <= 1 PROVE Images!KeyOK(k)'
  BY <1>1, <1>4 DEF Images!IInv, Images!KeyOK, Images!Naming
<1> QED BY <1>2, <1>3, <1>4 DEF Images!IInv

\* A request begins that sets out to name k, or removes.
LEMMA LogoUploadKeeps ==
  ASSUME Images!IInv, NEW h \in Handlers, NEW s \in Images!Uploaded,
         Images!UploadBegins(h, s)
  PROVE  Images!IInv'
<1>1. PICK k \in Keys: Images!BuildKey(s, k) /\ Images!Offer(k) /\ Images!Began(h, s, k, "put")
  BY DEF Images!UploadBegins
<1> DEFINE q == [stage |-> "put", slot |-> s, new |-> k, previous |-> key[s]]
<1>2. q \in Images!Hand
  BY DEF Images!IInv, Images!TypeOK, Images!Hand, Images!Stages, Images!Slots,
     Images!Uploaded
<1>3. /\ hand' \in [Handlers -> Images!Hand]
      /\ hand'[h] = q
      /\ \A g \in Handlers \ {h}: hand'[g] = hand[g]
  BY <1>1, <1>2, LogoHandMoves DEF Images!Began, Images!IInv
<1>4. /\ home' \in [Keys -> Images!Slots \cup {Nothing}] /\ home'[k] = s
      /\ offered' \in [Keys -> Nat] /\ offered[k] = 0 /\ offered'[k] = 1
      /\ \A x \in Keys \ {k}: home'[x] = home[x] /\ offered'[x] = offered[x]
  BY <1>1 DEF Images!BuildKey, Images!Offer, Images!IInv, Images!TypeOK,
     Images!Slots, Images!Uploaded
<1>5. /\ key' = key /\ object' = object /\ presigned' = presigned
  BY DEF Images!UploadBegins
<1>6. /\ \A g \in Handlers: hand[g].new # k /\ hand[g].previous # k
      /\ \A t \in Images!Slots: key[t] # k
  BY <1>4, PlatformAssumption DEF Images!IInv, Images!HandOK, Images!TypeOK
<1>7. Images!TypeOK'
  BY <1>3, <1>4, <1>5 DEF Images!IInv, Images!TypeOK
<1>8. \A g \in Handlers: Images!HandOK(hand[g])'
  BY <1>3, <1>4, <1>5, <1>6, PlatformAssumption DEF Images!IInv, Images!HandOK,
     Images!TypeOK, Images!Hand, Images!Slots
<1>9. \A t \in Images!Slots: key'[t] # Nothing => home'[key'[t]] = t /\ offered'[key'[t]] > 0
  BY <1>4, <1>5, <1>6 DEF Images!IInv, Images!TypeOK
<1>10. ASSUME NEW x \in Keys, offered'[x] <= 1 PROVE Images!KeyOK(x)'
  <2>1. CASE x = k
    BY <1>3, <1>5, <1>6, <2>1 DEF Images!KeyOK, Images!Naming, Images!Slots,
       Images!Uploaded
  <2>2. CASE x # k
    BY <1>3, <1>4, <1>5, <1>6, <1>10, <2>2 DEF Images!IInv, Images!KeyOK,
       Images!Naming, Images!Slots, Images!Uploaded
  <2> QED BY <2>1, <2>2
<1>11. \A x \in Keys: /\ home'[x] = Nothing => offered'[x] = 0
                      /\ home'[x] = "admin" => offered'[x] <= 1
  BY <1>4, PlatformAssumption DEF Images!IInv, Images!Slots, Images!Uploaded
<1> QED BY <1>7, <1>8, <1>9, <1>10, <1>11 DEF Images!IInv

LEMMA LogoUploadObjectKeeps ==
  ASSUME Images!IInv, NEW h \in Handlers, Images!UploadObject(h)
  PROVE  Images!IInv'
<1>1. /\ key' = key /\ home' = home /\ presigned' = presigned
      /\ offered' = offered
      /\ object \subseteq object' /\ object' \subseteq object \cup {hand[h].new}
      /\ hand[h].new \in Keys /\ hand[h].stage = "put" /\ object \subseteq Keys
  BY PlatformAssumption DEF Images!UploadObject, Images!IInv, Images!TypeOK,
     Images!HandOK, Images!Hand
<1>2. CASE Images!Done(h)
  BY <1>1, <1>2, LogoEndKeeps
<1>3. CASE object' = object \cup {hand[h].new} /\ Images!Go(h, "write")
  BY <1>1, <1>3, LogoGoKeeps DEF Images!UploadObject
<1> QED BY <1>2, <1>3 DEF Images!UploadObject

\* An image that a browser was given a key for.
LEMMA LogoBrowserKeeps ==
  ASSUME Images!IInv, \/ \E s \in Images!Confirmed: Images!CreateUploadUrl(s)
                      \/ \E k \in Keys: Images!BrowserPuts(k)
  PROVE  Images!IInv'
<1>1. /\ UNCHANGED <<key, offered, hand>>
      /\ object \subseteq object' /\ object' \subseteq Keys
      /\ presigned' \subseteq Keys
  BY DEF Images!IInv, Images!TypeOK, Images!CreateUploadUrl, Images!BrowserPuts
<1>2. /\ home' \in [Keys -> Images!Slots \cup {Nothing}]
      /\ \A k \in Keys: home'[k] = home[k]
                        \/ (home[k] = Nothing /\ home'[k] \in Images!Confirmed)
  <2>1. /\ home \in [Keys -> Images!Slots \cup {Nothing}]
        /\ Images!Confirmed \subseteq Images!Slots
    BY DEF Images!IInv, Images!TypeOK, Images!Slots, Images!Confirmed
  <2>2. ASSUME NEW s \in Images!Confirmed, NEW k \in Keys, Images!BuildKey(s, k)
        PROVE  /\ home' \in [Keys -> Images!Slots \cup {Nothing}]
               /\ home[k] = Nothing /\ home'[k] = s
               /\ \A x \in Keys \ {k}: home'[x] = home[x]
    BY <2>1, <2>2 DEF Images!BuildKey
  <2>3. CASE \E s \in Images!Confirmed: Images!CreateUploadUrl(s)
    BY <2>2, <2>3 DEF Images!CreateUploadUrl
  <2>4. CASE \E k \in Keys: Images!BrowserPuts(k)
    BY <2>1, <2>4 DEF Images!BrowserPuts
  <2> QED BY <2>3, <2>4
<1>3. Images!TypeOK'
  BY <1>1, <1>2 DEF Images!IInv, Images!TypeOK
<1>4. \A g \in Handlers: Images!HandOK(hand[g])'
  BY <1>1, <1>2, PlatformAssumption DEF Images!IInv, Images!HandOK,
     Images!TypeOK, Images!Hand
<1>5. \A s \in Images!Slots: key'[s] # Nothing => home'[key'[s]] = s /\ offered'[key'[s]] > 0
  BY <1>1, <1>2, PlatformAssumption DEF Images!IInv, Images!TypeOK,
     Images!Slots
<1>6. \A k \in Keys: offered'[k] <= 1 => Images!KeyOK(k)'
  BY <1>1 DEF Images!IInv, Images!KeyOK, Images!Naming
<1>7. \A k \in Keys: /\ home'[k] = Nothing => offered'[k] = 0
                     /\ home'[k] = "admin" => offered'[k] <= 1
  BY <1>1, <1>2, PlatformAssumption DEF Images!IInv, Images!Confirmed
<1> QED BY <1>3, <1>4, <1>5, <1>6, <1>7 DEF Images!IInv

LEMMA LogoConfirmKeeps ==
  ASSUME Images!IInv, NEW h \in Handlers, NEW s \in Images!Confirmed,
         NEW k \in Keys,
         Images!ConfirmBegins(h, s, k)
  PROVE  Images!IInv'
<1> DEFINE q == [stage |-> "head", slot |-> s, new |-> k, previous |-> key[s]]
<1>1. q \in Images!Hand
  BY DEF Images!IInv, Images!TypeOK, Images!Hand, Images!Stages, Images!Slots,
     Images!Confirmed
<1>2. /\ hand' \in [Handlers -> Images!Hand]
      /\ hand'[h] = q
      /\ \A g \in Handlers \ {h}: hand'[g] = hand[g]
  BY <1>1, LogoHandMoves DEF Images!ConfirmBegins, Images!Began, Images!IInv
<1>3. /\ offered' \in [Keys -> Nat] /\ offered'[k] = offered[k] + 1
      /\ \A x \in Keys \ {k}: offered'[x] = offered[x]
      /\ home[k] = s
      /\ UNCHANGED <<key, object, home, presigned>>
  BY DEF Images!ConfirmBegins, Images!Offer, Images!OwnKey, Images!IInv,
     Images!TypeOK
<1>4. Images!TypeOK'
  BY <1>2, <1>3 DEF Images!IInv, Images!TypeOK
<1>5. \A g \in Handlers: Images!HandOK(hand[g])'
  BY <1>2, <1>3, PlatformAssumption DEF Images!IInv, Images!HandOK,
     Images!TypeOK, Images!Hand, Images!Slots, Images!Confirmed
<1>6. \A t \in Images!Slots: key'[t] # Nothing => home'[key'[t]] = t /\ offered'[key'[t]] > 0
  BY <1>3 DEF Images!IInv, Images!TypeOK
<1>7. ASSUME NEW x \in Keys, offered'[x] <= 1 PROVE Images!KeyOK(x)'
  <2>1. CASE x = k
    <3>1. offered[k] = 0
      BY <1>3, <1>7, <2>1 DEF Images!IInv, Images!TypeOK
    <3>2. /\ \A g \in Handlers: hand[g].new # k /\ hand[g].previous # k
          /\ \A t \in Images!Slots: key[t] # k
      BY <3>1, PlatformAssumption DEF Images!IInv, Images!HandOK, Images!TypeOK
    <3> QED
      BY <1>2, <1>3, <2>1, <3>2 DEF Images!KeyOK, Images!Naming, Images!Slots,
         Images!Confirmed
  <2>2. CASE x # k
    BY <1>2, <1>3, <1>7, <2>2 DEF Images!IInv, Images!KeyOK, Images!Naming,
       Images!Slots, Images!Confirmed
  <2> QED BY <2>1, <2>2
<1>8. \A x \in Keys: /\ home'[x] = Nothing => offered'[x] = 0
                     /\ home'[x] = "admin" => offered'[x] <= 1
  BY <1>3, PlatformAssumption DEF Images!IInv, Images!Slots, Images!Confirmed
<1> QED BY <1>4, <1>5, <1>6, <1>7, <1>8 DEF Images!IInv

LEMMA LogoHeadKeeps ==
  ASSUME Images!IInv, NEW h \in Handlers, Images!HeadObject(h)
  PROVE  Images!IInv'
<1>1. CASE Images!Done(h)
  BY <1>1, LogoEndKeeps DEF Images!HeadObject, Images!IInv, Images!TypeOK
<1>2. CASE Images!Present(h) /\ Images!Go(h, "write")
  BY <1>2, LogoGoKeeps DEF Images!HeadObject, Images!Present, Images!IInv,
     Images!TypeOK
<1> QED BY <1>1, <1>2 DEF Images!HeadObject

LEMMA LogoRemoveKeeps ==
  ASSUME Images!IInv, NEW h \in Handlers, NEW s \in Images!Slots,
         Images!RemoveBegins(h, s)
  PROVE  Images!IInv'
<1> DEFINE q == [stage |-> "write", slot |-> s, new |-> Nothing, previous |-> key[s]]
<1>1. q \in Images!Hand
  BY DEF Images!IInv, Images!TypeOK, Images!Hand, Images!Stages
<1>2. /\ hand' \in [Handlers -> Images!Hand]
      /\ hand'[h] = q
      /\ \A g \in Handlers \ {h}: hand'[g] = hand[g]
      /\ UNCHANGED <<key, object, home, presigned, offered>>
  BY <1>1, LogoHandMoves DEF Images!RemoveBegins, Images!Began, Images!IInv
<1>3. Images!TypeOK'
  BY <1>2 DEF Images!IInv, Images!TypeOK
<1>4. \A g \in Handlers: Images!HandOK(hand[g])'
  BY <1>2 DEF Images!IInv, Images!HandOK
<1>5. \A k \in Keys: offered'[k] <= 1 => Images!KeyOK(k)'
  BY <1>2, PlatformAssumption DEF Images!IInv, Images!KeyOK, Images!Naming
<1> QED BY <1>2, <1>3, <1>4, <1>5 DEF Images!IInv

\* The row is pointed at the new image; the one before is to be erased.
LEMMA LogoWriteKeeps ==
  ASSUME Images!IInv, NEW h \in Handlers, Images!WriteKey(h)
  PROVE  Images!IInv'
<1> DEFINE s == hand[h].slot
           k == hand[h].new
<1>1. /\ hand[h] \in Images!Hand /\ Images!HandOK(hand[h])
      /\ hand[h].stage = "write"
      /\ s \in Images!Slots /\ k \in Keys \cup {Nothing}
  BY DEF Images!WriteKey, Images!IInv, Images!TypeOK, Images!Hand
<1>2. /\ key' \in [Images!Slots -> Keys \cup {Nothing}]
      /\ key'[s] = k
      /\ \A t \in Images!Slots \ {s}: key'[t] = key[t]
      /\ UNCHANGED <<object, home, presigned, offered>>
  BY <1>1 DEF Images!WriteKey, Images!IInv, Images!TypeOK
<1>3. /\ hand' \in [Handlers -> Images!Hand]
      /\ hand'[h].stage \in {"idle", "erase"}
      /\ \A g \in Handlers \ {h}: hand'[g] = hand[g]
      /\ hand'[h] = Images!Free \/ /\ hand'[h].stage = "erase"
                                   /\ hand'[h].slot = s
                                   /\ hand'[h].new = k
                                   /\ hand'[h].previous = hand[h].previous
                                   /\ hand[h].previous \notin {Nothing, k}
  <2>1. CASE Images!Done(h)
    <3>1. hand' = [hand EXCEPT ![h] = Images!Free] /\ Images!TypeOK
      BY <2>1 DEF Images!Done, Images!IInv
    <3>2. Images!Free \in Images!Hand /\ Images!Free.stage = "idle"
      BY LogoFreeType DEF Images!Free
    <3> QED BY <3>1, <3>2, LogoHandMoves
  <2>2. CASE Images!Go(h, "erase") /\ Images!Erasable(h)
    BY <2>2, LogoStaged DEF Images!IInv, Images!Stages, Images!Erasable
  <2> QED BY <2>1, <2>2 DEF Images!WriteKey
<1>4. Images!TypeOK'
  BY <1>2, <1>3 DEF Images!IInv, Images!TypeOK
<1>5. \A g \in Handlers: Images!HandOK(hand[g])'
  BY <1>1, <1>2, <1>3, LogoFreeType DEF Images!IInv, Images!HandOK, Images!Free
<1>6. \A t \in Images!Slots: key'[t] # Nothing => home'[key'[t]] = t /\ offered'[key'[t]] > 0
  BY <1>1, <1>2 DEF Images!IInv, Images!HandOK
<1>7. ASSUME NEW x \in Keys, offered[x] <= 1 PROVE Images!KeyOK(x)'
  <2>1. Images!KeyOK(x)
    BY <1>7 DEF Images!IInv
  <2>2. ASSUME NEW g \in Handlers, Images!Naming(g, x)'
        PROVE  /\ g # h /\ Images!Naming(g, x)
               /\ hand'[g].stage = "write" => x \in object'
               /\ \A f \in Handlers: hand'[f].previous # x /\ (Images!Naming(f, x)' => f = g)
               /\ \A t \in Images!Slots: key'[t] # x
    <3>1. g # h /\ Images!Naming(g, x) /\ hand'[g] = hand[g]
      BY <1>3, <2>2 DEF Images!Naming
    <3>2. k # x
      BY <1>1, <2>1, <3>1 DEF Images!KeyOK, Images!Naming
    <3> QED
      BY <1>2, <1>3, <2>1, <3>1, <3>2, PlatformAssumption DEF Images!KeyOK,
         Images!Naming, Images!Free
  <2>3. ASSUME NEW t \in Images!Slots, key'[t] = x
        PROVE  /\ x \in object'
               /\ \A g \in Handlers: hand'[g].stage = "erase" => hand'[g].previous # x
    <3>1. CASE t = s
      <4>1. Images!Naming(h, x)
        BY <1>1, <1>2, <2>3, <3>1 DEF Images!Naming
      <4> QED
        BY <1>1, <1>2, <1>3, <2>1, <2>3, <3>1, <4>1, PlatformAssumption
           DEF Images!KeyOK, Images!Free
    <3>2. CASE t # s
      <4>1. key[t] = x /\ home[x] = t
        BY <1>2, <2>3, <3>2, PlatformAssumption DEF Images!IInv
      <4>2. hand[h].previous # x
        BY <1>1, <3>2, <4>1, PlatformAssumption DEF Images!HandOK
      <4> QED
        BY <1>2, <1>3, <2>1, <4>1, <4>2, PlatformAssumption DEF Images!KeyOK,
           Images!Free
    <3> QED BY <3>1, <3>2
  <2> QED BY <2>2, <2>3 DEF Images!KeyOK
<1>8. \A x \in Keys: /\ home'[x] = Nothing => offered'[x] = 0
                     /\ home'[x] = "admin" => offered'[x] <= 1
                     /\ offered'[x] <= 1 => Images!KeyOK(x)'
  BY <1>2, <1>7 DEF Images!IInv
<1> QED BY <1>4, <1>5, <1>6, <1>8 DEF Images!IInv

LEMMA LogoDeleteKeeps ==
  ASSUME Images!IInv, NEW h \in Handlers, Images!DeleteObject(h)
  PROVE  Images!IInv'
<1>1. /\ hand' \in [Handlers -> Images!Hand]
      /\ hand'[h] = Images!Free
      /\ \A g \in Handlers \ {h}: hand'[g] = hand[g]
      /\ hand[h].stage = "erase"
      /\ object' \subseteq object
      /\ object \ {hand[h].previous} \subseteq object'
      /\ UNCHANGED <<key, home, presigned, offered>>
  BY LogoFreeType, LogoHandMoves DEF Images!DeleteObject, Images!Done,
     Images!IInv
<1>2. Images!TypeOK'
  BY <1>1 DEF Images!IInv, Images!TypeOK
<1>3. \A g \in Handlers: Images!HandOK(hand[g])'
  BY <1>1, LogoFreeType DEF Images!IInv, Images!HandOK, Images!Free
<1>4. ASSUME NEW k \in Keys, offered[k] <= 1 PROVE Images!KeyOK(k)'
  BY <1>1, <1>4, PlatformAssumption DEF Images!IInv, Images!KeyOK,
     Images!Naming, Images!Free
<1> QED BY <1>1, <1>2, <1>3, <1>4 DEF Images!IInv

LEMMA LogoPreserved == Images!IInv /\ [Images!Next]_imagesVars => Images!IInv'
<1> SUFFICES ASSUME Images!IInv, [Images!Next]_imagesVars PROVE Images!IInv'
  OBVIOUS
<1>1. ASSUME NEW h \in Handlers, NEW s \in Images!Uploaded,
             Images!UploadBegins(h, s)
      PROVE  Images!IInv'
  BY <1>1, LogoUploadKeeps
<1>2. ASSUME NEW h \in Handlers, Images!UploadObject(h) PROVE Images!IInv'
  BY <1>2, LogoUploadObjectKeeps
<1>3. ASSUME NEW h \in Handlers, NEW s \in Images!Confirmed, NEW k \in Keys,
             Images!ConfirmBegins(h, s, k)
      PROVE  Images!IInv'
  BY <1>3, LogoConfirmKeeps
<1>4. ASSUME NEW h \in Handlers, Images!HeadObject(h) PROVE Images!IInv'
  BY <1>4, LogoHeadKeeps
<1>5. ASSUME NEW h \in Handlers, NEW s \in Images!Slots,
             Images!RemoveBegins(h, s)
      PROVE  Images!IInv'
  BY <1>5, LogoRemoveKeeps
<1>6. ASSUME NEW h \in Handlers, Images!WriteKey(h) PROVE Images!IInv'
  BY <1>6, LogoWriteKeeps
<1>7. ASSUME NEW h \in Handlers, Images!DeleteObject(h) PROVE Images!IInv'
  BY <1>7, LogoDeleteKeeps
<1>8. CASE \/ \E s \in Images!Confirmed: Images!CreateUploadUrl(s)
           \/ \E k \in Keys: Images!BrowserPuts(k)
  BY <1>8, LogoBrowserKeeps
<1>9. CASE UNCHANGED imagesVars
  BY <1>9 DEF imagesVars, Images!IInv, Images!TypeOK, Images!HandOK,
     Images!KeyOK, Images!Naming
<1> QED BY <1>1, <1>2, <1>3, <1>4, <1>5, <1>6, <1>7, <1>8, <1>9 DEF Images!Next

LEMMA LogoThere == Images!IInv => Images!LogosAreThere /\ Images!BrandingLogoIsThere
<1> SUFFICES ASSUME Images!IInv
             PROVE  Images!LogosAreThere /\ Images!BrandingLogoIsThere
  OBVIOUS
<1>1. \A s \in Images!Slots: key[s] \in Keys \cup {Nothing}
  BY DEF Images!IInv, Images!TypeOK
<1>2. \A s \in Images!Slots: key[s] # Nothing /\ offered[key[s]] <= 1 => key[s] \in object
  BY <1>1 DEF Images!IInv, Images!KeyOK
<1>3. Images!LogosAreThere
  BY <1>1, <1>2 DEF Images!LogosAreThere, Images!IInv, Images!TypeOK
<1>4. Images!BrandingLogoIsThere
  BY <1>1, <1>2 DEF Images!BrandingLogoIsThere, Images!IInv, Images!Slots
<1> QED BY <1>3, <1>4

(***************************************************************************)
(* The PDF of an invoice (InvoicePdf).  Every step of a job leaves what the *)
(* others rely on alone; what is stored is of the lines that were issued   *)
(* wherever a first delivery could attach it.                              *)
(***************************************************************************)
LEMMA PdfPages == Nothing \notin Paper!Page
BY PlatformAssumption DEF Paper!Page

LEMMA PdfNoJobFacts ==
  /\ Paper!NoJob \in Paper!Job
  /\ Paper!NoJob.kind = "download" /\ Paper!NoJob.stage = "idle"
  /\ Paper!NoJob.seen.status = "DRAFT" /\ ~Paper!NoJob.seen.linked
BY PlatformAssumption DEF Paper!NoJob, Paper!Job, Paper!PdfStages, Paper!Draft,
   Paper!Invoice, Paper!Page

LEMMA PdfNoJobOK == Paper!JobOK(Paper!NoJob) /\ Paper!JobOK(Paper!NoJob)'
BY PdfNoJobFacts DEF Paper!JobOK

LEMMA PdfJobMoves ==
  ASSUME Paper!TypeOK, NEW j \in Jobs, NEW q \in Paper!Job,
         job' = [job EXCEPT ![j] = q]
  PROVE  /\ job' \in [Jobs -> Paper!Job]
         /\ job'[j] = q
         /\ \A g \in Jobs \ {j}: job'[g] = job[g]
BY DEF Paper!TypeOK

LEMMA PdfInitially == Paper!Init => Paper!IInv
<1> SUFFICES ASSUME Paper!Init PROVE Paper!IInv
  OBVIOUS
<1>3. /\ invoice \in Paper!Invoice
      /\ edits \in Nat /\ invoice.version + edits <= MaxVersion
  BY PlatformAssumption DEF Paper!Init, Paper!Draft, Paper!Invoice
<1>1. Paper!TypeOK
  BY <1>3, PdfNoJobFacts DEF Paper!Init, Paper!TypeOK
<1>2. \A j \in Jobs: Paper!JobOK(job[j]) /\ Paper!FirstOK(j)
  BY PdfNoJobFacts, PdfNoJobOK DEF Paper!Init, Paper!FirstOK
<1> QED
  BY <1>1, <1>2 DEF Paper!Init, Paper!IInv, Paper!LinkedPdfIsThere,
     Paper!FirstMailIsExact, Paper!Draft

\* What every step of a job leaves true, when the job itself is in order, the
\* lines stay, and a PDF that is stored is one of the lines that were issued
\* wherever that matters.
LEMMA PdfStepKeeps ==
  ASSUME Paper!IInv, NEW j \in Jobs, NEW q \in Paper!Job,
         job' = [job EXCEPT ![j] = q],
         Paper!JobOK(q)',
         \/ q.kind = "download"
         \/ /\ q.kind = job[j].kind /\ q.nth = job[j].nth /\ q.seen = job[j].seen
            /\ q.stage # "fetch"
            /\ q.stage = "send" /\ q.nth = 1 => Paper!Right(q.page, q.seen),
         invoice' \in Paper!Invoice, invoice'.version = invoice.version,
         invoice.status # "DRAFT" => invoice'.status # "DRAFT",
         begun = 0 => invoice'.status = invoice.status,
         Paper!LinkedPdfIsThere',
         pdf' \in Paper!Page \cup {Nothing}, pdf # Nothing => pdf' # Nothing,
         pdf' = pdf \/ (begun = 0 => Paper!PdfIsOfIssue'),
         \A g \in Jobs:
           /\ job[g].kind = "mail" /\ job[g].nth = 1 /\ job[g].seen.status # "DRAFT"
           => pdf' = pdf \/ late \/ pdf'.version = invoice.version,
         begun' = begun,
         mailed' \subseteq [page: Paper!Page, nth: Nat, seen: Paper!Invoice],
         Paper!FirstMailIsExact',
         UNCHANGED <<logo, edits, late>>
  PROVE  Paper!IInv'
<1>1. /\ job' \in [Jobs -> Paper!Job]
      /\ job'[j] = q
      /\ \A g \in Jobs \ {j}: job'[g] = job[g]
  BY PdfJobMoves DEF Paper!IInv
<1>2. Paper!TypeOK'
  BY <1>1 DEF Paper!IInv, Paper!TypeOK
<1>3. ASSUME NEW g \in Jobs \ {j} PROVE Paper!JobOK(job[g])'
  BY <1>1, <1>3 DEF Paper!IInv, Paper!JobOK
<1>4. \A g \in Jobs: Paper!JobOK(job[g])'
  BY <1>1, <1>3 DEF Paper!JobOK
<1>5. ASSUME NEW g \in Jobs, job'[g].kind = "mail", job'[g].nth = 1
      PROVE  Paper!FirstOK(g)'
  <2>1. job[g].kind = "mail" /\ job[g].nth = 1 /\ job'[g].seen = job[g].seen
    BY <1>1, <1>5
  <2>2. Paper!FirstOK(g)
    BY DEF Paper!IInv
  <2>3. \A f \in Jobs: job'[f].kind = "mail" =>
          job[f].kind = "mail" /\ job'[f].nth = job[f].nth /\ job'[f].seen = job[f].seen
    BY <1>1
  <2>4. job'[g].stage = "fetch" => g # j
    BY <1>1, <1>5
  <2>5. job'[g].stage = "fetch" /\ job'[g].seen.linked =>
         job'[g].seen.status # "DRAFT" /\ Paper!PdfIsOfIssue'
    BY <1>1, <2>1, <2>2, <2>4 DEF Paper!FirstOK, Paper!PdfIsOfIssue
  <2>6. job'[g].stage = "send" => Paper!Right(job'[g].page, job'[g].seen)
    BY <1>1, <1>5, <2>1, <2>2 DEF Paper!FirstOK
  <2>7. job'[g].stage = "send" => Paper!Right(job[g].page, job[g].seen)'
    BY <2>6 DEF Paper!Right
  <2> QED BY <1>5, <2>1, <2>2, <2>3, <2>5, <2>7 DEF Paper!FirstOK
<1>6. \A g \in Jobs: Paper!FirstOK(g)'
  BY <1>5 DEF Paper!FirstOK
<1>7. begun' = 0 => invoice'.status # "SENT" /\ (pdf' # Nothing => Paper!PdfIsOfIssue')
  BY DEF Paper!IInv, Paper!PdfIsOfIssue
<1> QED BY <1>2, <1>4, <1>6, <1>7 DEF Paper!IInv

\* The same of a step that changes only its job.
LEMMA PdfQuietKeeps ==
  ASSUME Paper!IInv, NEW j \in Jobs, NEW q \in Paper!Job,
         job' = [job EXCEPT ![j] = q], Paper!JobOK(q),
         \/ q.kind = "download"
         \/ /\ q.kind = job[j].kind /\ q.nth = job[j].nth /\ q.seen = job[j].seen
            /\ q.stage # "fetch"
            /\ q.stage = "send" /\ q.nth = 1 => Paper!Right(q.page, q.seen),
         UNCHANGED <<invoice, edits, late, pdf, begun, mailed, logo>>
  PROVE  Paper!IInv'
<1>1. Paper!JobOK(q)'
  BY DEF Paper!JobOK
<1>2. /\ invoice \in Paper!Invoice /\ pdf \in Paper!Page \cup {Nothing}
      /\ mailed \subseteq [page: Paper!Page, nth: Nat, seen: Paper!Invoice]
      /\ Paper!LinkedPdfIsThere /\ Paper!FirstMailIsExact
  BY DEF Paper!IInv, Paper!TypeOK
<1>3. Paper!LinkedPdfIsThere' /\ Paper!FirstMailIsExact'
  BY <1>2 DEF Paper!LinkedPdfIsThere, Paper!FirstMailIsExact
<1> QED BY <1>1, <1>2, <1>3, PdfStepKeeps

LEMMA PdfEndKeeps ==
  ASSUME Paper!IInv, NEW j \in Jobs, Paper!Ended(j),
         UNCHANGED <<invoice, edits, late, pdf, begun, mailed, logo>>
  PROVE  Paper!IInv'
BY PdfNoJobFacts, PdfNoJobOK, PdfQuietKeeps DEF Paper!Ended

LEMMA PdfDownloadKeeps ==
  ASSUME Paper!IInv, NEW j \in Jobs, Paper!DownloadBegins(j) PROVE Paper!IInv'
<1>1. PICK q: q = [Paper!NoJob EXCEPT !.stage = "fetch", !.seen = invoice]
  OBVIOUS
<1>2. q \in Paper!Job
  BY <1>1, PdfNoJobFacts DEF Paper!IInv, Paper!TypeOK, Paper!Job,
     Paper!PdfStages
<1>3. /\ q.kind = "download" /\ q.stage = "fetch" /\ q.seen = invoice
  BY <1>1, PdfNoJobFacts DEF Paper!NoJob
<1>4. Paper!JobOK(q)
  BY <1>3 DEF Paper!JobOK, Paper!IInv, Paper!LinkedPdfIsThere
<1> QED BY <1>1, <1>2, <1>3, <1>4, PdfQuietKeeps DEF Paper!DownloadBegins

LEMMA PdfBrandKeeps ==
  ASSUME Paper!IInv, NEW j \in Jobs, job[j].stage = "fetch", ~Paper!Stored(j),
         Paper!Move(j, "brand"),
         UNCHANGED <<invoice, edits, late, pdf, begun, mailed, logo>>
  PROVE  Paper!IInv'
<1>1. PICK q: q = [job[j] EXCEPT !.stage = "brand"]
  OBVIOUS
<1>2. job[j] \in Paper!Job /\ Paper!JobOK(job[j])
  BY DEF Paper!IInv, Paper!TypeOK
<1>3. /\ q \in Paper!Job /\ q.stage = "brand"
      /\ q.kind = job[j].kind /\ q.nth = job[j].nth /\ q.seen = job[j].seen
  BY <1>1, <1>2 DEF Paper!Job, Paper!PdfStages
<1>4. Paper!JobOK(q)
  BY <1>2, <1>3 DEF Paper!JobOK, Paper!Stored
<1>5. job' = [job EXCEPT ![j] = q]
  BY <1>1, <1>2 DEF Paper!Move, Paper!IInv, Paper!TypeOK
<1> QED BY <1>3, <1>4, <1>5, PdfQuietKeeps

\* A PDF in hand: what a first delivery takes is of the lines it saw.
LEMMA PdfHoldKeeps ==
  ASSUME Paper!IInv, NEW j \in Jobs, NEW page \in Paper!Page,
         Paper!Holding(j, page),
         job[j].stage \in {"fetch", "logo"},
         job[j].kind = "mail" /\ job[j].nth = 1 => Paper!Right(page, job[j].seen),
         UNCHANGED <<invoice, edits, late, pdf, begun, mailed, logo>>
  PROVE  Paper!IInv'
<1>1. CASE job[j].kind # "mail"
  BY <1>1, PdfEndKeeps DEF Paper!Holding
<1>2. CASE job[j].kind = "mail"
  <2>1. PICK q: q = [job[j] EXCEPT !.stage = "send", !.page = page]
    OBVIOUS
  <2>2. job[j] \in Paper!Job /\ Paper!JobOK(job[j])
    BY DEF Paper!IInv, Paper!TypeOK
  <2>3. /\ q \in Paper!Job /\ q.stage = "send" /\ q.page = page
        /\ q.kind = job[j].kind /\ q.nth = job[j].nth /\ q.seen = job[j].seen
    BY <2>1, <2>2 DEF Paper!Job, Paper!PdfStages
  <2>4. Paper!JobOK(q)
    BY <1>2, <2>2, <2>3 DEF Paper!JobOK
  <2>5. job' = [job EXCEPT ![j] = q]
    BY <1>2, <2>1, <2>2 DEF Paper!Holding, Paper!IInv, Paper!TypeOK
  <2> QED BY <1>2, <2>3, <2>4, <2>5, PdfQuietKeeps
<1> QED BY <1>1, <1>2

LEMMA PdfFetchKeeps ==
  ASSUME Paper!IInv, NEW j \in Jobs, Paper!FetchPdf(j) PROVE Paper!IInv'
<1>1. CASE Paper!Stored(j)
  <2>1. pdf \in Paper!Page
    BY <1>1 DEF Paper!Stored, Paper!IInv, Paper!TypeOK
  <2>2. Paper!JobOK(job[j]) /\ Paper!FirstOK(j)
    BY DEF Paper!IInv
  <2>3. job[j].seen.status \in {"DRAFT", "SENT", "CANCELLED"}
    BY DEF Paper!IInv, Paper!TypeOK, Paper!Job, Paper!Invoice
  <2>4. job[j].kind = "mail" /\ job[j].nth = 1 => Paper!Right(pdf, job[j].seen)
    BY <1>1, <2>2, <2>3 DEF Paper!FetchPdf, Paper!Stored, Paper!FirstOK,
       Paper!PdfIsOfIssue, Paper!JobOK, Paper!Right
  <2> QED BY <1>1, <2>1, <2>4, PdfHoldKeeps DEF Paper!FetchPdf
<1> QED BY <1>1, PdfBrandKeeps DEF Paper!FetchPdf

LEMMA PdfBrandingKeeps ==
  ASSUME Paper!IInv, NEW j \in Jobs, Paper!GetEffectiveBranding(j)
  PROVE  Paper!IInv'
<1>1. PICK q: q = [job[j] EXCEPT !.stage = "logo",
                   !.page = [version |-> job[j].seen.version, logo |-> logo]]
  OBVIOUS
<1>2. /\ job[j] \in Paper!Job /\ Paper!JobOK(job[j])
      /\ logo \in Logos \cup {Nothing}
  BY DEF Paper!IInv, Paper!TypeOK
<1>3. [version |-> job[j].seen.version, logo |-> logo] \in Paper!Page
  BY <1>2 DEF Paper!Page, Paper!Job, Paper!Invoice
<1>4. /\ q \in Paper!Job /\ q.stage = "logo" /\ q.page.version = q.seen.version
      /\ q.kind = job[j].kind /\ q.nth = job[j].nth /\ q.seen = job[j].seen
  BY <1>1, <1>2, <1>3 DEF Paper!Job, Paper!PdfStages
<1>5. Paper!JobOK(q)
  BY <1>2, <1>4 DEF Paper!JobOK, Paper!GetEffectiveBranding
<1>6. job' = [job EXCEPT ![j] = q]
  BY <1>1, <1>2 DEF Paper!GetEffectiveBranding, Paper!IInv, Paper!TypeOK
<1> QED BY <1>4, <1>5, <1>6, PdfQuietKeeps DEF Paper!GetEffectiveBranding

LEMMA PdfRenderKeeps ==
  ASSUME Paper!IInv, NEW j \in Jobs, Paper!RenderPdf(j) PROVE Paper!IInv'
<1>1. /\ job[j] \in Paper!Job /\ Paper!JobOK(job[j])
      /\ job[j].page \in Paper!Page /\ logo \in Logos \cup {Nothing}
  BY DEF Paper!IInv, Paper!TypeOK, Paper!Job
<1>2. PICK k \in Paper!Image(job[j].page.logo):
        LET page == [job[j].page EXCEPT !.logo = k] IN
        IF Paper!Persisted(j)
          THEN job' = [job EXCEPT ![j].stage = "put", ![j].page = page]
          ELSE Paper!Holding(j, page)
  BY DEF Paper!RenderPdf
<1>3. PICK page: page = [job[j].page EXCEPT !.logo = k]
  OBVIOUS
<1>4. page \in Paper!Page /\ page.version = job[j].page.version
  BY <1>1, <1>3 DEF Paper!Image, Paper!Page
<1>5. page.version = job[j].seen.version
  BY <1>1, <1>4 DEF Paper!RenderPdf, Paper!JobOK
<1>6. CASE ~Paper!Persisted(j)
  BY <1>2, <1>3, <1>4, <1>5, <1>6, PdfHoldKeeps DEF Paper!RenderPdf, Paper!Right
<1>7. CASE Paper!Persisted(j)
  <2>1. PICK q: q = [job[j] EXCEPT !.stage = "put", !.page = page]
    OBVIOUS
  <2>2. /\ q \in Paper!Job /\ q.stage = "put" /\ q.page = page
        /\ q.kind = job[j].kind /\ q.nth = job[j].nth /\ q.seen = job[j].seen
    BY <1>1, <1>4, <2>1 DEF Paper!Job, Paper!PdfStages
  <2>3. ~job[j].seen.linked
    BY <1>1 DEF Paper!JobOK, Paper!RenderPdf
  <2>4. q.kind \in {"mail", "download"}
    BY <2>2 DEF Paper!Job
  <2>5. Paper!JobOK(q)
    BY <1>1, <1>5, <1>7, <2>2, <2>3, <2>4 DEF Paper!JobOK, Paper!Persisted
  <2>6. job' = [job EXCEPT ![j] = q]
    BY <1>1, <1>2, <1>3, <1>7, <2>1 DEF Paper!IInv, Paper!TypeOK
  <2> QED BY <1>7, <2>2, <2>5, <2>6, PdfQuietKeeps DEF Paper!RenderPdf
<1> QED BY <1>6, <1>7

\* What may be stored: nobody who relies on the stored PDF can be misled.
LEMMA PdfStoredMaybe ==
  ASSUME Paper!IInv, NEW j \in Jobs, job[j].stage = "put"
  PROVE  /\ ~job[j].seen.linked /\ job[j].page \in Paper!Page
         /\ job[j].page.version = job[j].seen.version
         /\ begun = 0 => invoice.status # "DRAFT"
                         /\ (late \/ job[j].page.version = invoice.version)
         /\ \A g \in Jobs:
              /\ job[g].kind = "mail" /\ job[g].nth = 1
              /\ job[g].seen.status # "DRAFT"
              => late \/ job[j].page.version = invoice.version
<1>1. job[j] \in Paper!Job /\ Paper!JobOK(job[j]) /\ begun \in Nat
  BY DEF Paper!IInv, Paper!TypeOK
<1>2. /\ ~job[j].seen.linked /\ job[j].page \in Paper!Page
      /\ job[j].page.version = job[j].seen.version
      /\ job[j].kind \in {"mail", "download"}
  BY <1>1 DEF Paper!JobOK, Paper!Job
<1>3. begun = 0 => job[j].kind = "download"
  BY <1>1, <1>2 DEF Paper!JobOK
<1>4. job[j].seen.status # "DRAFT" =>
        invoice.status # "DRAFT" /\ (late \/ job[j].page.version = invoice.version)
  BY <1>1, <1>2 DEF Paper!JobOK
<1>5. job[j].kind = "download" => job[j].seen.status # "DRAFT"
  BY <1>1 DEF Paper!JobOK
<1>6. ASSUME NEW g \in Jobs,
             job[g].kind = "mail" /\ job[g].nth = 1 /\ job[g].seen.status # "DRAFT"
      PROVE  job[j].seen.status # "DRAFT"
  <2>1. Paper!FirstOK(g)
    BY DEF Paper!IInv
  <2> QED BY <1>2, <1>5, <1>6, <2>1 DEF Paper!FirstOK
<1> QED BY <1>2, <1>3, <1>4, <1>5, <1>6

LEMMA PdfStoreKeeps ==
  ASSUME Paper!IInv, NEW j \in Jobs, Paper!StorePdf(j) PROVE Paper!IInv'
<1>1. /\ job[j] \in Paper!Job /\ Paper!JobOK(job[j]) /\ job[j].stage = "put"
      /\ invoice \in Paper!Invoice /\ pdf \in Paper!Page \cup {Nothing}
      /\ mailed \subseteq [page: Paper!Page, nth: Nat, seen: Paper!Invoice]
      /\ Paper!FirstMailIsExact /\ Paper!LinkedPdfIsThere
  BY DEF Paper!IInv, Paper!TypeOK, Paper!StorePdf
<1>2. pdf' = pdf \/ pdf' = job[j].page
  BY DEF Paper!StorePdf, Paper!UploadedPdf
<1>3. /\ pdf' \in Paper!Page \cup {Nothing}
      /\ pdf # Nothing => pdf' # Nothing
      /\ pdf' = job[j].page => pdf' # Nothing
  BY <1>1, <1>2, PdfStoredMaybe, PdfPages
<1>4. UNCHANGED <<invoice, edits, late, begun, mailed, logo>>
  BY DEF Paper!StorePdf
<1>5. Paper!FirstMailIsExact' /\ Paper!LinkedPdfIsThere'
  BY <1>1, <1>3, <1>4 DEF Paper!FirstMailIsExact, Paper!LinkedPdfIsThere
<1>6. pdf' = pdf \/ (begun = 0 => Paper!PdfIsOfIssue')
  BY <1>1, <1>2, <1>4, PdfStoredMaybe DEF Paper!PdfIsOfIssue
<1>7. \A g \in Jobs:
        /\ job[g].kind = "mail" /\ job[g].nth = 1
        /\ job[g].seen.status # "DRAFT"
        => pdf' = pdf \/ late \/ pdf'.version = invoice.version
  BY <1>1, <1>2, PdfStoredMaybe
<1>8. CASE Paper!Ended(j)
  BY <1>1, <1>3, <1>4, <1>5, <1>6, <1>7, <1>8, PdfNoJobFacts, PdfNoJobOK,
     PdfStepKeeps DEF Paper!Ended
<1>9. CASE Paper!UploadedPdf(j) /\ Paper!Move(j, "link")
  <2>1. PICK q: q = [job[j] EXCEPT !.stage = "link"]
    OBVIOUS
  <2>2. /\ q \in Paper!Job /\ q.stage = "link" /\ q.page = job[j].page
        /\ q.kind = job[j].kind /\ q.nth = job[j].nth /\ q.seen = job[j].seen
    BY <1>1, <2>1 DEF Paper!Job, Paper!PdfStages
  <2>3. pdf' # Nothing
    BY <1>3, <1>9 DEF Paper!UploadedPdf
  <2>4. Paper!JobOK(q)'
    BY <1>1, <1>4, <2>2, <2>3, PdfStoredMaybe DEF Paper!JobOK
  <2>5. job' = [job EXCEPT ![j] = q]
    BY <1>9, <2>1 DEF Paper!Move, Paper!IInv, Paper!TypeOK
  <2> QED
    BY <1>1, <1>3, <1>4, <1>5, <1>6, <1>7, <2>2, <2>4, <2>5, PdfStepKeeps
<1> QED
  BY <1>1, <1>8, <1>9, PdfStoredMaybe DEF Paper!StorePdf

LEMMA PdfLinkKeeps ==
  ASSUME Paper!IInv, NEW j \in Jobs, Paper!LinkPdf(j) PROVE Paper!IInv'
<1>1. /\ job[j] \in Paper!Job /\ Paper!JobOK(job[j]) /\ job[j].stage = "link"
      /\ invoice \in Paper!Invoice /\ pdf \in Paper!Page \cup {Nothing}
      /\ mailed \subseteq [page: Paper!Page, nth: Nat, seen: Paper!Invoice]
      /\ Paper!FirstMailIsExact
  BY DEF Paper!IInv, Paper!TypeOK, Paper!LinkPdf
<1>2. /\ invoice' \in Paper!Invoice /\ invoice'.version = invoice.version
      /\ invoice'.status = invoice.status
  BY <1>1 DEF Paper!LinkPdf, Paper!Invoice
<1>3. pdf # Nothing /\ UNCHANGED <<edits, late, pdf, begun, mailed, logo>>
  BY <1>1 DEF Paper!LinkPdf, Paper!JobOK
<1>4. Paper!FirstMailIsExact' /\ Paper!LinkedPdfIsThere'
  BY <1>1, <1>3 DEF Paper!FirstMailIsExact, Paper!LinkedPdfIsThere
<1>5. CASE job[j].kind # "mail"
  <2>1. Paper!Ended(j)
    BY <1>5 DEF Paper!LinkPdf, Paper!Holding
  <2> QED
    BY <1>1, <1>2, <1>3, <1>4, <2>1, PdfNoJobFacts, PdfNoJobOK, PdfStepKeeps
       DEF Paper!Ended
<1>6. CASE job[j].kind = "mail"
  <2>1. PICK q: q = [job[j] EXCEPT !.stage = "send"]
    OBVIOUS
  <2>2. /\ q \in Paper!Job /\ q.stage = "send" /\ q.page = job[j].page
        /\ q.kind = job[j].kind /\ q.nth = job[j].nth /\ q.seen = job[j].seen
    BY <1>1, <2>1 DEF Paper!Job, Paper!PdfStages
  <2>3. Paper!JobOK(q)'
    BY <1>1, <1>2, <1>3, <1>6, <2>2 DEF Paper!JobOK
  <2>4. Paper!Right(q.page, q.seen)
    BY <1>1, <2>2 DEF Paper!JobOK, Paper!Right
  <2>5. [job EXCEPT ![j].stage = "send", ![j].page = job[j].page] = [job EXCEPT ![j] = q]
    BY <1>1, <2>1 DEF Paper!Job, Paper!IInv, Paper!TypeOK
  <2>6. job' = [job EXCEPT ![j] = q]
    BY <1>6, <2>5 DEF Paper!LinkPdf, Paper!Holding
  <2> QED
    BY <1>1, <1>2, <1>3, <1>4, <2>2, <2>3, <2>4, <2>6, PdfStepKeeps
<1> QED BY <1>5, <1>6

LEMMA PdfSendKeeps ==
  ASSUME Paper!IInv, NEW j \in Jobs, Paper!SendEmail(j) PROVE Paper!IInv'
<1>1. /\ job[j] \in Paper!Job /\ Paper!JobOK(job[j]) /\ job[j].stage = "send"
      /\ Paper!FirstOK(j)
      /\ job[j].page \in Paper!Page /\ job[j].nth \in Nat
      /\ job[j].seen \in Paper!Invoice
      /\ invoice \in Paper!Invoice /\ pdf \in Paper!Page \cup {Nothing}
      /\ mailed \subseteq [page: Paper!Page, nth: Nat, seen: Paper!Invoice]
      /\ Paper!FirstMailIsExact /\ Paper!LinkedPdfIsThere
  BY DEF Paper!IInv, Paper!TypeOK, Paper!SendEmail, Paper!Job, Paper!Invoice
<1>2. UNCHANGED <<invoice, edits, late, pdf, begun, logo>>
  BY DEF Paper!SendEmail
<1>3. CASE Paper!Ended(j) /\ UNCHANGED mailed
  BY <1>2, <1>3, PdfEndKeeps
<1> DEFINE m == [page |-> job[j].page, nth |-> job[j].nth, seen |-> job[j].seen]
<1>4. CASE mailed' = mailed \cup {m} /\ Paper!Move(j, "issue")
  <2>1. PICK q: q = [job[j] EXCEPT !.stage = "issue"]
    OBVIOUS
  <2>2. /\ q \in Paper!Job /\ q.stage = "issue" /\ q.page = job[j].page
        /\ q.kind = job[j].kind /\ q.nth = job[j].nth /\ q.seen = job[j].seen
    BY <1>1, <2>1 DEF Paper!Job, Paper!PdfStages
  <2>3. Paper!JobOK(q)'
    BY <1>1, <1>2, <2>2 DEF Paper!JobOK
  <2>4. mailed' \subseteq [page: Paper!Page, nth: Nat, seen: Paper!Invoice]
    BY <1>1, <1>4
  <2>5. m.nth = 1 => Paper!Right(m.page, m.seen)
    BY <1>1 DEF Paper!JobOK, Paper!FirstOK
  <2>6. Paper!FirstMailIsExact' /\ Paper!LinkedPdfIsThere'
    BY <1>1, <1>2, <1>4, <2>5 DEF Paper!FirstMailIsExact,
       Paper!LinkedPdfIsThere, Paper!Right
  <2>7. job' = [job EXCEPT ![j] = q]
    BY <1>4, <2>1 DEF Paper!Move, Paper!IInv, Paper!TypeOK
  <2> QED
    BY <1>1, <1>2, <2>2, <2>3, <2>4, <2>6, <2>7, PdfStepKeeps
<1> QED BY <1>3, <1>4 DEF Paper!SendEmail

LEMMA PdfMarkKeeps ==
  ASSUME Paper!IInv, NEW j \in Jobs, Paper!MarkSent(j) PROVE Paper!IInv'
<1>1. /\ invoice \in Paper!Invoice /\ pdf \in Paper!Page \cup {Nothing}
      /\ mailed \subseteq [page: Paper!Page, nth: Nat, seen: Paper!Invoice]
      /\ Paper!FirstMailIsExact /\ Paper!LinkedPdfIsThere
  BY DEF Paper!IInv, Paper!TypeOK
<1>2. /\ invoice' \in Paper!Invoice /\ invoice'.version = invoice.version
      /\ invoice'.linked = invoice.linked
      /\ invoice.status # "DRAFT" => invoice'.status # "DRAFT"
  BY <1>1 DEF Paper!MarkSent, Paper!Invoice
<1>5. begun # 0
  BY DEF Paper!IInv, Paper!TypeOK, Paper!JobOK, Paper!MarkSent
<1>3. Paper!Ended(j) /\ UNCHANGED <<edits, late, pdf, begun, mailed, logo>>
  BY DEF Paper!MarkSent
<1>4. Paper!FirstMailIsExact' /\ Paper!LinkedPdfIsThere'
  BY <1>1, <1>2, <1>3 DEF Paper!FirstMailIsExact, Paper!LinkedPdfIsThere
<1> QED
  BY <1>1, <1>2, <1>3, <1>4, <1>5, PdfNoJobFacts, PdfNoJobOK, PdfStepKeeps
     DEF Paper!Ended

LEMMA PdfDeliveryKeeps ==
  ASSUME Paper!IInv, NEW j \in Jobs, Paper!DeliveryBegins(j) PROVE Paper!IInv'
<1>1. PICK q: q = [Paper!NoJob EXCEPT !.stage = "fetch", !.kind = "mail",
                                !.seen = invoice, !.nth = begun + 1]
  OBVIOUS
<1>2. /\ begun \in Nat /\ invoice \in Paper!Invoice
      /\ job \in [Jobs -> Paper!Job] /\ Paper!LinkedPdfIsThere
  BY DEF Paper!IInv, Paper!TypeOK
<1>3. /\ q \in Paper!Job /\ q.kind = "mail" /\ q.stage = "fetch"
      /\ q.seen = invoice
      /\ q.nth = begun + 1
  <2>1. begun + 1 \in Nat
    BY <1>2
  <2>2. q = [stage |-> "fetch", kind |-> "mail", seen |-> invoice,
             page |-> Paper!NoJob.page, nth |-> begun + 1]
    BY <1>1 DEF Paper!NoJob
  <2> QED BY <1>2, <2>1, <2>2, PdfNoJobFacts DEF Paper!Job, Paper!PdfStages
<1>4. /\ job' = [job EXCEPT ![j] = q] /\ begun' = begun + 1
      /\ UNCHANGED <<invoice, edits, late, pdf, mailed, logo>> /\ job[j].stage = "idle"
  BY <1>1 DEF Paper!DeliveryBegins
<1>5. /\ job' \in [Jobs -> Paper!Job]
      /\ job'[j] = q
      /\ \A g \in Jobs \ {j}: job'[g] = job[g]
  BY <1>2, <1>3, <1>4
<1>6. Paper!TypeOK'
  BY <1>2, <1>4, <1>5 DEF Paper!IInv, Paper!TypeOK
<1>7. Paper!JobOK(q)'
  BY <1>2, <1>3, <1>4 DEF Paper!JobOK, Paper!LinkedPdfIsThere
<1>8. ASSUME NEW g \in Jobs \ {j} PROVE Paper!JobOK(job[g])'
  <2>1. Paper!JobOK(job[g]) /\ job'[g] = job[g]
    BY <1>5 DEF Paper!IInv
  <2> QED BY <1>2, <1>4, <2>1 DEF Paper!JobOK
<1>9. \A g \in Jobs: Paper!JobOK(job[g])'
  BY <1>5, <1>7, <1>8 DEF Paper!JobOK
<1>10. \A g \in Jobs \ {j}: job[g].kind = "mail" => job[g].nth \in 1..begun
  BY DEF Paper!IInv, Paper!JobOK
<1>11. \A g \in Jobs: Paper!JobOK(job[g])
  BY DEF Paper!IInv
<1>12. ASSUME NEW g \in Jobs, job'[g].kind = "mail", job'[g].nth = 1
      PROVE  Paper!FirstOK(g)'
  <2>1. CASE g = j
    <3>1. begun = 0
      BY <1>2, <1>3, <1>5, <1>12, <2>1
    <3>2. \A f \in Jobs \ {j}: job'[f].kind # "mail"
      BY <1>5, <1>10, <3>1
    <3>3. invoice.status # "SENT" /\ (pdf # Nothing => Paper!PdfIsOfIssue)
      BY <3>1 DEF Paper!IInv
    <3>4. invoice.linked => invoice.status # "DRAFT" /\ Paper!PdfIsOfIssue
      BY <1>2, <3>3 DEF Paper!LinkedPdfIsThere, Paper!PdfIsOfIssue
    <3> QED
      BY <1>3, <1>4, <1>5, <2>1, <3>2, <3>3, <3>4 DEF Paper!FirstOK,
         Paper!PdfIsOfIssue
  <2>2. CASE g # j
    <3>1. job'[g] = job[g] /\ Paper!FirstOK(g) /\ Paper!JobOK(job[g])
      BY <1>5, <1>11, <2>2 DEF Paper!IInv
    <3>2. begun # 0
      BY <1>10, <1>12, <2>2, <3>1
    <3>3. q.nth # 1
      BY <1>2, <1>3, <3>2
    <3>4. job[g].seen.status # "DRAFT" => q.seen.status # "DRAFT"
      BY <1>3, <3>1 DEF Paper!JobOK
    <3>5. \A f \in Jobs: job'[f].kind = "mail" =>
            /\ job'[f].nth = 1 => f = g
            /\ job'[g].seen.status # "DRAFT" => job'[f].seen.status # "DRAFT"
      BY <1>5, <1>12, <3>1, <3>3, <3>4 DEF Paper!FirstOK
    <3> QED
      BY <1>4, <1>12, <3>1, <3>5 DEF Paper!FirstOK, Paper!PdfIsOfIssue, Paper!Right
  <2> QED BY <2>1, <2>2
<1>13. \A g \in Jobs: Paper!FirstOK(g)'
  BY <1>12 DEF Paper!FirstOK
<1>14. begun' # 0
  BY <1>2, <1>4
<1> QED
  BY <1>4, <1>6, <1>9, <1>13, <1>14 DEF Paper!IInv, Paper!LinkedPdfIsThere,
     Paper!FirstMailIsExact

\* An edit reads.
LEMMA PdfEditReadsKeeps ==
  ASSUME Paper!IInv, Paper!EditReads PROVE Paper!IInv'
<1>1. invoice \in Paper!Invoice /\ invoice.version \in Nat /\ edits \in Nat /\ MaxVersion \in Nat
  BY PlatformAssumption DEF Paper!IInv, Paper!TypeOK, Paper!Invoice
<1>2. invoice.version + edits' <= MaxVersion /\ edits' \in Nat
  BY <1>1 DEF Paper!EditReads
<1>3. Paper!TypeOK'
  BY <1>2 DEF Paper!EditReads, Paper!IInv, Paper!TypeOK
<1> QED
  BY <1>3 DEF Paper!EditReads, Paper!IInv, Paper!LinkedPdfIsThere, Paper!JobOK,
     Paper!FirstOK, Paper!PdfIsOfIssue, Paper!FirstMailIsExact, Paper!Right

\* An edit writes: nobody has read a draft as anything else, and what was a
\* draft no more is from now on written late.
LEMMA PdfEditWritesKeeps ==
  ASSUME Paper!IInv, Paper!EditWrites PROVE Paper!IInv'
<1>1. /\ invoice \in Paper!Invoice /\ invoice.version \in Nat \ {0} /\ edits \in Nat
      /\ MaxVersion \in Nat /\ invoice.version + edits <= MaxVersion /\ late \in BOOLEAN
  BY PlatformAssumption DEF Paper!IInv, Paper!TypeOK, Paper!Invoice
<1>2. /\ edits > 0 /\ edits' = edits - 1
      /\ invoice' = [invoice EXCEPT !.version = @ + 1]
      /\ late' = (late \/ invoice.status # "DRAFT")
      /\ UNCHANGED <<pdf, job, begun, mailed, logo>>
  BY DEF Paper!EditWrites
<1>3. /\ invoice'.version = invoice.version + 1
      /\ invoice'.status = invoice.status /\ invoice'.linked = invoice.linked
  BY <1>1, <1>2 DEF Paper!Invoice
<1>4. invoice.version + 1 \in 1..MaxVersion
  BY <1>1, <1>2
<1>5. invoice' \in Paper!Invoice
  BY <1>1, <1>2, <1>4 DEF Paper!Invoice
<1>6. edits' \in Nat /\ invoice'.version + edits' <= MaxVersion /\ late' \in BOOLEAN
  BY <1>1, <1>2, <1>3
<1>7. Paper!TypeOK'
  BY <1>2, <1>5, <1>6 DEF Paper!IInv, Paper!TypeOK
<1>8. \A j \in Jobs: Paper!JobOK(job[j]) /\ Paper!FirstOK(j)
  BY DEF Paper!IInv
<1>9. \A j \in Jobs: Paper!JobOK(job[j])'
  BY <1>2, <1>3, <1>8 DEF Paper!JobOK
<1>10. Paper!PdfIsOfIssue => Paper!PdfIsOfIssue'
  BY <1>2, <1>3 DEF Paper!PdfIsOfIssue
<1>11. \A j \in Jobs: Paper!FirstOK(j)'
  BY <1>2, <1>8, <1>10 DEF Paper!FirstOK, Paper!Right
<1>12. begun' = 0 => invoice'.status # "SENT" /\ (pdf' # Nothing => Paper!PdfIsOfIssue')
  BY <1>2, <1>3, <1>10 DEF Paper!IInv
<1> QED
  BY <1>2, <1>3, <1>7, <1>9, <1>11, <1>12 DEF Paper!IInv, Paper!LinkedPdfIsThere,
     Paper!FirstMailIsExact

\* A cancellation.
LEMMA PdfCancelKeeps ==
  ASSUME Paper!IInv, Paper!CancelInvoice PROVE Paper!IInv'
<1>1. invoice \in Paper!Invoice
  BY DEF Paper!IInv, Paper!TypeOK
<1>2. /\ invoice' = [invoice EXCEPT !.status = "CANCELLED"]
      /\ UNCHANGED <<edits, late, pdf, job, begun, mailed, logo>>
  BY DEF Paper!CancelInvoice
<1>3. /\ invoice' \in Paper!Invoice /\ invoice'.version = invoice.version
      /\ invoice'.status = "CANCELLED" /\ invoice'.linked = invoice.linked
  BY <1>1, <1>2 DEF Paper!Invoice
<1>4. Paper!TypeOK'
  BY <1>2, <1>3 DEF Paper!IInv, Paper!TypeOK
<1>5. \A j \in Jobs: Paper!JobOK(job[j]) /\ Paper!FirstOK(j)
  BY DEF Paper!IInv
<1>6. \A j \in Jobs: Paper!JobOK(job[j])'
  BY <1>2, <1>3, <1>5 DEF Paper!JobOK
<1>7. Paper!PdfIsOfIssue => Paper!PdfIsOfIssue'
  BY <1>2, <1>3 DEF Paper!PdfIsOfIssue
<1>8. \A j \in Jobs: Paper!FirstOK(j)'
  BY <1>2, <1>5, <1>7 DEF Paper!FirstOK, Paper!Right
<1>9. begun' = 0 => invoice'.status # "SENT" /\ (pdf' # Nothing => Paper!PdfIsOfIssue')
  BY <1>2, <1>3, <1>7 DEF Paper!IInv
<1> QED
  BY <1>2, <1>3, <1>4, <1>6, <1>8, <1>9 DEF Paper!IInv, Paper!LinkedPdfIsThere,
     Paper!FirstMailIsExact

LEMMA PdfPreserved == Paper!IInv /\ [Paper!Next]_pdfVars => Paper!IInv'
<1> SUFFICES ASSUME Paper!IInv, [Paper!Next]_pdfVars PROVE Paper!IInv'
  OBVIOUS
<1>1. ASSUME NEW j \in Jobs,
             \/ Paper!DeliveryBegins(j) \/ Paper!DownloadBegins(j) \/ Paper!FetchPdf(j)
             \/ Paper!GetEffectiveBranding(j) \/ Paper!RenderPdf(j) \/ Paper!StorePdf(j)
             \/ Paper!LinkPdf(j) \/ Paper!SendEmail(j) \/ Paper!MarkSent(j)
      PROVE  Paper!IInv'
  BY <1>1, PdfDeliveryKeeps, PdfDownloadKeeps, PdfFetchKeeps, PdfBrandingKeeps,
     PdfRenderKeeps,
     PdfStoreKeeps, PdfLinkKeeps, PdfSendKeeps, PdfMarkKeeps
<1>4. ASSUME UNCHANGED <<invoice, edits, late, pdf, job, begun, mailed>>,
             logo' \in Logos \cup {Nothing}
      PROVE  Paper!IInv'
  BY <1>4 DEF Paper!IInv, Paper!TypeOK, Paper!LinkedPdfIsThere, Paper!JobOK,
     Paper!FirstOK, Paper!PdfIsOfIssue, Paper!FirstMailIsExact, Paper!Right
<1>5. CASE Paper!ChangeLogo
  BY <1>4, <1>5 DEF Paper!ChangeLogo
<1>6. CASE UNCHANGED pdfVars
  BY <1>4, <1>6 DEF pdfVars, Paper!IInv, Paper!TypeOK
<1> QED
  BY <1>1, <1>5, <1>6, PdfEditReadsKeeps, PdfEditWritesKeeps, PdfCancelKeeps
     DEF Paper!Next

(***************************************************************************)
(* PayPal's application token (PayPalAppToken).  A fetch remembers a moment *)
(* before its token was issued.                                            *)
(***************************************************************************)
LEMMA TokenInitially == AppToken!Init => AppToken!IInv
BY DEF AppToken!Init, AppToken!IInv, AppToken!Empty, AppToken!NoCall,
   AppToken!CallOK

\* A fetch that has come to its end knows nothing any more.
LEMMA TokenEndKeeps ==
  ASSUME AppToken!IInv, NEW c \in Callers,
         call' = [call EXCEPT ![c] = AppToken!NoCall],
         UNCHANGED clock,
         cache' \in [full: BOOLEAN, until: Nat, expires: Nat],
         cache'.until <= cache'.expires \/ cache'.until <= clock + Margin
  PROVE  AppToken!IInv'
<1>1. /\ clock \in Nat
      /\ call \in [Callers -> [stage: {"idle", "sent", "issued"}, asked: Nat,
                               life: Nat, expires: Nat]]
  BY DEF AppToken!IInv
<1>2. AppToken!NoCall \in [stage: {"idle", "sent", "issued"}, asked: Nat, life: Nat, expires: Nat]
  BY DEF AppToken!NoCall
<1>3. call' \in [Callers -> [stage: {"idle", "sent", "issued"}, asked: Nat,
                             life: Nat, expires: Nat]]
  BY <1>1, <1>2
<1>4. \A a \in Callers: AppToken!CallOK(call[a])'
  BY <1>1 DEF AppToken!IInv, AppToken!CallOK, AppToken!NoCall
<1> QED BY <1>1, <1>3, <1>4 DEF AppToken!IInv

LEMMA TokenPreserved == AppToken!IInv /\ [AppToken!Next]_tokenVars => AppToken!IInv'
<1> SUFFICES ASSUME AppToken!IInv, [AppToken!Next]_tokenVars
             PROVE  AppToken!IInv'
  OBVIOUS
<1> DEFINE Call == [stage: {"idle", "sent", "issued"}, asked: Nat, life: Nat, expires: Nat]
<1>1. /\ clock \in Nat /\ call \in [Callers -> Call]
      /\ cache \in [full: BOOLEAN, until: Nat, expires: Nat]
      /\ cache.until <= cache.expires \/ cache.until <= clock + Margin
      /\ \A c \in Callers: AppToken!CallOK(call[c])
  BY DEF AppToken!IInv
<1>2. AppToken!Empty \in [full: BOOLEAN, until: Nat, expires: Nat] /\ AppToken!Empty.until = 0
  BY DEF AppToken!Empty
<1>3. ASSUME NEW c \in Callers, AppToken!Fetch(c) PROVE AppToken!IInv'
  <2>1. PICK q: q = [AppToken!NoCall EXCEPT !.stage = "sent", !.asked = clock]
    OBVIOUS
  <2>2. q \in Call /\ q.stage = "sent" /\ q.asked = clock
    BY <1>1, <2>1 DEF AppToken!NoCall
  <2>3. call' = [call EXCEPT ![c] = q] /\ UNCHANGED <<clock, cache>>
    BY <1>3, <2>1 DEF AppToken!Fetch
  <2>4. call' \in [Callers -> Call]
    BY <1>1, <2>2, <2>3
  <2>5. \A a \in Callers: AppToken!CallOK(call[a])'
    BY <1>1, <2>2, <2>3 DEF AppToken!CallOK
  <2> QED BY <1>1, <2>3, <2>4, <2>5 DEF AppToken!IInv
<1>4. ASSUME NEW c \in Callers, AppToken!Issue(c) PROVE AppToken!IInv'
  <2>1. PICK life \in Lives:
          call' = [call EXCEPT ![c].stage = "issued", ![c].life = life,
                               ![c].expires = clock + life]
    BY <1>4 DEF AppToken!Issue
  <2>2. PICK q: q = [call[c] EXCEPT !.stage = "issued", !.life = life, !.expires = clock + life]
    OBVIOUS
  <2>3. /\ q \in Call /\ q.stage = "issued" /\ q.asked = call[c].asked
        /\ q.life = life /\ q.expires = clock + life
    <3>1. call[c] \in Call /\ life \in Nat /\ clock + life \in Nat
      BY <1>1, PlatformAssumption
    <3>2. q = [stage |-> "issued", asked |-> call[c].asked, life |-> life,
               expires |-> clock + life]
      BY <2>2, <3>1
    <3> QED BY <3>1, <3>2
  <2>4. call' = [call EXCEPT ![c] = q]
    BY <1>1, <2>1, <2>2
  <2>5. call' \in [Callers -> Call] /\ UNCHANGED <<clock, cache>>
    BY <1>1, <1>4, <2>3, <2>4 DEF AppToken!Issue
  <2>6. call[c].asked <= clock /\ call[c].asked \in Nat
    BY <1>1 DEF AppToken!CallOK
  <2>7. q.asked + q.life <= q.expires
    BY <1>1, <2>3, <2>6, PlatformAssumption
  <2>8. \A a \in Callers: AppToken!CallOK(call[a])'
    BY <1>1, <2>3, <2>4, <2>5, <2>6, <2>7 DEF AppToken!CallOK
  <2> QED BY <1>1, <2>5, <2>8 DEF AppToken!IInv
<1>5. ASSUME NEW c \in Callers, AppToken!Keep(c) PROVE AppToken!IInv'
  <2>1. /\ call[c].asked \in Nat /\ call[c].life \in Nat
        /\ call[c].expires \in Nat
        /\ call[c].asked <= clock
        /\ call[c].asked + call[c].life <= call[c].expires
    BY <1>1, <1>5 DEF AppToken!CallOK, AppToken!Keep
  <2>2. /\ AppToken!KeptUntil(c) \in Nat
        /\ AppToken!KeptUntil(c) <= call[c].expires \/ AppToken!KeptUntil(c) <= clock + Margin
    BY <1>1, <2>1, PlatformAssumption DEF AppToken!KeptUntil, AppToken!Longer
  <2> QED BY <1>5, <2>1, <2>2, TokenEndKeeps DEF AppToken!Keep
<1>6. ASSUME NEW c \in Callers, AppToken!Refused(c) PROVE AppToken!IInv'
  <2>1. /\ cache' \in {cache, AppToken!Empty}
        /\ call' = [call EXCEPT ![c] = AppToken!NoCall] /\ UNCHANGED clock
    BY <1>6 DEF AppToken!Refused
  <2>2. cache' \in [full: BOOLEAN, until: Nat, expires: Nat]
    BY <1>1, <1>2, <2>1
  <2>3. AppToken!Empty.until <= clock + Margin
    BY <1>1, <1>2, PlatformAssumption
  <2>4. cache'.until <= cache'.expires \/ cache'.until <= clock + Margin
    BY <1>1, <2>1, <2>3
  <2> QED BY <2>1, <2>2, <2>4, TokenEndKeeps
<1>7. CASE AppToken!ClearAppTokenCache
  BY <1>1, <1>2, <1>7, PlatformAssumption DEF AppToken!ClearAppTokenCache,
     AppToken!IInv, AppToken!CallOK
<1>8. CASE AppToken!Tick
  <2>1. \A c \in Callers: call[c].asked \in Nat
    BY <1>1
  <2> QED
    BY <1>1, <1>8, <2>1, PlatformAssumption DEF AppToken!Tick, AppToken!IInv,
       AppToken!CallOK
<1>9. CASE UNCHANGED tokenVars
  BY <1>9 DEF tokenVars, AppToken!IInv, AppToken!CallOK
<1> QED BY <1>3, <1>4, <1>5, <1>6, <1>7, <1>8, <1>9 DEF AppToken!Next

LEMMA TokenLasts == AppToken!IInv => AppToken!CachedTokenLasts
BY PlatformAssumption DEF AppToken!IInv, AppToken!CachedTokenLasts,
   AppToken!Usable

(***************************************************************************)
(* The catalogue (Catalogue).  What a request found before it writes is still *)
(* so but for what was written since, and that it has been told of.        *)
(***************************************************************************)
LEMMA CatalogueIdleFacts ==
  /\ Shop!Idle \in Shop!Request /\ Shop!Idle.stage = "idle"
  /\ Shop!SubjectOK(Shop!Idle)
BY DEF Shop!Idle, Shop!Request, Shop!Stages, Shop!SubjectOK

\* The parts of the invariant, one by one.
LEMMA CatalogueFacts ==
  ASSUME Shop!IInv
  PROVE  /\ Shop!TypeOK
         /\ \A p \in Shop!StoredProducts: product[p].known
         /\ \A r \in Requests: Shop!SubjectOK(task[r]) /\ Shop!SinceOK(task[r])
         /\ \A d \in Shop!StoredDocuments: Shop!LineOK(document[d])
         /\ Shop!DocumentsReferToRows
         /\ Shop!SharedSkusWereCrossed
         /\ Shop!LostProductsWereCrossed
         /\ Shop!OneCategoryPerName
BY DEF Shop!IInv

LEMMA CatalogueInitially == Shop!Init => Shop!IInv
<1> SUFFICES ASSUME Shop!Init PROVE Shop!IInv
  OBVIOUS
<1>1. Shop!StoredProducts = {} /\ Shop!StoredDocuments = {}
  BY DEF Shop!Init, Shop!StoredProducts, Shop!StoredDocuments
<1>2. Shop!TypeOK
  <2>1. /\ product \in [Products -> Shop!ProductRow]
        /\ document \in [Documents -> Shop!DocumentRow]
    BY DEF Shop!Init, Shop!ProductRow, Shop!DocumentRow
  <2>2. task \in [Requests -> Shop!Request]
    BY CatalogueIdleFacts DEF Shop!Init
  <2> QED BY <2>1, <2>2 DEF Shop!Init, Shop!TypeOK
<1>3. \A r \in Requests: Shop!SubjectOK(task[r]) /\ Shop!SinceOK(task[r])
  BY CatalogueIdleFacts DEF Shop!Init, Shop!SinceOK
<1> QED
  BY <1>1, <1>2, <1>3 DEF Shop!Init, Shop!IInv, Shop!DocumentsReferToRows,
     Shop!SharedSkusWereCrossed,
     Shop!LostProductsWereCrossed, Shop!OneCategoryPerName

\* A request moves and writes nothing.
LEMMA CatalogueRequestKeeps ==
  ASSUME Shop!IInv, NEW r \in Requests, NEW q \in Shop!Request,
         task' = [task EXCEPT ![r] = q],
         Shop!SubjectOK(q), Shop!SinceOK(q),
         UNCHANGED <<product, customer, document, category, crossed>>
  PROVE  Shop!IInv'
<1>1. Shop!TypeOK'
  BY CatalogueFacts DEF Shop!TypeOK, Shop!ProductRow, Shop!DocumentRow
<1>2. /\ Shop!StoredProducts' = Shop!StoredProducts
      /\ Shop!StoredDocuments' = Shop!StoredDocuments
  BY DEF Shop!StoredProducts, Shop!StoredDocuments
<1>3. \A x: Shop!DocumentsWith(x)' = Shop!DocumentsWith(x)
  BY <1>2 DEF Shop!DocumentsWith
<1>4. ASSUME NEW a \in Requests
      PROVE  Shop!SubjectOK(task[a])' /\ Shop!SinceOK(task[a])'
  <2>1. task'[a] = q \/ task'[a] = task[a]
    BY CatalogueFacts DEF Shop!TypeOK
  <2>2. Shop!SubjectOK(task'[a]) /\ Shop!SinceOK(task'[a])
    BY <2>1, CatalogueFacts
  <2> QED BY <1>2, <1>3, <2>2 DEF Shop!SubjectOK, Shop!SinceOK
<1>5. \A d \in Shop!StoredDocuments': Shop!LineOK(document[d])'
  BY <1>2, CatalogueFacts DEF Shop!LineOK
<1>6. /\ Shop!DocumentsReferToRows' /\ Shop!SharedSkusWereCrossed'
      /\ Shop!LostProductsWereCrossed' /\ Shop!OneCategoryPerName'
  BY <1>2, CatalogueFacts DEF Shop!DocumentsReferToRows,
     Shop!SharedSkusWereCrossed, Shop!LostProductsWereCrossed,
     Shop!OneCategoryPerName
<1>7. \A p \in Shop!StoredProducts': product'[p].known
  BY <1>2, CatalogueFacts
<1> QED BY <1>1, <1>4, <1>5, <1>6, <1>7 DEF Shop!IInv

\* A request ends, and those that rely on a check take down what it wrote.
LEMMA CatalogueEndings ==
  ASSUME Shop!TypeOK, NEW r \in Requests, NEW written \in SUBSET Shop!Ids,
         Shop!Ended(r, written)
  PROVE  /\ task' \in [Requests -> Shop!Request]
         /\ task'[r] = Shop!Idle
         /\ \A q \in Requests \ {r}:
              /\ task'[q].stage = task[q].stage
              /\ task'[q].subject = task[q].subject
              /\ task'[q].other = task[q].other /\ task'[q].sku = task[q].sku
              /\ task[q].since \subseteq task'[q].since
              /\ task[q].stage \in Shop!Relying => written \subseteq task'[q].since
<1>1. \A q \in Requests: task[q] \in Shop!Request
  BY DEF Shop!TypeOK
<1>2. ASSUME NEW q \in Requests \ {r}
      PROVE  /\ task'[q] \in Shop!Request
             /\ task'[q].stage = task[q].stage
             /\ task'[q].subject = task[q].subject
             /\ task'[q].other = task[q].other /\ task'[q].sku = task[q].sku
             /\ task[q].since \subseteq task'[q].since
             /\ task[q].stage \in Shop!Relying => written \subseteq task'[q].since
  BY <1>1 DEF Shop!Ended, Shop!Request
<1>3. task'[r] = Shop!Idle /\ Shop!Idle \in Shop!Request
  BY CatalogueIdleFacts DEF Shop!Ended
<1>4. task' \in [Requests -> Shop!Request]
  BY <1>2, <1>3 DEF Shop!Ended
<1> QED BY <1>2, <1>3, <1>4

LEMMA CatalogueEndedSince ==
  ASSUME Shop!IInv, NEW r \in Requests, NEW written \in SUBSET Shop!Ids,
         Shop!Ended(r, written),
         \A p \in Shop!StoredProducts': \/ p \in written
                                        \/ p \in Shop!StoredProducts /\ product'[p].sku = product[p].sku,
         \A p \in Products: Shop!DocumentsWith(p)' \subseteq Shop!DocumentsWith(p) \cup written
  PROVE  /\ task' \in [Requests -> Shop!Request]
         /\ \A q \in Requests: Shop!SubjectOK(task[q])' /\ Shop!SinceOK(task[q])'
<1>1. /\ task' \in [Requests -> Shop!Request]
      /\ task'[r] = Shop!Idle
      /\ \A q \in Requests \ {r}:
           /\ task'[q].stage = task[q].stage
           /\ task'[q].subject = task[q].subject
           /\ task'[q].other = task[q].other /\ task'[q].sku = task[q].sku
           /\ task[q].since \subseteq task'[q].since
           /\ task[q].stage \in Shop!Relying => written \subseteq task'[q].since
  BY CatalogueEndings, CatalogueFacts
<1>2. Shop!SubjectOK(task[r])' /\ Shop!SinceOK(task[r])'
  BY <1>1, CatalogueIdleFacts DEF Shop!SubjectOK, Shop!SinceOK
<1>3. ASSUME NEW q \in Requests \ {r} PROVE Shop!SubjectOK(task[q])'
  <2>1. Shop!SubjectOK(task[q])
    BY CatalogueFacts
  <2> QED BY <1>1, <1>3, <2>1 DEF Shop!SubjectOK
<1>4. ASSUME NEW q \in Requests \ {r} PROVE Shop!SinceOK(task[q])'
  <2>1. Shop!SubjectOK(task[q]) /\ Shop!SinceOK(task[q])
    BY CatalogueFacts
  <2>2. ASSUME task[q].stage \in {"insertProduct", "rewriteProduct"},
               task[q].sku # Nothing,
               NEW p \in Shop!StoredProducts' \ {task[q].subject},
               product'[p].sku = task[q].sku
        PROVE  p \in task'[q].since
    <3>1. /\ written \subseteq task'[q].since
          /\ task[q].since \subseteq task'[q].since
      BY <1>1, <1>4, <2>2 DEF Shop!Relying
    <3> QED BY <2>1, <2>2, <3>1 DEF Shop!SinceOK
  <2>3. ASSUME task[q].stage = "removeProduct"
        PROVE  Shop!DocumentsWith(task[q].subject)' \subseteq task'[q].since
    <3>1. /\ written \subseteq task'[q].since
          /\ task[q].since \subseteq task'[q].since
      BY <1>1, <1>4, <2>3 DEF Shop!Relying
    <3>2. task[q].subject \in Products /\ task'[q].subject = task[q].subject
      BY <1>1, <1>4, <2>1, <2>3 DEF Shop!SubjectOK
    <3>3. Shop!DocumentsWith(task[q].subject) \subseteq task[q].since
      BY <2>1, <2>3 DEF Shop!SinceOK
    <3>4. \A p \in Products: p = task[q].subject => Shop!DocumentsWith(p)' \subseteq task'[q].since
      BY <3>1, <3>3
    <3> QED BY <3>2, <3>4 DEF Shop!DocumentsWith
  <2> QED BY <1>1, <1>4, <2>2, <2>3 DEF Shop!SinceOK, Shop!DocumentsWith
<1> QED BY <1>1, <1>2, <1>3, <1>4

\* Requests apart, the parts of the invariant that a step changes nothing of.
LEMMA CatalogueRowsKeep ==
  ASSUME Shop!IInv, UNCHANGED <<product, customer, document, crossed>>
  PROVE  /\ \A p \in Shop!StoredProducts': product'[p].known
         /\ \A d \in Shop!StoredDocuments': Shop!LineOK(document[d])'
         /\ Shop!DocumentsReferToRows' /\ Shop!SharedSkusWereCrossed'
         /\ Shop!LostProductsWereCrossed'
         /\ Shop!StoredProducts' = Shop!StoredProducts
         /\ \A p: Shop!DocumentsWith(p)' = Shop!DocumentsWith(p)
<1>1. /\ Shop!StoredProducts' = Shop!StoredProducts
      /\ Shop!StoredDocuments' = Shop!StoredDocuments
  BY DEF Shop!StoredProducts, Shop!StoredDocuments
<1>2. \A d \in Shop!StoredDocuments': Shop!LineOK(document[d])'
  BY <1>1, CatalogueFacts DEF Shop!LineOK
<1>3. /\ Shop!DocumentsReferToRows' /\ Shop!SharedSkusWereCrossed'
      /\ Shop!LostProductsWereCrossed'
  BY <1>1, CatalogueFacts DEF Shop!DocumentsReferToRows,
     Shop!SharedSkusWereCrossed, Shop!LostProductsWereCrossed
<1> QED BY <1>1, <1>2, <1>3, CatalogueFacts DEF Shop!DocumentsWith

LEMMA CatalogueFailKeeps ==
  ASSUME Shop!IInv, NEW r \in Requests, Shop!Fails(r) PROVE Shop!IInv'
<1>1. /\ Shop!Ended(r, {})
      /\ UNCHANGED <<product, customer, document, category, crossed>>
  BY DEF Shop!Fails
<1>2. /\ task' \in [Requests -> Shop!Request]
      /\ \A q \in Requests: Shop!SubjectOK(task[q])' /\ Shop!SinceOK(task[q])'
  BY <1>1, CatalogueRowsKeep, CatalogueEndedSince
<1>3. Shop!TypeOK' /\ Shop!OneCategoryPerName'
  BY <1>1, <1>2, CatalogueFacts DEF Shop!TypeOK, Shop!OneCategoryPerName
<1> QED BY <1>1, <1>2, <1>3, CatalogueRowsKeep DEF Shop!IInv

\* A request that looks.
LEMMA CatalogueLookKeeps ==
  ASSUME Shop!IInv, NEW r \in Requests, NEW stage \in Shop!Stages,
         NEW subject \in Shop!Ids \cup {Nothing},
         NEW other \in Shop!Ids \cup {Nothing}, NEW sku \in Skus \cup {Nothing},
         Shop!Look(r, stage, subject, other, sku),
         stage = "insertProduct" => subject = Nothing,
         stage \in {"rewriteProduct", "countProduct"} => subject \in Products,
         stage \in {"writeInvoice", "countCustomer"} => subject \in Customers,
         stage = "writeInvoice" => other \in Products \cup {Nothing},
         stage \in {"createCategory", "createExpense"} => subject \in Names,
         stage \in {"insertProduct", "rewriteProduct"} /\ sku # Nothing => ~Shop!Taken(sku, subject),
         stage \notin {"removeProduct", "removeCustomer"}
  PROVE  Shop!IInv'
<1>1. PICK q: q = [stage |-> stage, subject |-> subject, other |-> other, sku |-> sku,
                   since |-> {}]
  OBVIOUS
<1>2. q \in Shop!Request
  BY <1>1 DEF Shop!Request
<1>3. /\ task' = [task EXCEPT ![r] = q]
      /\ UNCHANGED <<product, customer, document, category, crossed>>
  BY <1>1 DEF Shop!Look
<1>4. Shop!SubjectOK(q)
  BY <1>1 DEF Shop!SubjectOK
<1>5. Shop!SinceOK(q)
  BY <1>1 DEF Shop!SinceOK, Shop!Taken
<1> QED BY <1>2, <1>3, <1>4, <1>5, CatalogueRequestKeeps

LEMMA CatalogueLooksKeep ==
  ASSUME Shop!IInv, NEW r \in Requests,
         \/ \E k \in Skus \cup {Nothing}: Shop!CreateProductChecks(r, k)
         \/ \E p \in Products, k \in Skus \cup {Nothing}: Shop!UpdateProductChecks(r, p, k)
         \/ \E p \in Products: Shop!DeleteProductReads(r, p)
         \/ \E c \in Customers, p \in Products \cup {Nothing}: Shop!CreateInvoiceReads(r, c, p)
         \/ \E c \in Customers: Shop!DeleteCustomerReads(r, c)
         \/ \E n \in Names: Shop!FindCategory(r, n)
  PROVE  Shop!IInv'
<1> USE DEF Shop!Stages, Shop!Ids
<1>1. ASSUME NEW k \in Skus \cup {Nothing}, Shop!CreateProductChecks(r, k)
      PROVE  Shop!IInv'
  BY <1>1, CatalogueLookKeeps DEF Shop!CreateProductChecks
<1>2. ASSUME NEW p \in Products, NEW k \in Skus \cup {Nothing},
             Shop!UpdateProductChecks(r, p, k)
      PROVE  Shop!IInv'
  BY <1>2, CatalogueLookKeeps DEF Shop!UpdateProductChecks
<1>3. ASSUME NEW p \in Products, Shop!DeleteProductReads(r, p) PROVE Shop!IInv'
  BY <1>3, CatalogueLookKeeps DEF Shop!DeleteProductReads
<1>4. ASSUME NEW c \in Customers, NEW p \in Products \cup {Nothing},
             Shop!CreateInvoiceReads(r, c, p)
      PROVE  Shop!IInv'
  BY <1>4, CatalogueLookKeeps DEF Shop!CreateInvoiceReads
<1>5. ASSUME NEW c \in Customers, Shop!DeleteCustomerReads(r, c)
      PROVE  Shop!IInv'
  BY <1>5, CatalogueLookKeeps DEF Shop!DeleteCustomerReads
<1>6. ASSUME NEW n \in Names, Shop!FindCategory(r, n) PROVE Shop!IInv'
  <2>1. CASE category[n] = 0
    BY <1>6, <2>1, CatalogueLookKeeps DEF Shop!FindCategory
  <2>2. CASE category[n] # 0
    BY <1>6, <2>2, CatalogueLookKeeps DEF Shop!FindCategory
  <2> QED BY <2>1, <2>2
<1> QED BY <1>1, <1>2, <1>3, <1>4, <1>5, <1>6

LEMMA CatalogueCountKeeps ==
  ASSUME Shop!IInv, NEW r \in Requests,
         Shop!CountProductDocuments(r) \/ Shop!CountCustomerDocuments(r)
  PROVE  Shop!IInv'
<1>1. /\ task[r] \in Shop!Request /\ Shop!SubjectOK(task[r])
      /\ task \in [Requests -> Shop!Request]
  BY CatalogueFacts DEF Shop!TypeOK
<1>2. UNCHANGED <<product, customer, document, category, crossed>>
  BY DEF Shop!CountProductDocuments, Shop!CountCustomerDocuments
<1>3. CASE Shop!Ended(r, {})
  BY <1>2, <1>3, CatalogueFailKeeps DEF Shop!Fails
<1>4. CASE /\ Shop!CountProductDocuments(r) /\ Shop!UsesOf(task[r].subject) = {}
           /\ task' = [task EXCEPT ![r].stage = "removeProduct", ![r].since = {}]
  <2>1. PICK q: q = [task[r] EXCEPT !.stage = "removeProduct", !.since = {}]
    OBVIOUS
  <2>2. /\ q \in Shop!Request /\ q.stage = "removeProduct"
        /\ q.subject = task[r].subject
        /\ q.since = {}
    BY <1>1, <2>1 DEF Shop!Request, Shop!Stages
  <2>3. task' = [task EXCEPT ![r] = q]
    BY <1>1, <1>4, <2>1
  <2>4. Shop!SubjectOK(q)
    BY <1>1, <1>4, <2>2 DEF Shop!SubjectOK, Shop!CountProductDocuments
  <2>5. Shop!SinceOK(q)
    BY <1>4, <2>2 DEF Shop!SinceOK, Shop!UsesOf
  <2> QED BY <1>2, <2>2, <2>3, <2>4, <2>5, CatalogueRequestKeeps
<1>5. CASE /\ Shop!CountCustomerDocuments(r)
           /\ task' = [task EXCEPT ![r].stage = "removeCustomer"]
  <2>1. PICK q: q = [task[r] EXCEPT !.stage = "removeCustomer"]
    OBVIOUS
  <2>2. /\ q \in Shop!Request /\ q.stage = "removeCustomer"
        /\ q.subject = task[r].subject
    BY <1>1, <2>1 DEF Shop!Request, Shop!Stages
  <2>3. task' = [task EXCEPT ![r] = q]
    BY <1>5, <2>1
  <2>4. Shop!SubjectOK(q) /\ Shop!SinceOK(q)
    BY <1>1, <1>5, <2>2 DEF Shop!SubjectOK, Shop!SinceOK,
       Shop!CountCustomerDocuments
  <2> QED BY <1>2, <2>2, <2>3, <2>4, CatalogueRequestKeeps
<1> QED
  BY <1>3, <1>4, <1>5 DEF Shop!CountProductDocuments,
     Shop!CountCustomerDocuments

LEMMA CatalogueCategoryKeeps ==
  ASSUME Shop!IInv, NEW r \in Requests, Shop!CreateCategory(r) PROVE Shop!IInv'
<1>1. /\ task[r] \in Shop!Request /\ Shop!SubjectOK(task[r])
      /\ Shop!SinceOK(task[r])
      /\ task \in [Requests -> Shop!Request]
      /\ task[r].stage = "createCategory" /\ category \in [Names -> Nat]
  BY CatalogueFacts DEF Shop!TypeOK, Shop!CreateCategory
<1>2. CASE Shop!Fails(r)
  BY <1>2, CatalogueFailKeeps
<1>3. CASE /\ Shop!FreeName(task[r].subject)
           /\ category' = [category EXCEPT ![task[r].subject] = @ + 1]
           /\ task' = [task EXCEPT ![r].stage = "createExpense"]
           /\ UNCHANGED <<product, customer, document, crossed>>
  <2>1. PICK q: q = [task[r] EXCEPT !.stage = "createExpense"]
    OBVIOUS
  <2>2. /\ q \in Shop!Request /\ q.stage = "createExpense"
        /\ q.subject = task[r].subject
    BY <1>1, <2>1 DEF Shop!Request, Shop!Stages
  <2>3. task' = [task EXCEPT ![r] = q]
    BY <1>3, <2>1
  <2>4. Shop!SubjectOK(q) /\ Shop!SinceOK(q)
    BY <1>1, <2>2 DEF Shop!SubjectOK, Shop!SinceOK
  <2>5. task[r].subject \in Names
    BY <1>1 DEF Shop!SubjectOK
  <2>6. category' \in [Names -> Nat] /\ Shop!OneCategoryPerName'
    BY <1>1, <1>3, <2>5, CatalogueFacts DEF Shop!OneCategoryPerName,
       Shop!FreeName
  <2>7. Shop!TypeOK'
    BY <1>1, <1>3, <2>2, <2>3, <2>6, CatalogueFacts DEF Shop!TypeOK
  <2>8. ASSUME NEW a \in Requests
        PROVE  Shop!SubjectOK(task[a])' /\ Shop!SinceOK(task[a])'
    <3>1. task'[a] = q \/ task'[a] = task[a]
      BY <1>1, <2>3
    <3>2. Shop!SubjectOK(task'[a]) /\ Shop!SinceOK(task'[a])
      BY <2>4, <3>1, CatalogueFacts
    <3> QED BY <1>3, <3>2, CatalogueRowsKeep DEF Shop!SubjectOK, Shop!SinceOK
  <2> QED BY <1>3, <2>6, <2>7, <2>8, CatalogueRowsKeep DEF Shop!IInv
<1> QED BY <1>2, <1>3 DEF Shop!CreateCategory

\* Types of rows, for the steps that write them.
LEMMA CatalogueRowTypes ==
  ASSUME Shop!IInv
  PROVE  /\ product \in [Products -> Shop!ProductRow]
         /\ document \in [Documents -> Shop!DocumentRow]
         /\ customer \subseteq Customers /\ category \in [Names -> Nat]
         /\ crossed \subseteq SUBSET Shop!Ids
         /\ task \in [Requests -> Shop!Request]
         /\ Shop!StoredProducts \subseteq Products
         /\ Shop!StoredDocuments \subseteq Documents
BY CatalogueFacts DEF Shop!TypeOK, Shop!StoredProducts, Shop!StoredDocuments

\* The line of an invoice that lost its product says which.
LEMMA CatalogueLostLines ==
  ASSUME Shop!IInv, NEW d \in Shop!StoredDocuments,
         document[d].product # document[d].drawn
  PROVE  /\ document[d].drawn \in Products /\ document[d].product = Nothing
         /\ product[document[d].drawn].known
         /\ ~product[document[d].drawn].stored
         /\ {document[d].drawn, d} \in crossed
<1>1. /\ Shop!LineOK(document[d]) /\ document[d] \in Shop!DocumentRow
      /\ Shop!LostProductsWereCrossed
  BY CatalogueFacts, CatalogueRowTypes
<1> QED BY <1>1 DEF Shop!LineOK, Shop!DocumentRow, Shop!LostProductsWereCrossed

\* A product is written, anew or again.
LEMMA CatalogueWriteKeeps ==
  ASSUME Shop!IInv, NEW r \in Requests, NEW p \in Products,
         product[p].stored \/ ~product[p].known,
         product' \in [Products -> Shop!ProductRow],
         product'[p].known /\ product'[p].stored,
         \A a \in Products \ {p}: product'[a] = product[a],
         product'[p].sku # Nothing =>
           \A a \in Shop!StoredProducts \ {p}:
             product[a].sku = product'[p].sku => a \in task[r].since,
         crossed' \subseteq SUBSET Shop!Ids,
         Shop!CrossedBut({p}) \subseteq crossed',
         \A a \in task[r].since \cap Shop!StoredProducts: {p, a} \in crossed',
         Shop!Ended(r, {p}), UNCHANGED <<customer, document, category>>
  PROVE  Shop!IInv'
<1>1. /\ Shop!StoredProducts' = Shop!StoredProducts \cup {p}
      /\ Shop!StoredDocuments' = Shop!StoredDocuments
  BY DEF Shop!StoredProducts, Shop!StoredDocuments
<1>2. \A a: Shop!DocumentsWith(a)' = Shop!DocumentsWith(a)
  BY <1>1 DEF Shop!DocumentsWith
<1>3. {p} \in SUBSET Shop!Ids
  BY DEF Shop!Ids
<1>4. \A a \in Shop!StoredProducts':
        a \in {p} \/ (a \in Shop!StoredProducts /\ product'[a].sku = product[a].sku)
  <2>1. ASSUME NEW a \in Shop!StoredProducts', a # p
        PROVE  a \in Shop!StoredProducts /\ product'[a] = product[a]
    BY <1>1, <2>1, CatalogueRowTypes
  <2> QED BY <2>1
<1>5. /\ task' \in [Requests -> Shop!Request]
      /\ \A q \in Requests: Shop!SubjectOK(task[q])' /\ Shop!SinceOK(task[q])'
  <2>1. \A a \in Products: Shop!DocumentsWith(a)' \subseteq Shop!DocumentsWith(a) \cup {p}
    BY <1>2
  <2>2. PICK written \in SUBSET Shop!Ids: written = {p}
    BY <1>3
  <2> QED BY <1>4, <2>1, <2>2, CatalogueEndedSince
<1>6. Shop!TypeOK' /\ Shop!OneCategoryPerName'
  BY <1>5, CatalogueFacts, CatalogueRowTypes DEF Shop!TypeOK,
     Shop!OneCategoryPerName
<1>7. \A a \in Shop!StoredProducts': product'[a].known
  BY <1>1, CatalogueFacts, CatalogueRowTypes
<1>8. ASSUME NEW d \in Shop!StoredDocuments,
             document[d].product # document[d].drawn
      PROVE  /\ document[d].drawn # p /\ {document[d].drawn, d} \in crossed'
             /\ document[d].drawn \in Products /\ document[d].product = Nothing
  <2>1. document[d].drawn # p /\ document[d].drawn \in Products
    BY <1>8, CatalogueLostLines
  <2>2. {document[d].drawn, d} \cap {p} = {}
    BY <2>1, CatalogueRowTypes, PlatformAssumption
  <2> QED BY <1>8, <2>1, <2>2, CatalogueLostLines DEF Shop!CrossedBut
<1>9. \A d \in Shop!StoredDocuments': Shop!LineOK(document[d])'
  BY <1>1, <1>8, CatalogueLostLines DEF Shop!LineOK
<1>10. Shop!LostProductsWereCrossed'
  BY <1>1, <1>8 DEF Shop!LostProductsWereCrossed
<1>11. Shop!DocumentsReferToRows'
  BY <1>1, CatalogueFacts DEF Shop!DocumentsReferToRows
<1>12. ASSUME NEW a \in Shop!StoredProducts', NEW b \in Shop!StoredProducts',
              a # b,
              product'[a].sku = product'[b].sku, product'[a].sku # Nothing
       PROVE  {a, b} \in crossed'
  <2>1. CASE a = p
    BY <1>1, <1>12, <2>1, CatalogueRowTypes
  <2>2. CASE b = p
    <3>1. a \in task[r].since \cap Shop!StoredProducts
      BY <1>1, <1>12, <2>2, CatalogueRowTypes
    <3>2. {a, b} = {p, a}
      BY <2>2
    <3> QED BY <3>1, <3>2
  <2>3. CASE a # p /\ b # p
    <3>1. {a, b} \in crossed
      BY <1>1, <1>12, <2>3, CatalogueFacts, CatalogueRowTypes
         DEF Shop!SharedSkusWereCrossed
    <3> QED BY <2>3, <3>1 DEF Shop!CrossedBut
  <2> QED BY <2>1, <2>2, <2>3
<1>13. Shop!SharedSkusWereCrossed'
  BY <1>12 DEF Shop!SharedSkusWereCrossed
<1> QED BY <1>5, <1>6, <1>7, <1>9, <1>10, <1>11, <1>13 DEF Shop!IInv

LEMMA CatalogueCreateProductKeeps ==
  ASSUME Shop!IInv, NEW r \in Requests, Shop!CreateProduct(r) PROVE Shop!IInv'
<1>1. PICK p \in Products:
        /\ ~product[p].known
        /\ product' = [product EXCEPT ![p] =
             [known |-> TRUE, stored |-> TRUE, sku |-> task[r].sku]]
        /\ crossed' = crossed \cup {{p, q}: q \in task[r].since \cap Products}
        /\ Shop!Ended(r, {p})
  BY DEF Shop!CreateProduct
<1>2. /\ task[r] \in Shop!Request /\ Shop!SubjectOK(task[r])
      /\ Shop!SinceOK(task[r])
      /\ task[r].stage = "insertProduct"
      /\ UNCHANGED <<customer, document, category>>
  BY CatalogueFacts, CatalogueRowTypes DEF Shop!CreateProduct
<1>3. PICK x: x = [known |-> TRUE, stored |-> TRUE, sku |-> task[r].sku]
  OBVIOUS
<1>4. /\ x \in Shop!ProductRow /\ x.known /\ x.stored /\ x.sku = task[r].sku
      /\ task[r].sku \in Skus \cup {Nothing}
      /\ task[r].since \in SUBSET Shop!Ids
  BY <1>2, <1>3 DEF Shop!ProductRow, Shop!Request
<1>5. product' = [product EXCEPT ![p] = x]
  BY <1>1, <1>3
<1>6. /\ product' \in [Products -> Shop!ProductRow] /\ product'[p] = x
      /\ \A a \in Products \ {p}: product'[a] = product[a]
  BY <1>4, <1>5, CatalogueRowTypes
<1>7. crossed' \subseteq SUBSET Shop!Ids
  BY <1>1, CatalogueRowTypes DEF Shop!Ids
<1>8. /\ Shop!CrossedBut({p}) \subseteq crossed'
      /\ \A a \in task[r].since \cap Shop!StoredProducts: {p, a} \in crossed'
  BY <1>1, CatalogueRowTypes DEF Shop!CrossedBut
<1>9. task[r].sku # Nothing =>
        \A a \in Shop!StoredProducts \ {p}: product[a].sku = task[r].sku => a \in task[r].since
  <2>1. task[r].subject = Nothing
    BY <1>2 DEF Shop!SubjectOK
  <2>2. \A a \in Shop!StoredProducts: a # task[r].subject
    BY <2>1, CatalogueRowTypes, PlatformAssumption
  <2> QED BY <1>2, <2>2 DEF Shop!SinceOK
<1>10. ~product[p].known
  BY <1>1
<1>11. product'[p].known /\ product'[p].stored /\ product'[p].sku = task[r].sku
  BY <1>4, <1>6
<1>12. Shop!Ended(r, {p}) /\ UNCHANGED <<customer, document, category>>
  BY <1>1, <1>2
<1>13. product'[p].sku # Nothing =>
        \A a \in Shop!StoredProducts \ {p}:
          product[a].sku = product'[p].sku => a \in task[r].since
  BY <1>9, <1>11
<1> QED BY <1>6, <1>7, <1>8, <1>10, <1>11, <1>12, <1>13, CatalogueWriteKeeps

LEMMA CatalogueUpdateProductKeeps ==
  ASSUME Shop!IInv, NEW r \in Requests, Shop!UpdateProduct(r) PROVE Shop!IInv'
<1>1. PICK p: p = task[r].subject
  OBVIOUS
<1>2. /\ task[r] \in Shop!Request /\ Shop!SubjectOK(task[r])
      /\ Shop!SinceOK(task[r])
      /\ task[r].stage = "rewriteProduct"
  BY CatalogueFacts, CatalogueRowTypes DEF Shop!UpdateProduct
<1>3. p \in Products
  BY <1>1, <1>2 DEF Shop!SubjectOK
<1>4. CASE Shop!Fails(r)
  BY <1>4, CatalogueFailKeeps
<1>5. CASE /\ product[p].stored
           /\ product' = [product EXCEPT ![p].sku = task[r].sku]
           /\ crossed' = Shop!CrossedBut({p}) \cup
                           {{p, q}: q \in task[r].since \cap Shop!StoredProducts}
           /\ Shop!Ended(r, {p})
           /\ UNCHANGED <<customer, document, category>>
  <2>1. PICK x: x = [product[p] EXCEPT !.sku = task[r].sku]
    OBVIOUS
  <2>2. product[p] \in Shop!ProductRow /\ product[p].known /\ product[p].stored
    BY <1>3, <1>5, CatalogueFacts, CatalogueRowTypes DEF Shop!StoredProducts
  <2>3. /\ x \in Shop!ProductRow /\ x.known /\ x.stored /\ x.sku = task[r].sku
        /\ task[r].sku \in Skus \cup {Nothing}
        /\ task[r].since \in SUBSET Shop!Ids
    BY <1>2, <2>1, <2>2 DEF Shop!ProductRow, Shop!Request
  <2>4. product' = [product EXCEPT ![p] = x]
    BY <1>5, <2>1
  <2>5. /\ product' \in [Products -> Shop!ProductRow] /\ product'[p] = x
        /\ \A a \in Products \ {p}: product'[a] = product[a]
    BY <1>3, <2>3, <2>4, CatalogueRowTypes
  <2>6. crossed' \subseteq SUBSET Shop!Ids
    BY <1>3, <1>5, CatalogueRowTypes DEF Shop!Ids, Shop!CrossedBut
  <2>7. task[r].sku # Nothing =>
          \A a \in Shop!StoredProducts \ {p}: product[a].sku = task[r].sku => a \in task[r].since
    BY <1>1, <1>2 DEF Shop!SinceOK
  <2>8. product'[p].known /\ product'[p].stored /\ product'[p].sku = task[r].sku
    BY <2>3, <2>5
  <2>9. /\ Shop!CrossedBut({p}) \subseteq crossed'
        /\ \A a \in task[r].since \cap Shop!StoredProducts: {p, a} \in crossed'
    BY <1>5
  <2>10. /\ Shop!Ended(r, {p}) /\ UNCHANGED <<customer, document, category>>
         /\ product[p].stored
    BY <1>5
  <2>11. product'[p].sku # Nothing =>
           \A a \in Shop!StoredProducts \ {p}:
             product[a].sku = product'[p].sku => a \in task[r].since
    BY <2>7, <2>8
  <2> QED BY <1>3, <2>5, <2>6, <2>8, <2>9, <2>10, <2>11, CatalogueWriteKeeps
<1> QED BY <1>1, <1>4, <1>5 DEF Shop!UpdateProduct

LEMMA CatalogueDeleteProductKeeps ==
  ASSUME Shop!IInv, NEW r \in Requests, Shop!DeleteProduct(r) PROVE Shop!IInv'
<1>1. PICK p: p = task[r].subject
  OBVIOUS
<1>2. /\ task[r] \in Shop!Request /\ Shop!SubjectOK(task[r])
      /\ Shop!SinceOK(task[r])
      /\ task[r].stage = "removeProduct"
  BY CatalogueFacts, CatalogueRowTypes DEF Shop!DeleteProduct
<1>3. p \in Products /\ Shop!DocumentsWith(p) \subseteq task[r].since
  BY <1>1, <1>2 DEF Shop!SubjectOK, Shop!SinceOK
<1>4. CASE Shop!Fails(r)
  BY <1>4, CatalogueFailKeeps
<1>5. CASE /\ product[p].stored
           /\ product' = [product EXCEPT ![p].stored = FALSE]
           /\ document' = Shop!Unlinked(p)
           /\ crossed' = Shop!CrossedBut({p}) \cup
                           {{p, d}: d \in task[r].since \cap Shop!StoredDocuments}
           /\ Shop!Ended(r, {})
           /\ UNCHANGED <<customer, category>>
  <2>1. product[p] \in Shop!ProductRow /\ product[p].known
    BY <1>3, <1>5, CatalogueFacts, CatalogueRowTypes DEF Shop!StoredProducts
  <2>2. /\ product' \in [Products -> Shop!ProductRow]
        /\ product'[p].known /\ ~product'[p].stored
        /\ \A a \in Products \ {p}: product'[a] = product[a]
    BY <1>3, <1>5, <2>1, CatalogueRowTypes DEF Shop!ProductRow
  <2>3. ASSUME NEW d \in Documents
        PROVE  /\ document'[d] \in Shop!DocumentRow
               /\ document'[d].stored = document[d].stored
               /\ document'[d].customer = document[d].customer
               /\ document'[d].drawn = document[d].drawn
               /\ document'[d].product = IF document[d].product = p THEN Nothing
                                                                    ELSE document[d].product
    <3>1. document[d] \in Shop!DocumentRow
      BY CatalogueRowTypes
    <3> QED BY <1>5, <3>1 DEF Shop!Unlinked, Shop!DocumentRow
  <2>4. document' \in [Documents -> Shop!DocumentRow]
    BY <1>5, <2>3 DEF Shop!Unlinked
  <2>5. /\ Shop!StoredProducts' = Shop!StoredProducts \ {p}
        /\ Shop!StoredDocuments' = Shop!StoredDocuments
    BY <2>2, <2>3 DEF Shop!StoredProducts, Shop!StoredDocuments
  <2>6. \A a \in Products: Shop!DocumentsWith(a)' \subseteq Shop!DocumentsWith(a)
    BY <2>3, <2>5, CatalogueRowTypes, PlatformAssumption DEF Shop!DocumentsWith
  <2>7. \A a \in Shop!StoredProducts': a \in Shop!StoredProducts /\ product'[a].sku = product[a].sku
    BY <2>2, <2>5, CatalogueRowTypes
  <2>8. /\ task' \in [Requests -> Shop!Request]
        /\ \A q \in Requests: Shop!SubjectOK(task[q])' /\ Shop!SinceOK(task[q])'
    BY <1>5, <2>6, <2>7, CatalogueEndedSince
  <2>9. crossed' \subseteq SUBSET Shop!Ids
    BY <1>3, <1>5, CatalogueRowTypes DEF Shop!Ids, Shop!CrossedBut
  <2>10. Shop!TypeOK' /\ Shop!OneCategoryPerName'
    BY <1>5, <2>2, <2>4, <2>8, <2>9, CatalogueFacts, CatalogueRowTypes
       DEF Shop!TypeOK, Shop!OneCategoryPerName
  <2>11. \A a \in Shop!StoredProducts': product'[a].known
    BY <2>2, <2>5, CatalogueFacts, CatalogueRowTypes
  <2>12. ASSUME NEW d \in Shop!StoredDocuments,
                document'[d].product # document'[d].drawn
         PROVE  /\ document'[d].product = Nothing
                /\ product'[document'[d].drawn].known
                /\ ~product'[document'[d].drawn].stored
                /\ {document'[d].drawn, d} \in crossed'
    <3>1. d \in Documents
      BY CatalogueRowTypes
    <3>2. CASE document[d].product # document[d].drawn
      <4>1. document[d].drawn # p /\ document[d].drawn \in Products
        BY <1>5, <3>2, CatalogueLostLines
      <4>2. {document[d].drawn, d} \cap {p} = {}
        BY <1>3, <3>1, <4>1, PlatformAssumption
      <4>3. {document[d].drawn, d} \in crossed'
        BY <1>5, <3>2, <4>2, CatalogueLostLines DEF Shop!CrossedBut
      <4>4. document[d].product = Nothing /\ document'[d].product = Nothing
        BY <2>3, <3>1, <3>2, CatalogueLostLines
      <4>5. document'[d].drawn = document[d].drawn
        BY <2>3, <3>1
      <4>6. product'[document[d].drawn] = product[document[d].drawn]
        BY <2>2, <4>1
      <4>7. /\ product[document[d].drawn].known
            /\ ~product[document[d].drawn].stored
        BY <3>2, CatalogueLostLines
      <4> QED BY <4>3, <4>4, <4>5, <4>6, <4>7
    <3>3. CASE document[d].product = document[d].drawn
      <4>1. /\ document[d].product = p /\ document'[d].drawn = p
            /\ document'[d].product = Nothing
        BY <2>3, <2>12, <3>1, <3>3
      <4>2. d \in task[r].since
        BY <1>3, <4>1 DEF Shop!DocumentsWith
      <4> QED BY <1>5, <2>2, <4>1, <4>2
    <3> QED BY <3>2, <3>3
  <2>13. \A d \in Shop!StoredDocuments': Shop!LineOK(document[d])'
    BY <2>5, <2>12 DEF Shop!LineOK
  <2>14. Shop!LostProductsWereCrossed'
    BY <2>5, <2>12 DEF Shop!LostProductsWereCrossed
  <2>15. Shop!DocumentsReferToRows'
    BY <1>5, <2>3, <2>5, CatalogueFacts, CatalogueRowTypes
       DEF Shop!DocumentsReferToRows
  <2>16. ASSUME NEW a \in Shop!StoredProducts', NEW b \in Shop!StoredProducts',
                a # b,
                product'[a].sku = product'[b].sku, product'[a].sku # Nothing
         PROVE  {a, b} \in crossed'
    <3>1. {a, b} \in crossed
      BY <2>2, <2>5, <2>16, CatalogueFacts, CatalogueRowTypes
         DEF Shop!SharedSkusWereCrossed
    <3>2. {a, b} \cap {p} = {}
      BY <2>5, <2>16
    <3> QED BY <1>5, <3>1, <3>2 DEF Shop!CrossedBut
  <2>17. Shop!SharedSkusWereCrossed'
    BY <2>16 DEF Shop!SharedSkusWereCrossed
  <2> QED BY <2>8, <2>10, <2>11, <2>13, <2>14, <2>15, <2>17 DEF Shop!IInv
<1> QED BY <1>1, <1>4, <1>5 DEF Shop!DeleteProduct

LEMMA CatalogueCreateInvoiceKeeps ==
  ASSUME Shop!IInv, NEW r \in Requests, Shop!CreateInvoice(r) PROVE Shop!IInv'
<1>1. PICK c, p: c = task[r].subject /\ p = task[r].other
  OBVIOUS
<1>2. CASE Shop!Fails(r)
  BY <1>2, CatalogueFailKeeps
<1>3. CASE /\ c \in customer /\ p \in Shop!StoredProducts \cup {Nothing}
           /\ \E d \in Documents:
                /\ document[d].customer = Nothing
                /\ document' = [document EXCEPT ![d] =
                     [stored |-> TRUE, customer |-> c, product |-> p, drawn |-> p]]
                /\ Shop!Ended(r, {d})
                /\ UNCHANGED <<product, customer, category, crossed>>
  <2>1. PICK d \in Documents:
          /\ document' = [document EXCEPT ![d] =
               [stored |-> TRUE, customer |-> c, product |-> p, drawn |-> p]]
          /\ Shop!Ended(r, {d})
          /\ UNCHANGED <<product, customer, category, crossed>>
    BY <1>3
  <2>2. [stored |-> TRUE, customer |-> c, product |-> p, drawn |-> p] \in Shop!DocumentRow
    BY <1>3, CatalogueRowTypes DEF Shop!DocumentRow
  <2>3. /\ document' \in [Documents -> Shop!DocumentRow]
        /\ document'[d].stored /\ document'[d].customer = c
        /\ document'[d].product = p /\ document'[d].drawn = p
        /\ \A x \in Documents \ {d}: document'[x] = document[x]
    BY <2>1, <2>2, CatalogueRowTypes
  <2>4. /\ Shop!StoredProducts' = Shop!StoredProducts
        /\ Shop!StoredDocuments' = Shop!StoredDocuments \cup {d}
    BY <2>1, <2>3 DEF Shop!StoredProducts, Shop!StoredDocuments
  <2>5. \A a \in Products: Shop!DocumentsWith(a)' \subseteq Shop!DocumentsWith(a) \cup {d}
    BY <2>3, <2>4, CatalogueRowTypes DEF Shop!DocumentsWith
  <2>6. {d} \in SUBSET Shop!Ids
    BY DEF Shop!Ids
  <2>7. /\ task' \in [Requests -> Shop!Request]
        /\ \A q \in Requests: Shop!SubjectOK(task[q])' /\ Shop!SinceOK(task[q])'
    BY <2>1, <2>4, <2>5, <2>6, CatalogueEndedSince
  <2>8. Shop!TypeOK' /\ Shop!OneCategoryPerName'
    BY <2>1, <2>3, <2>7, CatalogueFacts, CatalogueRowTypes DEF Shop!TypeOK,
       Shop!OneCategoryPerName
  <2>9. \A d2 \in Shop!StoredDocuments': Shop!LineOK(document[d2])'
    BY <2>1, <2>3, <2>4, CatalogueFacts, CatalogueRowTypes DEF Shop!LineOK
  <2>10. Shop!LostProductsWereCrossed'
    BY <2>1, <2>3, <2>4, CatalogueFacts, CatalogueRowTypes
       DEF Shop!LostProductsWereCrossed
  <2>11. Shop!DocumentsReferToRows'
    BY <1>3, <2>1, <2>3, <2>4, CatalogueFacts, CatalogueRowTypes
       DEF Shop!DocumentsReferToRows
  <2>12. Shop!SharedSkusWereCrossed' /\ \A a \in Shop!StoredProducts': product'[a].known
    BY <2>1, <2>4, CatalogueFacts DEF Shop!SharedSkusWereCrossed
  <2> QED BY <2>7, <2>8, <2>9, <2>10, <2>11, <2>12 DEF Shop!IInv
<1> QED BY <1>1, <1>2, <1>3 DEF Shop!CreateInvoice

LEMMA CatalogueDeleteInvoiceKeeps ==
  ASSUME Shop!IInv, NEW d \in Documents, Shop!DeleteInvoice(d) PROVE Shop!IInv'
<1>1. /\ document' = [document EXCEPT ![d] = [@ EXCEPT !.stored = FALSE, !.product = Nothing]]
      /\ crossed' = Shop!CrossedBut({d})
      /\ UNCHANGED <<product, customer, category, task>>
  BY DEF Shop!DeleteInvoice
<1>2. document[d] \in Shop!DocumentRow
  BY CatalogueRowTypes
<1>3. /\ document' \in [Documents -> Shop!DocumentRow]
      /\ ~document'[d].stored
      /\ \A x \in Documents \ {d}: document'[x] = document[x]
  BY <1>1, <1>2, CatalogueRowTypes DEF Shop!DocumentRow
<1>4. /\ Shop!StoredProducts' = Shop!StoredProducts
      /\ Shop!StoredDocuments' = Shop!StoredDocuments \ {d}
  BY <1>1, <1>3 DEF Shop!StoredProducts, Shop!StoredDocuments
<1>5. \A a: Shop!DocumentsWith(a)' \subseteq Shop!DocumentsWith(a)
  BY <1>3, <1>4, CatalogueRowTypes DEF Shop!DocumentsWith
<1>6. ASSUME NEW q \in Requests
      PROVE  Shop!SubjectOK(task[q])' /\ Shop!SinceOK(task[q])'
  <2>1. Shop!SubjectOK(task[q]) /\ Shop!SinceOK(task[q])
    BY CatalogueFacts
  <2> QED BY <1>1, <1>4, <1>5, <2>1 DEF Shop!SubjectOK, Shop!SinceOK
<1>7. Shop!TypeOK' /\ Shop!OneCategoryPerName'
  BY <1>1, <1>3, CatalogueFacts, CatalogueRowTypes DEF Shop!TypeOK,
     Shop!OneCategoryPerName, Shop!CrossedBut
<1>8. \A x \in Shop!StoredDocuments': Shop!LineOK(document[x])'
  BY <1>1, <1>3, <1>4, CatalogueFacts, CatalogueRowTypes DEF Shop!LineOK
<1>9. ASSUME NEW x \in Shop!StoredDocuments',
             document'[x].product # document'[x].drawn
      PROVE  {document'[x].drawn, x} \in crossed'
  <2>1. x \in Shop!StoredDocuments /\ x # d /\ document'[x] = document[x]
    BY <1>3, <1>4, CatalogueRowTypes
  <2>2. document[x].product # document[x].drawn
    BY <1>9, <2>1
  <2>3. document[x].drawn \in Products /\ {document[x].drawn, x} \in crossed
    BY <2>1, <2>2, CatalogueLostLines
  <2>4. {document[x].drawn, x} \cap {d} = {}
    BY <2>1, <2>3, PlatformAssumption
  <2>5. {document[x].drawn, x} \in crossed'
    BY <1>1, <2>3, <2>4 DEF Shop!CrossedBut
  <2> QED BY <2>1, <2>5
<1>10. Shop!LostProductsWereCrossed'
  BY <1>9 DEF Shop!LostProductsWereCrossed
<1>11. Shop!DocumentsReferToRows'
  BY <1>1, <1>3, <1>4, CatalogueFacts, CatalogueRowTypes
     DEF Shop!DocumentsReferToRows
<1>12. ASSUME NEW a \in Shop!StoredProducts, NEW b \in Shop!StoredProducts,
              a # b,
              product[a].sku = product[b].sku, product[a].sku # Nothing
       PROVE  {a, b} \in crossed'
  <2>1. {a, b} \in crossed
    BY <1>12, CatalogueFacts DEF Shop!SharedSkusWereCrossed
  <2>2. {a, b} \cap {d} = {}
    BY CatalogueRowTypes, PlatformAssumption
  <2> QED BY <1>1, <2>1, <2>2 DEF Shop!CrossedBut
<1>13. Shop!SharedSkusWereCrossed' /\ \A a \in Shop!StoredProducts': product'[a].known
  BY <1>1, <1>4, <1>12, CatalogueFacts DEF Shop!SharedSkusWereCrossed
<1> QED BY <1>6, <1>7, <1>8, <1>10, <1>11, <1>13 DEF Shop!IInv

LEMMA CatalogueDeleteCustomerKeeps ==
  ASSUME Shop!IInv, NEW r \in Requests, Shop!DeleteCustomer(r) PROVE Shop!IInv'
<1>1. PICK c: c = task[r].subject
  OBVIOUS
<1>2. CASE Shop!Fails(r)
  BY <1>2, CatalogueFailKeeps
<1>3. CASE /\ Shop!Deletable(c) /\ customer' = customer \ {c} /\ Shop!Ended(r, {})
           /\ UNCHANGED <<product, document, category, crossed>>
  <2>1. /\ Shop!StoredProducts' = Shop!StoredProducts
        /\ Shop!StoredDocuments' = Shop!StoredDocuments
    BY <1>3 DEF Shop!StoredProducts, Shop!StoredDocuments
  <2>2. \A a: Shop!DocumentsWith(a)' = Shop!DocumentsWith(a)
    BY <1>3, <2>1 DEF Shop!DocumentsWith
  <2>3. /\ task' \in [Requests -> Shop!Request]
        /\ \A q \in Requests: Shop!SubjectOK(task[q])' /\ Shop!SinceOK(task[q])'
    BY <1>3, <2>1, <2>2, CatalogueEndedSince
  <2>4. Shop!TypeOK' /\ Shop!OneCategoryPerName'
    BY <1>3, <2>3, CatalogueFacts, CatalogueRowTypes DEF Shop!TypeOK,
       Shop!OneCategoryPerName
  <2>5. \A d \in Shop!StoredDocuments: document[d].customer # c
    BY <1>3 DEF Shop!Deletable, Shop!DocumentsOf
  <2>6. Shop!DocumentsReferToRows'
    BY <1>3, <2>1, <2>5, CatalogueFacts DEF Shop!DocumentsReferToRows
  <2>7. \A d \in Shop!StoredDocuments': Shop!LineOK(document[d])'
    BY <1>3, <2>1, CatalogueFacts DEF Shop!LineOK
  <2>8. /\ Shop!SharedSkusWereCrossed' /\ Shop!LostProductsWereCrossed'
        /\ \A a \in Shop!StoredProducts': product'[a].known
    BY <1>3, <2>1, CatalogueFacts DEF Shop!SharedSkusWereCrossed,
       Shop!LostProductsWereCrossed
  <2> QED BY <2>3, <2>4, <2>6, <2>7, <2>8 DEF Shop!IInv
<1> QED BY <1>1, <1>2, <1>3 DEF Shop!DeleteCustomer

LEMMA CataloguePreserved == Shop!IInv /\ [Shop!Next]_catalogueVars => Shop!IInv'
<1> SUFFICES ASSUME Shop!IInv, [Shop!Next]_catalogueVars PROVE Shop!IInv'
  OBVIOUS
<1>1. ASSUME NEW r \in Requests, Shop!Step(r) PROVE Shop!IInv'
  BY <1>1, CatalogueLooksKeep, CatalogueCreateProductKeeps,
     CatalogueUpdateProductKeeps, CatalogueCountKeeps,
     CatalogueDeleteProductKeeps, CatalogueCreateInvoiceKeeps,
     CatalogueDeleteCustomerKeeps, CatalogueCategoryKeeps, CatalogueFailKeeps
     DEF Shop!Step, Shop!CreateExpense
<1>2. ASSUME NEW d \in Documents, Shop!DeleteInvoice(d) PROVE Shop!IInv'
  BY <1>2, CatalogueDeleteInvoiceKeeps
<1>3. CASE UNCHANGED catalogueVars
  <2>1. UNCHANGED <<product, customer, document, category, task, crossed>>
    BY <1>3 DEF catalogueVars
  <2>2. Shop!TypeOK' /\ Shop!OneCategoryPerName'
    BY <2>1, CatalogueFacts, CatalogueRowTypes DEF Shop!TypeOK,
       Shop!OneCategoryPerName
  <2>3. \A q \in Requests: Shop!SubjectOK(task[q])' /\ Shop!SinceOK(task[q])'
    BY <2>1, CatalogueFacts, CatalogueRowsKeep DEF Shop!SubjectOK, Shop!SinceOK
  <2> QED BY <2>1, <2>2, <2>3, CatalogueRowsKeep DEF Shop!IInv
<1> QED BY <1>1, <1>2, <1>3 DEF Shop!Next

(***************************************************************************)
(* The delivery of an event (WebhookDelivery).  Every step is looked at twice: *)
(* for what it leaves true of the event, and of the receipt.               *)
(***************************************************************************)
LEMMA DeliveryFreeType ==
  /\ Delivery!Free \in Delivery!Hook /\ Delivery!Free.stage = "idle"
  /\ Delivery!HookOK(Delivery!Free)
BY DEF Delivery!Free, Delivery!Hook, Delivery!Working, Delivery!HookOK

LEMMA DeliveryInitially == Delivery!Init => Delivery!IInv
<1> SUFFICES ASSUME Delivery!Init PROVE Delivery!IInv
  OBVIOUS
<1>1. Delivery!TypeOK
  <2>1. hook \in [Handlers -> Delivery!Hook]
    BY DeliveryFreeType DEF Delivery!Init
  <2>2. mail \in Delivery!Mails
    BY PlatformAssumption DEF Delivery!Init, Delivery!Mails
  <2> QED
    BY <2>1, <2>2 DEF Delivery!Init, Delivery!TypeOK, Delivery!Lease!LockType,
       Delivery!Answers
<1>2. \A h \in Handlers: Delivery!HookOK(hook[h]) /\ hook[h].stage = "idle"
  BY DeliveryFreeType DEF Delivery!Init
<1>3. Delivery!EventOK
  BY DEF Delivery!Init, Delivery!EventOK, Delivery!AcknowledgedIsSettled
<1>4. Delivery!ReceiptOK
  BY <1>2 DEF Delivery!Init, Delivery!ReceiptOK, Delivery!ReceiptIsMailed,
     Delivery!AtReceipt
<1> QED BY <1>1, <1>2, <1>3, <1>4 DEF Delivery!IInv

\* One request moves; the others are as they were.
LEMMA DeliveryHookMoves ==
  ASSUME Delivery!TypeOK, NEW h \in Handlers, NEW q \in Delivery!Hook,
         hook' = [hook EXCEPT ![h] = q]
  PROVE  /\ hook' \in [Handlers -> Delivery!Hook]
         /\ hook'[h] = q
         /\ \A g \in Handlers \ {h}: hook'[g] = hook[g]
BY DEF Delivery!TypeOK

\* What a step of a request leaves true of the event.
LEMMA DeliveryEventKeeps ==
  ASSUME Delivery!IInv, NEW h \in Handlers, NEW q \in Delivery!Hook,
         hook' = [hook EXCEPT ![h] = q],
         Delivery!HookOK(q)',
         Delivery!Dealt => Delivery!Dealt', answer.failed => answer'.failed,
         answer.skipped => answer'.skipped,
         row' = "processed" => row = "processed" \/ Delivery!Dealt',
         lock' \in {lock, h, Nothing},
         lock' = h => lock = h \/ q.stage \in Delivery!Working,
         hook[h].stage \in Delivery!Working => q.stage \in Delivery!Working \/ Delivery!Dealt' \/ answer'.failed,
         answer'.acked =>
           \/ answer.acked
           \/ Delivery!Dealt'
           \/ answer'.failed
           \/ /\ answer'.skipped
              /\ lock \in Handlers /\ (lock = h => q.stage \in Delivery!Working)
              /\ Delivery!Dealt' = Delivery!Dealt /\ answer'.failed = answer.failed,
         answer'.acked /\ ~answer.acked => Delivery!Dealt' \/ answer'.skipped
  PROVE  (\A g \in Handlers: Delivery!HookOK(hook[g])') /\ Delivery!EventOK'
<1>1. /\ hook' \in [Handlers -> Delivery!Hook]
      /\ hook'[h] = q
      /\ \A g \in Handlers \ {h}: hook'[g] = hook[g]
  BY DeliveryHookMoves DEF Delivery!IInv
<1>2. /\ lock \in Handlers \cup {Nothing}
      /\ \A g \in Handlers: Delivery!HookOK(hook[g])
      /\ row = "processed" => Delivery!Dealt
      /\ lock # Nothing /\ ~Delivery!Dealt /\ ~answer.failed => hook[lock].stage \in Delivery!Working
      /\ Delivery!AcknowledgedIsSettled
  BY DEF Delivery!IInv, Delivery!TypeOK, Delivery!Lease!LockType,
     Delivery!EventOK
<1>3. \A g \in Handlers: Delivery!HookOK(hook[g])'
  BY <1>1, <1>2 DEF Delivery!HookOK
<1>4. row' = "processed" => Delivery!Dealt'
  BY <1>2
<1>5. ASSUME lock' # Nothing, ~Delivery!Dealt', ~answer'.failed
      PROVE  hook'[lock'].stage \in Delivery!Working
  BY <1>1, <1>2, <1>5, PlatformAssumption
<1>6. ASSUME NEW g \in Handlers, hook[g].stage \in Delivery!Working,
             ~Delivery!Dealt', ~answer'.failed
      PROVE  hook'[g].stage \in Delivery!Working
  BY <1>1, <1>6
<1>7. ASSUME answer'.acked, ~Delivery!Dealt'
      PROVE  /\ answer'.skipped
             /\ answer'.failed \/ \E g \in Handlers: hook'[g].stage \in Delivery!Working
  <2>1. CASE answer.acked
    BY <1>2, <1>6, <1>7, <2>1 DEF Delivery!AcknowledgedIsSettled,
       Delivery!Dealt
  <2>2. CASE ~answer.acked
    BY <1>1, <1>2, <1>7, <2>2, PlatformAssumption
  <2> QED BY <2>1, <2>2
<1>8. Delivery!AcknowledgedIsSettled'
  BY <1>7 DEF Delivery!AcknowledgedIsSettled, Delivery!Dealt
<1> QED BY <1>3, <1>4, <1>5, <1>8 DEF Delivery!EventOK

\* ... and of the receipt, when the request is not the one that mails it,
LEMMA DeliveryOtherReceipt ==
  ASSUME Delivery!IInv, NEW h \in Handlers, NEW q \in Delivery!Hook,
         hook' = [hook EXCEPT ![h] = q],
         ~Delivery!AtReceipt(h), q.stage \notin {"send", "giveback"},
         UNCHANGED <<claimed, mail>>
  PROVE  Delivery!ReceiptOK'
<1>1. \A g \in Handlers: Delivery!AtReceipt(g)' <=> Delivery!AtReceipt(g)
  BY DeliveryHookMoves DEF Delivery!IInv, Delivery!AtReceipt
<1>2. Delivery!ReceiptOK
  BY DEF Delivery!IInv
<1> QED
  BY <1>1, <1>2 DEF Delivery!ReceiptOK, Delivery!ReceiptIsMailed,
     Delivery!AtReceipt

\* ... and when it is, or nobody is.
LEMMA DeliveryOwnReceipt ==
  ASSUME Delivery!IInv, NEW h \in Handlers, NEW q \in Delivery!Hook,
         hook' = [hook EXCEPT ![h] = q],
         Delivery!AtReceipt(h) \/ ~claimed,
         q.stage \in {"send", "giveback"} => claimed' /\ mail'.sent <= mail'.unclear,
         mail'.sent <= mail'.unclear + (IF claimed' THEN 1 ELSE 0),
         claimed' => \/ mail'.sent > 0
                     \/ mail'.stuck
                     \/ q.stage \in {"send", "giveback"}
  PROVE  Delivery!ReceiptOK'
<1>1. \A g \in Handlers \ {h}: ~Delivery!AtReceipt(g)
  BY DEF Delivery!IInv, Delivery!ReceiptOK
<1>2. \A g \in Handlers \ {h}: ~Delivery!AtReceipt(g)'
  BY <1>1, DeliveryHookMoves DEF Delivery!IInv, Delivery!AtReceipt
<1>3. Delivery!AtReceipt(h)' <=> q.stage \in {"send", "giveback"}
  BY DeliveryHookMoves DEF Delivery!IInv, Delivery!AtReceipt
<1> QED
  BY <1>2, <1>3 DEF Delivery!ReceiptOK, Delivery!ReceiptIsMailed,
     Delivery!AtReceipt

\* Where a request can go.
LEMMA DeliveryGoes ==
  ASSUME Delivery!TypeOK, NEW h \in Handlers,
         NEW stage \in {"idle", "lock"} \cup Delivery!Working,
         Delivery!Go(h, stage)
  PROVE  \E q \in Delivery!Hook: /\ hook' = [hook EXCEPT ![h] = q]
                                 /\ q.stage = stage /\ q.ok = hook[h].ok
<1>1. PICK q: q = [hook[h] EXCEPT !.stage = stage]
  OBVIOUS
<1>2. hook[h] \in Delivery!Hook
  BY DEF Delivery!TypeOK
<1>3. q \in Delivery!Hook /\ q.stage = stage /\ q.ok = hook[h].ok
  BY <1>1, <1>2 DEF Delivery!Hook
<1> QED BY <1>1, <1>3 DEF Delivery!Go, Delivery!TypeOK

LEMMA DeliveryEnding ==
  ASSUME NEW h \in Handlers, Delivery!Ends(h)
  PROVE  \E q \in Delivery!Hook: /\ hook' = [hook EXCEPT ![h] = q]
                                 /\ q.stage = "idle" /\ ~q.ok
BY DeliveryFreeType DEF Delivery!Ends, Delivery!Free

LEMMA DeliveryContinuing ==
  ASSUME Delivery!TypeOK, NEW h \in Handlers, Delivery!Continues(h)
  PROVE  \E q \in Delivery!Hook: /\ hook' = [hook EXCEPT ![h] = q]
                                 /\ q.stage \in {"idle", "mark"} /\ (q.ok => hook[h].ok)
BY DeliveryGoes, DeliveryEnding DEF Delivery!Continues, Delivery!Working

LEMMA DeliveryThrowing ==
  ASSUME Delivery!TypeOK, NEW h \in Handlers, Delivery!Throws(h)
  PROVE  \E q \in Delivery!Hook: /\ hook' = [hook EXCEPT ![h] = q]
                                 /\ q.stage \in {"idle", "unmark"} /\ (q.ok => hook[h].ok)
BY DeliveryGoes, DeliveryEnding DEF Delivery!Throws, Delivery!Working

\* A step that neither settles nor mails.
LEMMA DeliveryStepKeeps ==
  ASSUME Delivery!IInv, NEW h \in Handlers, NEW q \in Delivery!Hook,
         hook' = [hook EXCEPT ![h] = q],
         Delivery!HookOK(q)',
         Delivery!Dealt => Delivery!Dealt', answer.failed => answer'.failed,
         answer.skipped => answer'.skipped,
         row' = "processed" => row = "processed" \/ Delivery!Dealt',
         lock' \in {lock, h, Nothing},
         lock' = h => lock = h \/ q.stage \in Delivery!Working,
         hook[h].stage \in Delivery!Working => q.stage \in Delivery!Working \/ Delivery!Dealt' \/ answer'.failed,
         answer'.acked =>
           \/ answer.acked
           \/ Delivery!Dealt'
           \/ answer'.failed
           \/ /\ answer'.skipped
              /\ lock \in Handlers /\ (lock = h => q.stage \in Delivery!Working)
              /\ Delivery!Dealt' = Delivery!Dealt /\ answer'.failed = answer.failed,
         answer'.acked /\ ~answer.acked => Delivery!Dealt' \/ answer'.skipped,
         ~Delivery!AtReceipt(h), q.stage \notin {"send", "giveback"},
         UNCHANGED <<claimed, mail>>,
         row' \in {"none", "open", "processed"}, settled' \in BOOLEAN,
         answer' \in Delivery!Answers
  PROVE  Delivery!IInv'
<1>1. (\A g \in Handlers: Delivery!HookOK(hook[g])') /\ Delivery!EventOK'
  BY DeliveryEventKeeps
<1>2. Delivery!ReceiptOK'
  BY DeliveryOtherReceipt
<1>3. Delivery!TypeOK'
  BY DeliveryHookMoves DEF Delivery!IInv, Delivery!TypeOK,
     Delivery!Lease!LockType
<1> QED BY <1>1, <1>2, <1>3 DEF Delivery!IInv

LEMMA DeliveryFacts ==
  ASSUME Delivery!IInv, NEW h \in Handlers
  PROVE  /\ Delivery!HookOK(hook[h]) /\ hook[h] \in Delivery!Hook
         /\ row \in {"none", "open", "processed"} /\ settled \in BOOLEAN
         /\ row = "processed" => Delivery!Dealt
         /\ lock \in Handlers \cup {Nothing}
         /\ lock # Nothing /\ ~Delivery!Dealt /\ ~answer.failed => hook[lock].stage \in Delivery!Working
         /\ answer \in Delivery!Answers
         /\ Delivery!TypeOK
BY DEF Delivery!IInv, Delivery!TypeOK, Delivery!EventOK,
   Delivery!Lease!LockType

LEMMA DeliveryArriveKeeps ==
  ASSUME Delivery!IInv, NEW h \in Handlers,
         Delivery!DeliveryArrives(h) \/ Delivery!CaptureArrives(h)
  PROVE  Delivery!IInv'
<1>1. /\ hook[h] \in Delivery!Hook /\ Delivery!HookOK(hook[h])
      /\ row \in {"none", "open", "processed"} /\ settled \in BOOLEAN
      /\ row = "processed" => Delivery!Dealt
      /\ answer \in Delivery!Answers
      /\ hook \in [Handlers -> Delivery!Hook]
  BY DeliveryFacts DEF Delivery!TypeOK
<1>2. UNCHANGED <<row, lock, claimed, settled, mail>> /\ hook[h].stage = "idle"
  BY DEF Delivery!DeliveryArrives, Delivery!CaptureArrives
<1>3. hook[h].stage \notin Delivery!Working /\ ~Delivery!AtReceipt(h)
  BY <1>2 DEF Delivery!AtReceipt, Delivery!Working
<1>4. CASE Delivery!DeliveryArrives(h) /\ row = "processed"
  <2>1. /\ hook' = [hook EXCEPT ![h] = hook[h]]
        /\ answer' = [answer EXCEPT !.acked = TRUE]
    BY <1>1, <1>4 DEF Delivery!DeliveryArrives, Delivery!Acked, Delivery!TypeOK
  <2>2. /\ answer' \in Delivery!Answers
        /\ answer'.skipped = answer.skipped /\ answer'.refused = answer.refused
        /\ answer'.failed = answer.failed
    BY <1>1, <2>1 DEF Delivery!Answers
  <2>3. Delivery!Dealt' = Delivery!Dealt /\ Delivery!Dealt
    BY <1>1, <1>2, <1>4, <2>2 DEF Delivery!Dealt
  <2>4. Delivery!HookOK(hook[h])'
    BY <1>1, <1>2, <2>1, <2>3 DEF Delivery!HookOK
  <2>5. hook[h].stage \notin {"send", "giveback"}
    BY <1>2
  <2> QED BY <1>1, <1>2, <1>3, <2>1, <2>2, <2>3, <2>4, <2>5, DeliveryStepKeeps
<1>5. CASE Delivery!CaptureArrives(h) \/ (Delivery!DeliveryArrives(h) /\ row # "processed")
  <2>1. PICK q \in Delivery!Hook: /\ hook' = [hook EXCEPT ![h] = q]
                                  /\ q.stage \in {"lock", "process"} /\ ~q.ok
    <3>1. CASE Delivery!CaptureArrives(h)
      <4>1. PICK q: q = [Delivery!Free EXCEPT !.stage = "process", !.kind = "capture"]
        OBVIOUS
      <4>2. q = [stage |-> "process", kind |-> "capture", seen |-> "none",
                 holds |-> FALSE, ok |-> FALSE]
        BY <4>1 DEF Delivery!Free
      <4>3. hook' = [hook EXCEPT ![h] = q]
        BY <3>1, <4>1 DEF Delivery!CaptureArrives
      <4>4. q \in Delivery!Hook
        BY <4>2 DEF Delivery!Hook, Delivery!Working
      <4> QED BY <4>2, <4>3, <4>4
    <3>2. CASE Delivery!DeliveryArrives(h) /\ row # "processed"
      <4>1. PICK q: q = [Delivery!Free EXCEPT !.stage = "lock", !.seen = row]
        OBVIOUS
      <4>2. q = [stage |-> "lock", kind |-> "event", seen |-> row,
                 holds |-> FALSE, ok |-> FALSE]
        BY <4>1 DEF Delivery!Free
      <4>3. hook' = [hook EXCEPT ![h] = q]
        BY <3>2, <4>1 DEF Delivery!DeliveryArrives
      <4>4. row \in {"none", "open"}
        BY <1>1, <3>2
      <4>5. q \in Delivery!Hook
        BY <4>2, <4>4 DEF Delivery!Hook, Delivery!Working
      <4> QED BY <4>2, <4>3, <4>5
    <3> QED BY <1>5, <3>1, <3>2
  <2>2. answer' = answer
    BY <1>5 DEF Delivery!DeliveryArrives, Delivery!CaptureArrives
  <2>3. Delivery!HookOK(q)' /\ Delivery!Dealt' = Delivery!Dealt
    BY <1>2, <2>1, <2>2 DEF Delivery!HookOK, Delivery!Dealt
  <2> QED
    BY <1>1, <1>2, <1>3, <2>1, <2>2, <2>3, DeliveryStepKeeps
<1> QED BY <1>4, <1>5

\* What the actions below start from.
LEMMA DeliveryStart ==
  ASSUME Delivery!IInv, NEW h \in Handlers
  PROVE  /\ hook[h] \in Delivery!Hook /\ Delivery!HookOK(hook[h])
         /\ row \in {"none", "open", "processed"} /\ settled \in BOOLEAN
         /\ row = "processed" => Delivery!Dealt
         /\ lock \in Handlers \cup {Nothing}
         /\ lock # Nothing /\ ~Delivery!Dealt /\ ~answer.failed => hook[lock].stage \in Delivery!Working
         /\ answer \in Delivery!Answers
         /\ claimed \in BOOLEAN /\ mail \in Delivery!Mails
         /\ hook \in [Handlers -> Delivery!Hook]
         /\ Delivery!TypeOK
BY DeliveryFacts DEF Delivery!TypeOK, Delivery!Answers, Delivery!Mails

LEMMA DeliveryFailedFacts ==
  ASSUME answer \in Delivery!Answers
  PROVE  /\ Delivery!Failed \in Delivery!Answers /\ Delivery!Failed.failed
         /\ Delivery!Failed.acked = answer.acked
         /\ Delivery!Failed.skipped = answer.skipped
         /\ Delivery!Failed.refused = answer.refused
BY DEF Delivery!Failed, Delivery!Answers

LEMMA DeliveryLockKeeps ==
  ASSUME Delivery!IInv, NEW h \in Handlers, Delivery!AcquireLock(h)
  PROVE  Delivery!IInv'
<1>1. /\ hook[h] \in Delivery!Hook /\ Delivery!HookOK(hook[h])
      /\ hook[h].stage = "lock"
      /\ row \in {"none", "open", "processed"} /\ settled \in BOOLEAN
      /\ row = "processed" => Delivery!Dealt
      /\ lock \in Handlers \cup {Nothing}
      /\ lock # Nothing /\ ~Delivery!Dealt /\ ~answer.failed => hook[lock].stage \in Delivery!Working
      /\ answer \in Delivery!Answers /\ hook \in [Handlers -> Delivery!Hook]
  BY DeliveryStart DEF Delivery!AcquireLock
<1>2. UNCHANGED <<row, claimed, settled, mail>>
  BY DEF Delivery!AcquireLock
<1>3. ~Delivery!AtReceipt(h) /\ hook[h].stage \notin Delivery!Working
  BY <1>1 DEF Delivery!AtReceipt, Delivery!Working
<1>4. ASSUME NEW q \in Delivery!Hook, hook' = [hook EXCEPT ![h] = q],
             q.stage = "record",
             q.ok = hook[h].ok, lock' \in {lock, h}, UNCHANGED answer
      PROVE  Delivery!IInv'
  <2>1. Delivery!HookOK(q)' /\ Delivery!Dealt' = Delivery!Dealt
    BY <1>1, <1>2, <1>4 DEF Delivery!HookOK, Delivery!Dealt
  <2>2. q.stage \in Delivery!Working
    BY <1>4 DEF Delivery!Working
  <2> QED BY <1>1, <1>2, <1>3, <1>4, <2>1, <2>2, DeliveryStepKeeps
<1>5. CASE /\ Delivery!Lease!Granted(h) /\ UNCHANGED answer
           /\ hook' = [hook EXCEPT ![h].stage = "record", ![h].holds = TRUE]
  <2>1. PICK q: q = [hook[h] EXCEPT !.stage = "record", !.holds = TRUE]
    OBVIOUS
  <2>2. q \in Delivery!Hook /\ q.stage = "record" /\ q.ok = hook[h].ok
    BY <1>1, <2>1 DEF Delivery!Hook, Delivery!Working
  <2>3. hook' = [hook EXCEPT ![h] = q]
    BY <1>1, <1>5, <2>1
  <2> QED BY <1>4, <1>5, <2>2, <2>3 DEF Delivery!Lease!Granted
<1>6. CASE Delivery!Lease!OutOfReach /\ Delivery!Go(h, "record") /\ UNCHANGED answer
  <2>1. PICK q \in Delivery!Hook: /\ hook' = [hook EXCEPT ![h] = q]
                                  /\ q.stage = "record" /\ q.ok = hook[h].ok
    BY <1>6, DeliveryGoes, DeliveryStart DEF Delivery!Working
  <2> QED BY <1>4, <1>6, <2>1 DEF Delivery!Lease!OutOfReach
<1>7. CASE Delivery!Lease!Busy /\ Delivery!Ends(h) /\ answer' = [Delivery!Acked EXCEPT !.skipped = TRUE]
  <2>1. PICK q \in Delivery!Hook: hook' = [hook EXCEPT ![h] = q] /\ q.stage = "idle" /\ ~q.ok
    BY <1>7, DeliveryEnding
  <2>2. /\ answer' \in Delivery!Answers /\ answer'.acked /\ answer'.skipped
        /\ answer'.refused = answer.refused /\ answer'.failed = answer.failed
    BY <1>1, <1>7 DEF Delivery!Acked, Delivery!Answers
  <2>3. Delivery!HookOK(q)' /\ Delivery!Dealt' = Delivery!Dealt
    BY <1>2, <2>1, <2>2 DEF Delivery!HookOK, Delivery!Dealt
  <2>4. lock \in Handlers /\ lock' = lock
    BY <1>1, <1>7 DEF Delivery!Lease!Busy
  <2>5. lock # h \/ Delivery!Dealt \/ answer.failed
    BY <1>1, <1>3, <2>4, PlatformAssumption
  <2> QED
    BY <1>1, <1>2, <1>3, <2>1, <2>2, <2>3, <2>4, <2>5, DeliveryStepKeeps
<1> QED BY <1>5, <1>6, <1>7 DEF Delivery!AcquireLock

LEMMA DeliveryCreateKeeps ==
  ASSUME Delivery!IInv, NEW h \in Handlers, Delivery!CreateWebhook(h)
  PROVE  Delivery!IInv'
<1>1. /\ hook[h] \in Delivery!Hook /\ Delivery!HookOK(hook[h])
      /\ hook[h].stage = "record"
      /\ row \in {"none", "open", "processed"} /\ settled \in BOOLEAN
      /\ row = "processed" => Delivery!Dealt
      /\ answer \in Delivery!Answers /\ hook \in [Handlers -> Delivery!Hook]
  BY DeliveryStart DEF Delivery!CreateWebhook
<1>2. /\ UNCHANGED <<lock, claimed, settled, answer, mail>>
      /\ row' = IF row = "none" THEN "open" ELSE row
  BY DEF Delivery!CreateWebhook
<1>3. ~Delivery!AtReceipt(h) /\ Delivery!Dealt' = Delivery!Dealt
  BY <1>1, <1>2 DEF Delivery!AtReceipt, Delivery!Dealt
<1>4. ASSUME NEW q \in Delivery!Hook, hook' = [hook EXCEPT ![h] = q],
             q.stage \in {"release", "process"}, q.ok => Delivery!Dealt,
             q.stage = "release" => q.ok
      PROVE  Delivery!IInv'
  <2>1. Delivery!HookOK(q)'
    BY <1>2, <1>3, <1>4 DEF Delivery!HookOK
  <2>2. q.stage \in Delivery!Working
    BY <1>4 DEF Delivery!Working
  <2> QED BY <1>1, <1>2, <1>3, <1>4, <2>1, <2>2, DeliveryStepKeeps
<1>5. CASE hook[h].seen = "none" /\ row = "processed"
  <2>1. PICK q: q = [hook[h] EXCEPT !.stage = "release", !.ok = TRUE]
    OBVIOUS
  <2>2. q \in Delivery!Hook /\ q.stage = "release" /\ q.ok
    BY <1>1, <2>1 DEF Delivery!Hook, Delivery!Working
  <2>3. hook' = [hook EXCEPT ![h] = q]
    BY <1>1, <1>5, <2>1 DEF Delivery!CreateWebhook
  <2> QED BY <1>1, <1>4, <1>5, <2>2, <2>3
<1>6. CASE Delivery!Go(h, "process")
  <2>1. PICK q \in Delivery!Hook: /\ hook' = [hook EXCEPT ![h] = q]
                                  /\ q.stage = "process" /\ q.ok = hook[h].ok
    BY <1>6, DeliveryGoes, DeliveryStart DEF Delivery!Working
  <2> QED BY <1>1, <1>4, <2>1 DEF Delivery!HookOK
<1> QED BY <1>5, <1>6 DEF Delivery!CreateWebhook

LEMMA DeliveryProcessKeeps ==
  ASSUME Delivery!IInv, NEW h \in Handlers, Delivery!ProcessEvent(h)
  PROVE  Delivery!IInv'
<1>1. /\ hook[h] \in Delivery!Hook /\ Delivery!HookOK(hook[h])
      /\ hook[h].stage = "process"
      /\ row \in {"none", "open", "processed"} /\ settled \in BOOLEAN
      /\ row = "processed" => Delivery!Dealt
      /\ answer \in Delivery!Answers /\ hook \in [Handlers -> Delivery!Hook]
      /\ Delivery!TypeOK
  BY DeliveryStart DEF Delivery!ProcessEvent
<1>2. UNCHANGED <<row, lock, claimed, mail>>
  BY DEF Delivery!ProcessEvent
<1>3. ~Delivery!AtReceipt(h)
  BY <1>1 DEF Delivery!AtReceipt
<1>4. ASSUME NEW q \in Delivery!Hook, hook' = [hook EXCEPT ![h] = q],
             q.stage \in {"receipt", "mark", "unmark", "idle"},
             q.ok => hook[h].ok,
             settled' \in BOOLEAN, answer' \in Delivery!Answers,
             settled => settled', answer.refused => answer'.refused,
             answer'.acked = answer.acked, answer'.skipped = answer.skipped,
             answer.failed => answer'.failed,
             \/ settled' /\ q.stage # "unmark"
             \/ answer'.refused /\ q.stage # "unmark"
             \/ answer'.failed /\ q.stage \in {"unmark", "idle"}
      PROVE  Delivery!IInv'
  <2>1. (Delivery!Dealt => Delivery!Dealt') /\ (Delivery!Dealt' \/ answer'.failed)
    BY <1>4 DEF Delivery!Dealt
  <2>2. Delivery!HookOK(q)'
    BY <1>1, <1>4, <2>1 DEF Delivery!HookOK, Delivery!Dealt
  <2>3. q.stage \notin {"send", "giveback"}
    BY <1>4
  <2> QED BY <1>1, <1>2, <1>3, <1>4, <2>1, <2>2, <2>3, DeliveryStepKeeps
<1>5. CASE settled' = TRUE /\ UNCHANGED answer /\ (Delivery!Go(h, "receipt") \/ Delivery!Ends(h))
  <2>1. PICK q \in Delivery!Hook: /\ hook' = [hook EXCEPT ![h] = q]
                                  /\ q.stage \in {"receipt", "idle"} /\ (q.ok => hook[h].ok)
    BY <1>1, <1>5, DeliveryGoes, DeliveryEnding DEF Delivery!Working
  <2> QED BY <1>1, <1>4, <1>5, <2>1
<1>6. CASE Delivery!Continues(h) /\ answer' = [answer EXCEPT !.refused = TRUE] /\ UNCHANGED settled
  <2>1. PICK q \in Delivery!Hook: /\ hook' = [hook EXCEPT ![h] = q]
                                  /\ q.stage \in {"idle", "mark"} /\ (q.ok => hook[h].ok)
    BY <1>1, <1>6, DeliveryContinuing
  <2>2. /\ answer' \in Delivery!Answers /\ answer'.refused
        /\ answer'.acked = answer.acked /\ answer'.skipped = answer.skipped
        /\ answer'.failed = answer.failed
    BY <1>1, <1>6 DEF Delivery!Answers
  <2> QED BY <1>1, <1>4, <1>6, <2>1, <2>2
<1>7. CASE Delivery!Throws(h) /\ answer' = Delivery!Failed /\ UNCHANGED settled
  <2>1. PICK q \in Delivery!Hook: /\ hook' = [hook EXCEPT ![h] = q]
                                  /\ q.stage \in {"idle", "unmark"} /\ (q.ok => hook[h].ok)
    BY <1>1, <1>7, DeliveryThrowing
  <2> QED BY <1>1, <1>4, <1>7, <2>1, DeliveryFailedFacts
<1> QED BY <1>5, <1>6, <1>7 DEF Delivery!ProcessEvent

LEMMA DeliveryMarkKeeps ==
  ASSUME Delivery!IInv, NEW h \in Handlers,
         Delivery!MarkProcessed(h) \/ Delivery!MarkFailed(h)
  PROVE  Delivery!IInv'
<1>1. /\ hook[h] \in Delivery!Hook /\ Delivery!HookOK(hook[h])
      /\ hook[h].stage \in {"mark", "unmark"}
      /\ row \in {"none", "open", "processed"} /\ settled \in BOOLEAN
      /\ row = "processed" => Delivery!Dealt
      /\ answer \in Delivery!Answers /\ hook \in [Handlers -> Delivery!Hook]
      /\ Delivery!TypeOK
  BY DeliveryStart DEF Delivery!MarkProcessed, Delivery!MarkFailed
<1>2. UNCHANGED <<lock, claimed, settled, mail>>
  BY DEF Delivery!MarkProcessed, Delivery!MarkFailed
<1>3. ~Delivery!AtReceipt(h)
  BY <1>1 DEF Delivery!AtReceipt
<1>4. ASSUME NEW q \in Delivery!Hook, hook' = [hook EXCEPT ![h] = q],
             q.stage \in {"release", "unmark"}, q.ok => Delivery!Dealt,
             row' \in {row, "open", "processed"},
             row' = "processed" => row = "processed" \/ Delivery!Dealt,
             answer' \in Delivery!Answers, answer.failed => answer'.failed,
             answer'.acked = answer.acked, answer'.skipped = answer.skipped,
             answer'.refused = answer.refused,
             answer'.failed \/ (q.ok /\ q.stage = "release")
      PROVE  Delivery!IInv'
  <2>1. Delivery!Dealt' = Delivery!Dealt
    BY <1>2, <1>4 DEF Delivery!Dealt
  <2>2. Delivery!HookOK(q)'
    BY <1>4, <2>1 DEF Delivery!HookOK
  <2>3. q.stage \in Delivery!Working
    BY <1>4 DEF Delivery!Working
  <2> QED BY <1>1, <1>2, <1>3, <1>4, <2>1, <2>2, <2>3, DeliveryStepKeeps
<1>5. CASE /\ Delivery!MarkProcessed(h) /\ row' = "processed" /\ UNCHANGED answer
           /\ hook' = [hook EXCEPT ![h].stage = "release", ![h].ok = TRUE]
  <2>1. PICK q: q = [hook[h] EXCEPT !.stage = "release", !.ok = TRUE]
    OBVIOUS
  <2>2. q \in Delivery!Hook /\ q.stage = "release" /\ q.ok
    BY <1>1, <2>1 DEF Delivery!Hook, Delivery!Working
  <2>3. hook' = [hook EXCEPT ![h] = q]
    BY <1>1, <1>5, <2>1
  <2>4. Delivery!Dealt
    BY <1>1, <1>5 DEF Delivery!HookOK, Delivery!MarkProcessed
  <2> QED BY <1>1, <1>4, <1>5, <2>2, <2>3, <2>4
<1>6. CASE Delivery!Go(h, "unmark") /\ answer' = Delivery!Failed /\ UNCHANGED row
  <2>1. PICK q \in Delivery!Hook: /\ hook' = [hook EXCEPT ![h] = q]
                                  /\ q.stage = "unmark" /\ q.ok = hook[h].ok
    BY <1>1, <1>6, DeliveryGoes DEF Delivery!Working
  <2> QED BY <1>1, <1>4, <1>6, <2>1, DeliveryFailedFacts DEF Delivery!HookOK
<1>7. CASE Delivery!MarkFailed(h)
  <2>1. PICK q \in Delivery!Hook: /\ hook' = [hook EXCEPT ![h] = q]
                                  /\ q.stage = "release" /\ q.ok = hook[h].ok
    BY <1>1, <1>7, DeliveryGoes DEF Delivery!Working, Delivery!MarkFailed
  <2>2. answer.failed /\ answer' = answer
    BY <1>1, <1>7 DEF Delivery!HookOK, Delivery!MarkFailed
  <2>3. row' \in {row, "open"}
    BY <1>7 DEF Delivery!MarkFailed
  <2> QED BY <1>1, <1>4, <2>1, <2>2, <2>3 DEF Delivery!HookOK
<1> QED BY <1>5, <1>6, <1>7 DEF Delivery!MarkProcessed

LEMMA DeliveryReleaseKeeps ==
  ASSUME Delivery!IInv, NEW h \in Handlers, Delivery!ReleaseLock(h)
  PROVE  Delivery!IInv'
<1>1. /\ hook[h] \in Delivery!Hook /\ Delivery!HookOK(hook[h])
      /\ hook[h].stage = "release"
      /\ row \in {"none", "open", "processed"} /\ settled \in BOOLEAN
      /\ row = "processed" => Delivery!Dealt
      /\ answer \in Delivery!Answers /\ hook \in [Handlers -> Delivery!Hook]
  BY DeliveryStart DEF Delivery!ReleaseLock
<1>2. UNCHANGED <<row, claimed, settled, mail>>
  BY DEF Delivery!ReleaseLock
<1>3. ~Delivery!AtReceipt(h)
  BY <1>1 DEF Delivery!AtReceipt
<1>4. answer' = [answer EXCEPT !.acked = answer.acked \/ hook[h].ok]
  BY DEF Delivery!ReleaseLock, Delivery!AnsweredWell
<1>5. /\ answer' \in Delivery!Answers
      /\ answer'.acked = (answer.acked \/ hook[h].ok)
      /\ answer'.skipped = answer.skipped /\ answer'.refused = answer.refused
      /\ answer'.failed = answer.failed
  BY <1>1, <1>4 DEF Delivery!Answers, Delivery!Hook
<1>6. Delivery!Dealt' = Delivery!Dealt /\ (hook[h].ok => Delivery!Dealt) /\ (hook[h].ok \/ answer.failed)
  BY <1>1, <1>2, <1>5 DEF Delivery!HookOK, Delivery!Dealt
<1>7. PICK q \in Delivery!Hook: hook' = [hook EXCEPT ![h] = q] /\ q.stage = "idle" /\ ~q.ok
  BY DeliveryEnding DEF Delivery!ReleaseLock
<1>8. Delivery!HookOK(q)'
  BY <1>7 DEF Delivery!HookOK
<1>9. lock' \in {lock, Nothing} /\ (lock' = h => lock = h)
  BY PlatformAssumption DEF Delivery!ReleaseLock, Delivery!Lease!Release,
     Delivery!Lease!OutOfReach
<1>10. q.stage \notin {"send", "giveback"}
  BY <1>7
<1> QED
  BY <1>1, <1>2, <1>3, <1>5, <1>6, <1>7, <1>8, <1>9, <1>10, DeliveryStepKeeps

\* A step of the request that mails the receipt or begins to: the event was
\* dealt with before, or the request fails.
LEMMA DeliveryMailKeeps ==
  ASSUME Delivery!IInv, NEW h \in Handlers, NEW q \in Delivery!Hook,
         hook' = [hook EXCEPT ![h] = q],
         q.stage \in {"idle", "send", "giveback", "mark", "unmark"},
         q.ok => hook[h].ok,
         UNCHANGED <<row, lock, settled>>,
         \/ answer' = answer /\ Delivery!Dealt /\ q.stage # "unmark"
         \/ answer' = Delivery!Failed /\ q.stage \in {"unmark", "idle"},
         claimed' \in BOOLEAN, mail' \in Delivery!Mails,
         Delivery!AtReceipt(h) \/ ~claimed,
         q.stage \in {"send", "giveback"} => claimed' /\ mail'.sent <= mail'.unclear,
         mail'.sent <= mail'.unclear + (IF claimed' THEN 1 ELSE 0),
         claimed' => \/ mail'.sent > 0
                     \/ mail'.stuck
                     \/ q.stage \in {"send", "giveback"}
  PROVE  Delivery!IInv'
<1>1. /\ Delivery!HookOK(hook[h]) /\ answer \in Delivery!Answers
      /\ Delivery!TypeOK
      /\ row = "processed" => Delivery!Dealt
      /\ lock \in Handlers \cup {Nothing}
  BY DeliveryStart
<1>2. /\ answer' \in Delivery!Answers /\ answer'.acked = answer.acked
      /\ answer'.skipped = answer.skipped /\ answer'.refused = answer.refused
      /\ answer.failed => answer'.failed
      /\ answer' = Delivery!Failed => answer'.failed
  BY <1>1, DeliveryFailedFacts
<1>3. Delivery!Dealt' = Delivery!Dealt /\ (Delivery!Dealt \/ answer'.failed)
  BY <1>2 DEF Delivery!Dealt
<1>4. Delivery!HookOK(q)'
  BY <1>1, <1>2, <1>3 DEF Delivery!HookOK
<1>5. (\A g \in Handlers: Delivery!HookOK(hook[g])') /\ Delivery!EventOK'
  BY <1>1, <1>2, <1>3, <1>4, DeliveryEventKeeps
<1>6. Delivery!ReceiptOK'
  BY DeliveryOwnReceipt
<1>7. Delivery!TypeOK'
  BY <1>1, <1>2, DeliveryHookMoves DEF Delivery!TypeOK,
     Delivery!Lease!LockType, Delivery!Answers, Delivery!Mails
<1> QED BY <1>5, <1>6, <1>7 DEF Delivery!IInv

LEMMA DeliveryReceiptFacts ==
  ASSUME Delivery!IInv
  PROVE  /\ mail.sent <= mail.unclear + (IF claimed THEN 1 ELSE 0)
         /\ \A h \in Handlers: Delivery!AtReceipt(h) => claimed /\ mail.sent <= mail.unclear
         /\ claimed => \/ mail.sent > 0
                       \/ mail.stuck
                       \/ \E h \in Handlers: Delivery!AtReceipt(h)
BY DEF Delivery!IInv, Delivery!ReceiptOK, Delivery!ReceiptIsMailed,
   Delivery!AtReceipt

LEMMA DeliveryClaimKeeps ==
  ASSUME Delivery!IInv, NEW h \in Handlers,
         Delivery!ClaimReceipt(h) \/ Delivery!ClaimFails(h)
  PROVE  Delivery!IInv'
<1>1. /\ hook[h] \in Delivery!Hook /\ Delivery!HookOK(hook[h])
      /\ hook[h].stage = "receipt"
      /\ row \in {"none", "open", "processed"} /\ settled \in BOOLEAN
      /\ row = "processed" => Delivery!Dealt
      /\ claimed \in BOOLEAN /\ mail \in Delivery!Mails
      /\ answer \in Delivery!Answers /\ hook \in [Handlers -> Delivery!Hook]
      /\ Delivery!TypeOK
  BY DeliveryStart DEF Delivery!ClaimReceipt, Delivery!ClaimFails
<1>2. UNCHANGED <<row, lock, settled>> /\ Delivery!Dealt
  BY <1>1 DEF Delivery!ClaimReceipt, Delivery!ClaimFails, Delivery!HookOK
<1>3. ~Delivery!AtReceipt(h)
  BY <1>1 DEF Delivery!AtReceipt
<1>4. ASSUME NEW q \in Delivery!Hook, hook' = [hook EXCEPT ![h] = q],
             UNCHANGED <<claimed, mail>>,
             q.stage \in {"mark", "unmark", "idle"}, q.ok => hook[h].ok,
             \/ answer' = answer /\ q.stage # "unmark"
             \/ answer' = Delivery!Failed
      PROVE  Delivery!IInv'
  <2>1. /\ answer' \in Delivery!Answers /\ answer'.acked = answer.acked
        /\ answer'.skipped = answer.skipped /\ answer'.refused = answer.refused
        /\ answer.failed => answer'.failed
        /\ q.stage = "unmark" => answer'.failed
    BY <1>1, <1>4, DeliveryFailedFacts
  <2>2. Delivery!Dealt' = Delivery!Dealt
    BY <1>2, <2>1 DEF Delivery!Dealt
  <2>3. Delivery!HookOK(q)'
    BY <1>1, <1>2, <1>4, <2>1, <2>2 DEF Delivery!HookOK
  <2>4. q.stage \notin {"send", "giveback"}
    BY <1>4
  <2> QED BY <1>1, <1>2, <1>3, <1>4, <2>1, <2>2, <2>3, <2>4, DeliveryStepKeeps
<1>5. CASE /\ mail.sends < MaxSends /\ ~claimed
           /\ mail' = [mail EXCEPT !.sends = @ + 1]
           /\ claimed' = TRUE
           /\ Delivery!Go(h, "send") /\ UNCHANGED answer
  <2>1. PICK q \in Delivery!Hook: /\ hook' = [hook EXCEPT ![h] = q]
                                  /\ q.stage = "send" /\ q.ok = hook[h].ok
    BY <1>1, <1>5, DeliveryGoes DEF Delivery!Working
  <2>2. mail.sends + 1 \in 0..MaxSends
    BY <1>1, <1>5, PlatformAssumption DEF Delivery!Mails
  <2>3. /\ mail' \in Delivery!Mails /\ mail'.sent = mail.sent
        /\ mail'.unclear = mail.unclear
    BY <1>1, <1>5, <2>2 DEF Delivery!Mails
  <2>4. mail.sent <= mail.unclear /\ mail.sent \in Nat /\ mail.unclear \in Nat
    BY <1>1, <1>5, DeliveryReceiptFacts DEF Delivery!Mails
  <2>5. mail'.sent <= mail'.unclear /\ mail'.sent <= mail'.unclear + 1
    BY <2>3, <2>4
  <2>6. q.stage # "unmark" /\ q.stage \in {"send", "giveback"}
    BY <2>1
  <2> QED BY <1>1, <1>2, <1>5, <2>1, <2>3, <2>5, <2>6, DeliveryMailKeeps
<1>6. CASE Delivery!Continues(h) /\ UNCHANGED <<claimed, mail, answer>>
  <2>1. PICK q \in Delivery!Hook: /\ hook' = [hook EXCEPT ![h] = q]
                                  /\ q.stage \in {"idle", "mark"} /\ (q.ok => hook[h].ok)
    BY <1>1, <1>6, DeliveryContinuing
  <2> QED BY <1>4, <1>6, <2>1
<1>7. CASE Delivery!ClaimFails(h)
  <2>1. PICK q \in Delivery!Hook: /\ hook' = [hook EXCEPT ![h] = q]
                                  /\ q.stage \in {"idle", "unmark"} /\ (q.ok => hook[h].ok)
    BY <1>1, <1>7, DeliveryThrowing DEF Delivery!ClaimFails
  <2> QED BY <1>4, <1>7, <2>1 DEF Delivery!ClaimFails
<1> QED BY <1>5, <1>6, <1>7 DEF Delivery!ClaimReceipt, Delivery!Claimable

LEMMA DeliverySendKeeps ==
  ASSUME Delivery!IInv, NEW h \in Handlers, Delivery!SendReceipt(h)
  PROVE  Delivery!IInv'
<1>1. /\ hook[h] \in Delivery!Hook /\ Delivery!HookOK(hook[h])
      /\ hook[h].stage = "send"
      /\ claimed \in BOOLEAN /\ mail \in Delivery!Mails
      /\ mail.sent \in Nat /\ mail.unclear \in Nat /\ Delivery!TypeOK
  BY DeliveryStart DEF Delivery!SendReceipt, Delivery!Mails
<1>2. /\ UNCHANGED <<row, lock, settled, answer, claimed>> /\ Delivery!Dealt
      /\ Delivery!AtReceipt(h)
  BY <1>1 DEF Delivery!SendReceipt, Delivery!HookOK, Delivery!AtReceipt
<1>3. claimed /\ mail.sent <= mail.unclear
  BY <1>2, DeliveryReceiptFacts
<1>4. CASE /\ \/ mail' = [mail EXCEPT !.sent = @ + 1]
              \/ mail' = [mail EXCEPT !.stuck = TRUE]
           /\ Delivery!Continues(h)
  <2>1. PICK q \in Delivery!Hook: /\ hook' = [hook EXCEPT ![h] = q]
                                  /\ q.stage \in {"idle", "mark"} /\ (q.ok => hook[h].ok)
    BY <1>1, <1>4, DeliveryContinuing
  <2>2. /\ mail' \in Delivery!Mails /\ mail'.unclear = mail.unclear
        /\ \/ mail'.sent = mail.sent + 1
           \/ mail'.sent = mail.sent /\ mail'.stuck
    <3>1. CASE mail' = [mail EXCEPT !.stuck = TRUE]
      BY <1>1, <3>1 DEF Delivery!Mails
    <3>2. CASE mail' = [mail EXCEPT !.sent = @ + 1]
      <4>1. mail' = [sends |-> mail.sends, sent |-> mail.sent + 1,
                     unclear |-> mail.unclear, stuck |-> mail.stuck]
        BY <1>1, <3>2 DEF Delivery!Mails
      <4> QED BY <1>1, <4>1 DEF Delivery!Mails
    <3> QED BY <1>4, <3>1, <3>2
  <2>3. mail'.sent <= mail'.unclear + 1 /\ (mail'.sent > 0 \/ mail'.stuck)
    BY <1>1, <1>3, <2>2
  <2>4. q.stage # "unmark" /\ q.stage \notin {"send", "giveback"}
    BY <2>1
  <2> QED BY <1>1, <1>2, <1>3, <2>1, <2>2, <2>3, <2>4, DeliveryMailKeeps
<1>5. CASE /\ \/ UNCHANGED mail
              \/ mail' = [mail EXCEPT !.sent = @ + 1, !.unclear = @ + 1]
           /\ Delivery!Go(h, "giveback")
  <2>1. PICK q \in Delivery!Hook: /\ hook' = [hook EXCEPT ![h] = q]
                                  /\ q.stage = "giveback" /\ q.ok = hook[h].ok
    BY <1>1, <1>5, DeliveryGoes DEF Delivery!Working
  <2>2. /\ mail' \in Delivery!Mails
        /\ \/ mail'.sent = mail.sent /\ mail'.unclear = mail.unclear
           \/ mail'.sent = mail.sent + 1 /\ mail'.unclear = mail.unclear + 1
    <3>1. CASE UNCHANGED mail
      BY <1>1, <3>1
    <3>2. CASE mail' = [mail EXCEPT !.sent = @ + 1, !.unclear = @ + 1]
      <4>1. mail' = [sends |-> mail.sends, sent |-> mail.sent + 1,
                     unclear |-> mail.unclear + 1, stuck |-> mail.stuck]
        BY <1>1, <3>2 DEF Delivery!Mails
      <4> QED BY <1>1, <4>1 DEF Delivery!Mails
    <3> QED BY <1>5, <3>1, <3>2
  <2>3. mail'.sent <= mail'.unclear /\ mail'.sent <= mail'.unclear + 1
    BY <1>1, <1>3, <2>2
  <2>4. q.stage # "unmark" /\ q.stage \in {"send", "giveback"}
    BY <2>1
  <2> QED BY <1>1, <1>2, <1>3, <2>1, <2>2, <2>3, <2>4, DeliveryMailKeeps
<1> QED BY <1>4, <1>5 DEF Delivery!SendReceipt

LEMMA DeliveryGiveBackKeeps ==
  ASSUME Delivery!IInv, NEW h \in Handlers, Delivery!GiveBack(h)
  PROVE  Delivery!IInv'
<1>1. /\ hook[h] \in Delivery!Hook /\ Delivery!HookOK(hook[h])
      /\ hook[h].stage = "giveback"
      /\ claimed \in BOOLEAN /\ mail \in Delivery!Mails
      /\ mail.sent \in Nat /\ mail.unclear \in Nat /\ Delivery!TypeOK
  BY DeliveryStart DEF Delivery!GiveBack, Delivery!Mails
<1>2. /\ UNCHANGED <<row, lock, settled>> /\ Delivery!Dealt
      /\ Delivery!AtReceipt(h)
  BY <1>1 DEF Delivery!GiveBack, Delivery!HookOK, Delivery!AtReceipt
<1>3. claimed /\ mail.sent <= mail.unclear /\ mail.sent <= mail.unclear + 1
  BY <1>1, <1>2, DeliveryReceiptFacts
<1>4. CASE claimed' = Delivery!GivenBack /\ Delivery!Continues(h) /\ UNCHANGED <<answer, mail>>
  <2>1. PICK q \in Delivery!Hook: /\ hook' = [hook EXCEPT ![h] = q]
                                  /\ q.stage \in {"idle", "mark"} /\ (q.ok => hook[h].ok)
    BY <1>1, <1>4, DeliveryContinuing
  <2>2. q.stage # "unmark" /\ q.stage \notin {"send", "giveback"}
    BY <2>1
  <2>3. claimed' = FALSE /\ mail' = mail /\ mail.sent <= mail.unclear + 0
    BY <1>1, <1>3, <1>4 DEF Delivery!GivenBack
  <2> QED BY <1>1, <1>2, <1>3, <1>4, <2>1, <2>2, <2>3, DeliveryMailKeeps
<1>5. CASE /\ mail' = [mail EXCEPT !.stuck = TRUE]
           /\ answer' = Delivery!Failed
           /\ Delivery!Throws(h)
           /\ UNCHANGED claimed
  <2>1. PICK q \in Delivery!Hook: /\ hook' = [hook EXCEPT ![h] = q]
                                  /\ q.stage \in {"idle", "unmark"} /\ (q.ok => hook[h].ok)
    BY <1>1, <1>5, DeliveryThrowing
  <2>2. q.stage \notin {"send", "giveback"}
    BY <2>1
  <2>3. /\ mail' \in Delivery!Mails /\ mail'.sent = mail.sent
        /\ mail'.unclear = mail.unclear
        /\ mail'.stuck
    BY <1>1, <1>5 DEF Delivery!Mails
  <2> QED BY <1>1, <1>2, <1>3, <1>5, <2>1, <2>2, <2>3, DeliveryMailKeeps
<1> QED BY <1>4, <1>5 DEF Delivery!GiveBack

LEMMA DeliveryCrashKeeps ==
  ASSUME Delivery!IInv, NEW h \in Handlers, Delivery!Crash(h)
  PROVE  Delivery!IInv'
<1>1. /\ hook[h] \in Delivery!Hook /\ Delivery!HookOK(hook[h])
      /\ row \in {"none", "open", "processed"} /\ settled \in BOOLEAN
      /\ row = "processed" => Delivery!Dealt
      /\ claimed \in BOOLEAN /\ mail \in Delivery!Mails
      /\ answer \in Delivery!Answers
      /\ mail.sent \in Nat /\ mail.unclear \in Nat /\ Delivery!TypeOK
  BY DeliveryStart DEF Delivery!Mails
<1>2. /\ UNCHANGED <<row, lock, claimed, settled>> /\ answer' = Delivery!Failed
      /\ mail' = [mail EXCEPT !.stuck = mail.stuck \/ Delivery!AtReceipt(h)]
  BY DEF Delivery!Crash, Delivery!AtReceipt
<1>3. PICK q \in Delivery!Hook: hook' = [hook EXCEPT ![h] = q] /\ q.stage = "idle" /\ ~q.ok
  BY DeliveryEnding DEF Delivery!Crash
<1>4. q.stage \notin {"send", "giveback"}
  BY <1>3
<1>5. CASE Delivery!AtReceipt(h)
  <2>1. claimed /\ mail.sent <= mail.unclear /\ mail.sent <= mail.unclear + 1
    BY <1>1, <1>5, DeliveryReceiptFacts
  <2>2. /\ mail' \in Delivery!Mails /\ mail'.sent = mail.sent
        /\ mail'.unclear = mail.unclear
        /\ mail'.stuck
    BY <1>1, <1>2, <1>5 DEF Delivery!Mails
  <2> QED BY <1>1, <1>2, <1>3, <1>4, <1>5, <2>1, <2>2, DeliveryMailKeeps
<1>6. CASE ~Delivery!AtReceipt(h)
  <2>1. mail' = mail
    BY <1>1, <1>2, <1>6 DEF Delivery!Mails
  <2>2. /\ answer' \in Delivery!Answers /\ answer'.failed
        /\ answer'.acked = answer.acked
        /\ answer'.skipped = answer.skipped /\ answer'.refused = answer.refused
    BY <1>1, <1>2, DeliveryFailedFacts
  <2>3. Delivery!Dealt' = Delivery!Dealt
    BY <1>2, <2>2 DEF Delivery!Dealt
  <2>4. Delivery!HookOK(q)'
    BY <1>3 DEF Delivery!HookOK
  <2> QED
    BY <1>1, <1>2, <1>3, <1>4, <1>6, <2>1, <2>2, <2>3, <2>4, DeliveryStepKeeps
<1> QED BY <1>5, <1>6

LEMMA DeliveryRestKeeps ==
  ASSUME Delivery!IInv, UNCHANGED <<row, claimed, hook, settled, answer, mail>>,
         lock' \in {lock, Nothing}
  PROVE  Delivery!IInv'
<1>1. Delivery!TypeOK'
  BY DEF Delivery!IInv, Delivery!TypeOK, Delivery!Lease!LockType
<1>2. \A h \in Handlers: Delivery!HookOK(hook[h])'
  BY DEF Delivery!IInv, Delivery!HookOK, Delivery!Dealt
<1>3. Delivery!EventOK'
  BY DEF Delivery!IInv, Delivery!EventOK, Delivery!AcknowledgedIsSettled,
     Delivery!Dealt
<1>4. Delivery!ReceiptOK'
  BY DEF Delivery!IInv, Delivery!ReceiptOK, Delivery!ReceiptIsMailed,
     Delivery!AtReceipt
<1> QED BY <1>1, <1>2, <1>3, <1>4 DEF Delivery!IInv

LEMMA DeliveryPreserved == Delivery!IInv /\ [Delivery!Next]_deliveryVars => Delivery!IInv'
<1> SUFFICES ASSUME Delivery!IInv, [Delivery!Next]_deliveryVars
             PROVE  Delivery!IInv'
  OBVIOUS
<1>1. ASSUME NEW h \in Handlers,
             \/ Delivery!DeliveryArrives(h) \/ Delivery!CaptureArrives(h)
             \/ Delivery!AcquireLock(h) \/ Delivery!CreateWebhook(h)
             \/ Delivery!ProcessEvent(h) \/ Delivery!ClaimReceipt(h)
             \/ Delivery!ClaimFails(h) \/ Delivery!SendReceipt(h)
             \/ Delivery!GiveBack(h) \/ Delivery!MarkProcessed(h)
             \/ Delivery!MarkFailed(h) \/ Delivery!ReleaseLock(h)
             \/ Delivery!Crash(h)
      PROVE  Delivery!IInv'
  BY <1>1, DeliveryArriveKeeps, DeliveryLockKeeps, DeliveryCreateKeeps,
     DeliveryProcessKeeps, DeliveryClaimKeeps, DeliverySendKeeps,
     DeliveryGiveBackKeeps, DeliveryMarkKeeps, DeliveryReleaseKeeps,
     DeliveryCrashKeeps
<1>2. CASE Delivery!ExpireLock
  BY <1>2, DeliveryRestKeeps DEF Delivery!ExpireLock, Delivery!Lease!Expire
<1>3. CASE UNCHANGED deliveryVars
  BY <1>3, DeliveryRestKeeps DEF deliveryVars
<1> QED BY <1>1, <1>2, <1>3 DEF Delivery!Next

LEMMA DeliveryFollows ==
  ASSUME Delivery!IInv
  PROVE  /\ Delivery!AcknowledgedIsSettled
         /\ Delivery!ReceiptMailedOnce
         /\ Delivery!ReceiptIsMailed
<1>1. mail.sent \in Nat /\ mail.unclear \in Nat /\ claimed \in BOOLEAN
  BY DEF Delivery!IInv, Delivery!TypeOK, Delivery!Mails
<1>2. mail.sent <= mail.unclear + (IF claimed THEN 1 ELSE 0)
  BY DEF Delivery!IInv, Delivery!ReceiptOK
<1>3. Delivery!ReceiptMailedOnce
  BY <1>1, <1>2 DEF Delivery!ReceiptMailedOnce
<1> QED BY <1>3 DEF Delivery!IInv, Delivery!EventOK, Delivery!ReceiptOK

(***************************************************************************)
(* The composition: a step of one part leaves the others where they are.   *)
(***************************************************************************)
\* What holds of the part at work and of those at rest.
EveryPart ==
  /\ part \in Parts
  /\ IInv
  /\ Images!IInv
  /\ Paper!IInv
  /\ AppToken!IInv
  /\ Shop!IInv
  /\ Delivery!IInv

LEMMA PlatformInitially == PlatformInit => EveryPart
BY GatewayInitially, LogoInitially, PdfInitially, TokenInitially,
   CatalogueInitially, DeliveryInitially
   DEF PlatformInit, EveryPart

LEMMA PartsStep ==
  ASSUME [PlatformNext]_PlatformVars
  PROVE  /\ [Next]_vars
         /\ [Images!Next]_imagesVars
         /\ [Paper!Next]_pdfVars
         /\ [AppToken!Next]_tokenVars
         /\ [Shop!Next]_catalogueVars
         /\ [Delivery!Next]_deliveryVars
BY DEF PlatformNext, PlatformVars, GatewayNext, ImagesNext, PdfNext, TokenNext,
       CatalogueNext, DeliveryNext

LEMMA EveryPartHolds == PlatformSpec => []EveryPart
<1>1. EveryPart /\ [PlatformNext]_PlatformVars => EveryPart'
  <2> SUFFICES ASSUME EveryPart, [PlatformNext]_PlatformVars
               PROVE  EveryPart'
    OBVIOUS
  <2>1. IInv' /\ Images!IInv' /\ Paper!IInv'
    BY PartsStep, GatewayPreserved, LogoPreserved, PdfPreserved DEF EveryPart
  <2>2. AppToken!IInv' /\ Shop!IInv' /\ Delivery!IInv'
    BY PartsStep, TokenPreserved, CataloguePreserved, DeliveryPreserved
       DEF EveryPart
  <2>3. part' \in Parts
    BY DEF EveryPart, PlatformNext, PlatformVars, GatewayNext, ImagesNext,
           PdfNext, TokenNext, CatalogueNext, DeliveryNext
  <2> QED BY <2>1, <2>2, <2>3 DEF EveryPart
<1> QED BY <1>1, PlatformInitially, PTL DEF PlatformSpec

\* A row that names a logo names an image that is in the store, also when
\* uploads, confirmations and removals of the same logo cross.
THEOREM NamedLogosAreThere == PlatformSpec => []LogosAreThere
<1>1. EveryPart => LogosAreThere
  BY LogoThere DEF EveryPart, LogosAreThere
<1> QED BY <1>1, EveryPartHolds, PTL

\* The first delivery of a draft attaches the lines that it read, although
\* downloads, edits, cancellations and changes of the logo run between its steps;
\* older lines only reach the first mail of an invoice that was cancelled before
\* it, when an edit that had read the draft was written afterwards.  And an invoice
\* that says it has a PDF has one.
THEOREM FirstMailsAreExact == PlatformSpec => []FirstMailIsExact
<1>1. EveryPart => FirstMailIsExact
  BY DEF EveryPart, FirstMailIsExact, Paper!IInv
<1> QED BY <1>1, EveryPartHolds, PTL

\* A token taken from the cache outlasts the margin, however late the answer
\* that brought it and whichever request filled the cache.
THEOREM CachedTokensLast == PlatformSpec => []CachedTokenLasts
<1>1. EveryPart => CachedTokenLasts
  BY TokenLasts DEF EveryPart, CachedTokenLasts
<1> QED BY <1>1, EveryPartHolds, PTL

\* Invoices refer to rows that exist, a category has one row, and only requests
\* that overlapped leave a shared SKU or a line without its product.
THEOREM CatalogueIsSound == PlatformSpec => []CatalogueHolds
<1>1. EveryPart => CatalogueHolds
  BY DEF EveryPart, CatalogueHolds, Shop!IInv
<1> QED BY <1>1, EveryPartHolds, PTL

\* An event is acknowledged unsettled only for another delivery, which is at
\* work or has failed, although the lock may expire or be out of reach.
THEOREM AcknowledgedIsDealtWith == PlatformSpec => []AcknowledgedIsSettled
<1>1. EveryPart => AcknowledgedIsSettled
  BY DeliveryFollows DEF EveryPart, AcknowledgedIsSettled
<1> QED BY <1>1, EveryPartHolds, PTL

\* However often a payment is reported there is one receipt and another one
\* only for each whose sending looked failed; one that counts as sent was
\* mailed, is being mailed or is stuck.
THEOREM ReceiptsAreMailedOnce == PlatformSpec => []OneReceipt
<1>1. EveryPart => OneReceipt
  BY DeliveryFollows DEF EveryPart, OneReceipt
<1> QED BY <1>1, EveryPartHolds, PTL

=============================================================================
