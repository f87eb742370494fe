------------------------- MODULE VerificationProofs -------------------------
(***************************************************************************)
(* For any number of users, codes and workers: a code's uses are accounted  *)
(* for, whoever is verified has an approved record or a badge given beside, *)
(* and Verification implements BadgeContract.  What needs an invariant is   *)
(* that RevokeCommit writes the record RevokeRead has read, without a lock  *)
(* (meanwhile it was at most revoked already, or erased), and that whoever  *)
(* redeems works with the user as loaded: the requests that have not seen   *)
(* the badge are the uses that can still be spent.                          *)
(***************************************************************************)
EXTENDS Verification, FiniteSetTheorems, SequenceTheorems, TLAPS

\* The record a revocation holds is still one that was approved.
RevokeHolds ==
  \A w \in Workers :
    At(w, "revoking") /\ work[w].latest # 0 =>
      /\ work[w].latest \in DOMAIN records[work[w].user]
      /\ records[work[w].user][work[w].latest].status \in {"approved", "revoked", "erased"}

UsesAccounted ==
  \A c \in Codes : uses[c] <= MaxUses /\ uses[c] = Cardinality(Redemptions(c))

\* The requests of a user that loaded them without the badge.
Unbadged(u) ==
  {w \in Workers : work[w].step = "loaded" /\ work[w].user = u /\ ~work[w].verified}

\* Each of them can spend one use more; without the badge none is spent.
BadgeCounts ==
  \A u \in Users :
    /\ verified[u] => since[u] + Cardinality(Unbadged(u)) <= Cardinality(Workers)
    /\ ~verified[u] => since[u] = 0

VInv == TypeOK /\ UsesAccounted /\ VerifiedHasApproved /\ RevokeHolds /\ BadgeCounts

\* What every step does to the histories: no record is lost, but that it may be
\* erased, none changes what it was granted by, and a decision is changed by
\* nothing but a revocation.
MayTurn(from, to) ==
  \/ from = to
  \/ to = "erased"
  \/ from = "pending" /\ to \in {"approved", "rejected"}
  \/ from = "approved" /\ to = "revoked"

Kept ==
  \A u \in Users : \A i \in DOMAIN records[u] :
    /\ i \in DOMAIN records'[u]
    /\ MayTurn(records[u][i].status, records'[u][i].status)
    /\ records'[u][i].via = records[u][i].via

-----------------------------------------------------------------------------
(* Histories *)

LEMMA HistoryShape ==
  ASSUME NEW h \in Histories
  PROVE  /\ h \in Seq(Record)
         /\ Len(h) \in 0 .. MaxRecords
         /\ DOMAIN h = 1 .. Len(h)
         /\ \A i \in DOMAIN h : h[i] \in Record
<1>1. PICK n \in 0 .. MaxRecords : h \in [1 .. n -> Record]
  BY DEF Histories
<1>2. n \in Nat
  BY VerificationAssumption
<1>3. h \in Seq(Record) /\ Len(h) = n
  BY <1>1, <1>2
<1> QED
  BY <1>1, <1>2, <1>3

LEMMA HistoryAppend ==
  ASSUME NEW h \in Histories, Len(h) < MaxRecords, NEW r \in Record
  PROVE  /\ Append(h, r) \in Histories
         /\ DOMAIN Append(h, r) = 1 .. Len(h) + 1
         /\ \A i \in DOMAIN h : Append(h, r)[i] = h[i]
         /\ Append(h, r)[Len(h) + 1] = r
<1>1. h \in Seq(Record) /\ Len(h) \in Nat /\ DOMAIN h = 1 .. Len(h)
  BY HistoryShape, VerificationAssumption
<1>2. /\ Append(h, r) \in Seq(Record)
      /\ Len(Append(h, r)) = Len(h) + 1
      /\ \A i \in 1 .. Len(h) : Append(h, r)[i] = h[i]
      /\ Append(h, r)[Len(h) + 1] = r
  BY <1>1
<1>3. Append(h, r) \in [1 .. Len(h) + 1 -> Record]
  BY <1>2, LenProperties
<1>4. Len(h) + 1 \in 0 .. MaxRecords
  BY <1>1, VerificationAssumption
<1> QED
  BY <1>1, <1>2, <1>3, <1>4 DEF Histories

\* A history whose records are rewritten one by one.
LEMMA HistoryMap ==
  ASSUME NEW h \in Histories, NEW g, DOMAIN g = DOMAIN h, g = [i \in DOMAIN h |-> g[i]],
         \A i \in DOMAIN h : g[i] \in Record
  PROVE  g \in Histories
<1>1. PICK n \in 0 .. MaxRecords : h \in [1 .. n -> Record]
  BY DEF Histories
<1>2. g \in [1 .. n -> Record]
  BY <1>1
<1> QED
  BY <1>2 DEF Histories

LEMMA DecideType ==
  ASSUME NEW r \in Record, NEW s \in VStatuses \cup {"erased"}
  PROVE  /\ Decide(r, s) \in Record
         /\ Decide(r, s).status = s
         /\ Decide(r, s).via = r.via
<1>1. 0 \in 0 .. ReapplyAfter
  BY VerificationAssumption
<1> QED
  BY <1>1 DEF Record, Decide

LEMMA NewType ==
  ASSUME NEW s \in VStatuses, NEW via \in {"form", "direct"} \cup Codes
  PROVE  New(s, via) \in Record /\ New(s, via).status = s /\ New(s, via).via = via
BY VerificationAssumption DEF Record, New

\* A record is added at the end of one user's history.
LEMMA AddKeeps ==
  ASSUME TypeOK, NEW u \in Users, Room(u), NEW r \in Record, Add(u, r)
  PROVE  /\ records' \in [Users -> Histories]
         /\ Kept
         /\ \A v \in Users \ {u} : records'[v] = records[v]
         /\ \A i \in DOMAIN records[u] : records'[u][i] = records[u][i]
         /\ DOMAIN records[u] = 1 .. Len(records[u])
         /\ DOMAIN records'[u] = DOMAIN records[u] \cup {Len(records[u]) + 1}
         /\ Len(records[u]) + 1 \in 1 .. MaxRecords
         /\ Len(records[u]) + 1 \notin DOMAIN records[u]
         /\ records'[u][Len(records[u]) + 1] = r
<1>1. records \in [Users -> Histories] /\ records[u] \in Histories
  BY DEF TypeOK
<1>2. Len(records[u]) < MaxRecords /\ records'[u] = Append(records[u], r)
  BY <1>1 DEF Room, Add
<1>3. /\ records'[u] \in Histories
      /\ DOMAIN records'[u] = 1 .. Len(records[u]) + 1
      /\ \A i \in DOMAIN records[u] : records'[u][i] = records[u][i]
      /\ records'[u][Len(records[u]) + 1] = r
  BY <1>1, <1>2, HistoryAppend
<1>4. Len(records[u]) \in 0 .. MaxRecords /\ DOMAIN records[u] = 1 .. Len(records[u])
  BY <1>1, HistoryShape
<1>5. \A v \in Users \ {u} : records'[v] = records[v]
  BY <1>1 DEF Add
<1>6. DOMAIN records'[u] = DOMAIN records[u] \cup {Len(records[u]) + 1}
  BY <1>3, <1>4, VerificationAssumption
<1>7. Kept
  BY <1>3, <1>5, <1>6 DEF Kept, MayTurn
<1>8. records' \in [Users -> Histories]
  BY <1>1, <1>3, <1>5 DEF Add
<1> QED
  BY <1>2, <1>3, <1>4, <1>5, <1>6, <1>7, <1>8, VerificationAssumption

\* One record of one user is decided.
DecideAt(u, i, s) == records' = [records EXCEPT ![u][i] = Decide(@, s)]

LEMMA DecideKeeps ==
  ASSUME TypeOK, NEW u \in Users, NEW i \in DOMAIN records[u], NEW s \in VStatuses,
         MayTurn(records[u][i].status, s), DecideAt(u, i, s)
  PROVE  /\ records' \in [Users -> Histories]
         /\ Kept
         /\ \A v \in Users : DOMAIN records'[v] = DOMAIN records[v]
         /\ \A v \in Users : \A j \in DOMAIN records[v] :
              records'[v][j].status = IF v = u /\ j = i THEN s ELSE records[v][j].status
         /\ \A v \in Users : \A j \in DOMAIN records[v] :
              records'[v][j].via = records[v][j].via
<1>1. records \in [Users -> Histories] /\ records[u] \in Histories
  BY DEF TypeOK
<1>2. \A j \in DOMAIN records[u] : records[u][j] \in Record
  BY <1>1, HistoryShape
<1>3. /\ Decide(records[u][i], s) \in Record
      /\ Decide(records[u][i], s).status = s
      /\ Decide(records[u][i], s).via = records[u][i].via
  BY <1>2, DecideType
<1>4. /\ records'[u] = [records[u] EXCEPT ![i] = Decide(records[u][i], s)]
      /\ \A v \in Users \ {u} : records'[v] = records[v]
  BY <1>1 DEF DecideAt
<1>5. /\ DOMAIN records'[u] = DOMAIN records[u]
      /\ records'[u] = [j \in DOMAIN records[u] |-> records'[u][j]]
      /\ \A j \in DOMAIN records[u] :
           records'[u][j] = IF j = i THEN Decide(records[u][i], s) ELSE records[u][j]
  BY <1>4
<1>6. records'[u] \in Histories
  BY <1>1, <1>2, <1>3, <1>5, HistoryMap
<1>7. records' \in [Users -> Histories]
  BY <1>1, <1>4, <1>6 DEF DecideAt
<1>8. /\ \A v \in Users : DOMAIN records'[v] = DOMAIN records[v]
      /\ \A v \in Users : \A j \in DOMAIN records[v] :
           records'[v][j].status = IF v = u /\ j = i THEN s ELSE records[v][j].status
      /\ \A v \in Users : \A j \in DOMAIN records[v] :
           records'[v][j].via = records[v][j].via
  BY <1>3, <1>4, <1>5
<1>9. Kept
  BY <1>8 DEF Kept, MayTurn
<1> QED
  BY <1>7, <1>8, <1>9

\* A code is redeemed: pending applications are approved, a record is added.
LEMMA GrantKeeps ==
  ASSUME TypeOK, NEW u \in Users, Room(u), NEW c \in Codes, Grant(u, c)
  PROVE  /\ records' \in [Users -> Histories]
         /\ Kept
         /\ \A v \in Users \ {u} : records'[v] = records[v]
         /\ \A i \in DOMAIN records[u] : records'[u][i].via = records[u][i].via
         /\ \A i \in DOMAIN records[u] :
              records'[u][i].status = IF records[u][i].status = "pending" THEN "approved"
                                      ELSE records[u][i].status
         /\ DOMAIN records'[u] = DOMAIN records[u] \cup {Len(records[u]) + 1}
         /\ Len(records[u]) + 1 \in 1 .. MaxRecords
         /\ Len(records[u]) + 1 \notin DOMAIN records[u]
         /\ records'[u][Len(records[u]) + 1].status = "approved"
         /\ records'[u][Len(records[u]) + 1].via = c
<1> DEFINE h == records[u]
           granted(i) == IF h[i].status = "pending" THEN Decide(h[i], "approved") ELSE h[i]
           g == [i \in DOMAIN h |-> granted(i)]
           r == New("approved", c)
<1>1. records \in [Users -> Histories] /\ h \in Histories
  BY DEF TypeOK
<1>2. records' = [records EXCEPT ![u] = Append(g, r)] /\ Len(h) < MaxRecords
  BY DEF Grant, Room
<1>3. /\ Len(h) \in 0 .. MaxRecords
      /\ DOMAIN h = 1 .. Len(h)
      /\ \A i \in DOMAIN h : h[i] \in Record
  BY <1>1, HistoryShape
<1>4. \A i \in DOMAIN h : /\ granted(i) \in Record
                          /\ granted(i).via = h[i].via
                          /\ granted(i).status = IF h[i].status = "pending" THEN "approved"
                                                 ELSE h[i].status
                          /\ MayTurn(h[i].status, granted(i).status)
  BY <1>3, DecideType DEF MayTurn, VStatuses
<1>5. /\ DOMAIN g = DOMAIN h
      /\ \A i \in DOMAIN h : g[i] = granted(i)
  OBVIOUS
<1>6. g \in Histories
  <2>1. g = [i \in DOMAIN h |-> g[i]]
    OBVIOUS
  <2> HIDE DEF h, granted, g
  <2> QED
    BY <1>1, <1>4, <1>5, <2>1, HistoryMap
<1>7. r \in Record /\ r.status = "approved" /\ r.via = c
  BY NewType DEF VStatuses
<1>8. Len(g) = Len(h)
  <2> HIDE DEF h, granted, g
  <2> QED
    BY <1>3, <1>5, <1>6, HistoryShape, VerificationAssumption
<1>9. /\ records'[u] = Append(g, r)
      /\ \A v \in Users \ {u} : records'[v] = records[v]
  BY <1>1, <1>2
<1> HIDE DEF h, granted, g, r
<1>10. /\ Append(g, r) \in Histories
       /\ DOMAIN Append(g, r) = 1 .. Len(h) + 1
       /\ \A i \in DOMAIN h : Append(g, r)[i] = granted(i)
       /\ Append(g, r)[Len(h) + 1] = r
  BY <1>2, <1>5, <1>6, <1>7, <1>8, HistoryAppend
<1>11. records' \in [Users -> Histories]
  BY <1>1, <1>2, <1>10
<1>12. DOMAIN records'[u] = DOMAIN h \cup {Len(h) + 1}
  BY <1>3, <1>9, <1>10, VerificationAssumption
<1>13. Kept
  <2>1. \A i \in DOMAIN h : /\ i \in DOMAIN records'[u]
                           /\ records'[u][i] = granted(i)
    BY <1>9, <1>10, <1>12
  <2>2. \A i \in DOMAIN records[u] :
          /\ i \in DOMAIN records'[u]
          /\ MayTurn(records[u][i].status, records'[u][i].status)
          /\ records'[u][i].via = records[u][i].via
    BY <1>4, <2>1 DEF h
  <2> QED
    BY <1>9, <2>2 DEF Kept, MayTurn
<1>14. Len(h) + 1 \in 1 .. MaxRecords /\ Len(h) + 1 \notin DOMAIN h
  BY <1>2, <1>3, VerificationAssumption
<1> QED
  BY <1>4, <1>7, <1>9, <1>10, <1>11, <1>12, <1>13, <1>14 DEF h

-----------------------------------------------------------------------------
(* The parts of the invariant *)

\* A revocation that is under way keeps its record.
LEMMA RevokeHoldsKept ==
  ASSUME TypeOK, RevokeHolds, Kept,
         \A w \in Workers : work'[w].step = "revoking" => work'[w] = work[w]
  PROVE  RevokeHolds'
<1> SUFFICES ASSUME NEW w \in Workers, work'[w].step = "revoking", work'[w].latest # 0
             PROVE  /\ work'[w].latest \in DOMAIN records'[work'[w].user]
                    /\ records'[work'[w].user][work'[w].latest].status
                         \in {"approved", "revoked", "erased"}
  BY DEF RevokeHolds, At
<1>1. work'[w] = work[w] /\ At(w, "revoking") /\ work[w].latest # 0
  BY DEF At
<1>2. work[w].user \in Users
  BY <1>1 DEF TypeOK, Work, Idle, At
<1> QED
  BY <1>1, <1>2 DEF RevokeHolds, Kept, MayTurn

LEMMA RedemptionsFinite ==
  ASSUME NEW c \in Codes
  PROVE  IsFiniteSet(Redemptions(c)) /\ Redemptions(c) \subseteq Users \X (1 .. MaxRecords)
<1>1. IsFiniteSet(Users) /\ IsFiniteSet(1 .. MaxRecords)
  BY VerificationAssumption, FS_Interval
<1>2. IsFiniteSet(Users \X (1 .. MaxRecords))
  BY <1>1, FS_Product
<1>3. Redemptions(c) \in SUBSET (Users \X (1 .. MaxRecords))
  BY DEF Redemptions
<1> QED
  BY <1>2, <1>3, FS_Subset

\* Steps after which no page is open that was not.
NothingOpened ==
  \A w \in Workers :
    work'[w].step \in {"loaded", "admin", "deleting"} => work'[w] = work[w]

LEMMA PagesLeft ==
  ASSUME NothingOpened
  PROVE  Pages' \subseteq Pages
BY DEF NothingOpened, Pages, Open

LEMMA PageOpened ==
  ASSUME TypeOK, NEW w \in Workers, NEW r, Set(w, r)
  PROVE  Pages' \subseteq Pages \cup {PageOf(r)}
<1>1. \A x \in Workers : work'[x] = IF x = w THEN r ELSE work[x]
  BY DEF Set, TypeOK
<1> QED
  BY <1>1 DEF Pages, Open

LEMMA WorkSet ==
  ASSUME TypeOK, NEW w \in Workers, NEW r \in Work, Set(w, r),
         r.step \in {"idle", "apply", "revoke"}
  PROVE  /\ NothingOpened
         /\ \A x \in Workers : work'[x].step = "revoking" => work'[x] = work[x]
<1>1. \A x \in Workers : work'[x] = IF x = w THEN r ELSE work[x]
  BY DEF Set, TypeOK
<1> QED
  BY <1>1 DEF NothingOpened

LEMMA UnbadgedFinite ==
  ASSUME NEW S \in SUBSET Workers
  PROVE  /\ IsFiniteSet(S) /\ Cardinality(S) \in Nat /\ Cardinality(Workers) \in Nat
         /\ Cardinality(S) <= Cardinality(Workers)
         /\ \A T \in SUBSET S : Cardinality(T) <= Cardinality(S)
<1>1. IsFiniteSet(Workers)
  BY VerificationAssumption
<1> QED
  BY <1>1, FS_Subset, FS_CardinalityType

\* A badge is given or taken, or nobody's, and no page loads anybody without.
LEMMA CountsKept ==
  ASSUME TypeOK, BadgeCounts, NothingOpened, NEW u \in Users,
         \A v \in Users \ {u} : verified'[v] = verified[v] /\ since'[v] = since[v],
         IF verified'[u] THEN since'[u] = since[u] ELSE since'[u] = 0
  PROVE  BadgeCounts'
<1> SUFFICES ASSUME NEW v \in Users
             PROVE  /\ verified'[v] => since'[v] + Cardinality(Unbadged(v)') <= Cardinality(Workers)
                    /\ ~verified'[v] => since'[v] = 0
  BY DEF BadgeCounts
<1>1. /\ Unbadged(v) \in SUBSET Workers
      /\ Unbadged(v)' \in SUBSET Unbadged(v)
      /\ Unbadged(v)' \in SUBSET Workers
  BY DEF Unbadged, NothingOpened
<1> DEFINE had == Cardinality(Unbadged(v))
           has == Cardinality(Unbadged(v)')
           all == Cardinality(Workers)
<1>2. had \in Nat /\ has \in Nat /\ all \in Nat /\ has <= had /\ has <= all
  BY <1>1, UnbadgedFinite
<1>3. since[v] \in Nat
  BY DEF TypeOK
<1>4. /\ verified[v] => since[v] + had <= all
      /\ ~verified[v] => since[v] = 0
  BY DEF BadgeCounts
<1> HIDE DEF had, has, all
<1>5. ~verified'[v] => since'[v] = 0
  BY <1>4
<1>6. verified'[v] => since'[v] = since[v]
  OBVIOUS
<1>7. verified'[v] => since'[v] + has <= all
  BY <1>2, <1>3, <1>4, <1>6
<1> QED
  BY <1>5, <1>7 DEF has, all

LEMMA CountsUnmoved ==
  ASSUME TypeOK, BadgeCounts, NothingOpened, UNCHANGED <<verified, since>>
  PROVE  BadgeCounts'
<1>1. CASE Users = {}
  BY <1>1 DEF BadgeCounts
<1>2. ASSUME NEW u \in Users PROVE BadgeCounts'
  <2>1. IF verified'[u] THEN since'[u] = since[u] ELSE since'[u] = 0
    BY DEF BadgeCounts
  <2> QED
    BY <2>1, CountsKept
<1> QED
  BY <1>1, <1>2

LEMMA FewerUnbadged ==
  ASSUME TypeOK, BadgeCounts, UNCHANGED <<verified, since>>,
         \A v \in Users : Unbadged(v)' \in SUBSET Unbadged(v)
  PROVE  BadgeCounts'
<1> SUFFICES ASSUME NEW v \in Users, verified[v]
             PROVE  since[v] + Cardinality(Unbadged(v)') <= Cardinality(Workers)
  BY DEF BadgeCounts
<1>1. Unbadged(v) \in SUBSET Workers
  BY DEF Unbadged
<1>2. Unbadged(v)' \in SUBSET Workers
  BY <1>1
<1> DEFINE had == Cardinality(Unbadged(v))
           has == Cardinality(Unbadged(v)')
           all == Cardinality(Workers)
<1>3. had \in Nat /\ has \in Nat /\ all \in Nat /\ has <= had
  BY <1>1, <1>2, UnbadgedFinite
<1>4. since[v] \in Nat /\ since[v] + had <= all
  BY DEF TypeOK, BadgeCounts
<1> HIDE DEF had, has, all
<1>5. since[v] + has <= all
  BY <1>3, <1>4
<1> QED
  BY <1>5 DEF has, all

SameCodes == \A u \in Users, c \in Codes : RedeemedWith(u, c)' = RedeemedWith(u, c)

\* A step that touches no code's records leaves the account as it is.
LEMMA AccountKept ==
  ASSUME UsesAccounted, SameCodes, uses' = uses
  PROVE  UsesAccounted'
<1>1. \A c \in Codes : Redemptions(c)' = Redemptions(c)
  BY DEF SameCodes, Redemptions
<1> QED
  BY <1>1 DEF UsesAccounted

LEMMA SameCodesByVia ==
  ASSUME NEW u \in Users,
         \A v \in Users \ {u} : records'[v] = records[v],
         DOMAIN records'[u] = DOMAIN records[u],
         \A i \in DOMAIN records[u] : records'[u][i].via = records[u][i].via
  PROVE  SameCodes
BY DEF SameCodes, RedeemedWith

LEMMA SameCodesAdded ==
  ASSUME NEW u \in Users, NEW n,
         \A v \in Users \ {u} : records'[v] = records[v],
         DOMAIN records'[u] = DOMAIN records[u] \cup {n}, n \notin DOMAIN records[u],
         \A i \in DOMAIN records[u] : records'[u][i] = records[u][i],
         records'[u][n].via \notin Codes
  PROVE  SameCodes
BY DEF SameCodes, RedeemedWith

-----------------------------------------------------------------------------
(* Rulings: what a step does to the histories, as BadgeContract sees it *)

Moves == [Contract!Next]_(Contract!vars)

LEMMA RulingsRead ==
  ASSUME TypeOK, NEW u \in Users
  PROVE  /\ DOMAIN records[u] \subseteq 1 .. MaxRecords
         /\ \A i \in DOMAIN records[u] : Ruling(u, i) = records[u][i].status
         /\ \A i : i \notin DOMAIN records[u] => Ruling(u, i) = "none"
         /\ Contract!Waiting(u) = {<<u, i>> : i \in Having(u, "pending")}
<1>1. DOMAIN records[u] \subseteq 1 .. MaxRecords
  BY HistoryShape, VerificationAssumption DEF TypeOK
<1>2. \A i \in 1 .. MaxRecords : Ruling(u, i) = "pending" <=> i \in Having(u, "pending")
  BY DEF Ruling, Having
<1>3. Having(u, "pending") \subseteq 1 .. MaxRecords
  BY <1>1 DEF Having
<1>4. Contract!Waiting(u) = {<<u, i>> : i \in Having(u, "pending")}
  BY <1>2, <1>3 DEF Contract!Waiting, Contract!RecordsOf
<1> QED
  BY <1>1, <1>4 DEF Ruling

\* The records rs are ruled on, one by one.
LEMMA Ruled ==
  ASSUME NEW rs, NEW s,
         \A v \in Users, j \in 1 .. MaxRecords :
           Ruling(v, j)' = IF <<v, j>> \in rs THEN s ELSE Ruling(v, j)
  PROVE  Contract!Rule(rs, s)
BY DEF Contract!Rule, Contract!Records

\* A record is added, and nothing else ruled on.
LEMMA RuledOnNew ==
  ASSUME TypeOK, NEW u \in Users, NEW n \in 1 .. MaxRecords, NEW s,
         \A v \in Users \ {u} : records'[v] = records[v],
         DOMAIN records'[u] = DOMAIN records[u] \cup {n}, n \notin DOMAIN records[u],
         \A j \in DOMAIN records[u] : records'[u][j] = records[u][j],
         records'[u][n].status = s
  PROVE  Contract!Rule({<<u, n>>}, s) /\ Ruling(u, n) = "none"
<1>1. ASSUME NEW v \in Users, NEW j \in 1 .. MaxRecords
      PROVE  Ruling(v, j)' = IF <<v, j>> \in {<<u, n>>} THEN s ELSE Ruling(v, j)
  BY DEF Ruling
<1> QED
  BY <1>1, Ruled DEF Ruling

\* A record that exists is ruled on.
LEMMA RuledOnOne ==
  ASSUME NEW u \in Users, NEW i \in DOMAIN records[u], NEW s,
         \A v \in Users : DOMAIN records'[v] = DOMAIN records[v],
         \A v \in Users : \A j \in DOMAIN records[v] :
           records'[v][j].status = IF v = u /\ j = i THEN s ELSE records[v][j].status
  PROVE  Contract!Rule({<<u, i>>}, s)
<1>1. ASSUME NEW v \in Users, NEW j \in 1 .. MaxRecords
      PROVE  Ruling(v, j)' = IF <<v, j>> \in {<<u, i>>} THEN s ELSE Ruling(v, j)
  BY DEF Ruling
<1> QED
  BY <1>1, Ruled

\* Without a record of a code, nothing is spent.
LEMMA NothingSpent ==
  ASSUME SameCodes
  PROVE  UNCHANGED [c \in Codes |-> Redemptions(c)]
<1>1. \A c \in Codes : Redemptions(c)' = Redemptions(c)
  BY DEF SameCodes, Redemptions
<1> QED
  BY <1>1

\* Where no record changes its status.
LEMMA SameRulings ==
  ASSUME \A u \in Users :
           /\ DOMAIN records'[u] = DOMAIN records[u]
           /\ \A i \in DOMAIN records[u] : records'[u][i].status = records[u][i].status
  PROVE  UNCHANGED [r \in Users \X (1 .. MaxRecords) |-> Ruling(r[1], r[2])]
<1>1. \A u \in Users, i \in 1 .. MaxRecords : Ruling(u, i)' = Ruling(u, i)
  BY DEF Ruling
<1> QED
  BY <1>1

\* And nobody's badge, at most a page is left.
LEMMA Unseen ==
  ASSUME SameCodes, verified' = verified, NothingOpened,
         \A u \in Users :
           /\ DOMAIN records'[u] = DOMAIN records[u]
           /\ \A i \in DOMAIN records[u] : records'[u][i].status = records[u][i].status
  PROVE  Moves
<1>1. UNCHANGED {u \in Users : verified[u]}
  OBVIOUS
<1>2. Contract!Left
  BY <1>1, SameRulings, NothingSpent, PagesLeft DEF Contract!Left
<1> QED
  BY <1>2 DEF Moves, Contract!Next

LEMMA InitBadges == Init => Contract!Init
<1> SUFFICES ASSUME Init PROVE Contract!Init
  OBVIOUS
<1>1. {u \in Users : verified[u]} = {}
  BY DEF Init
<1>2. \A u \in Users, i \in 1 .. MaxRecords : Ruling(u, i) = "none"
  BY DEF Init, Ruling
<1>3. \A c \in Codes : Redemptions(c) = {}
  BY DEF Init, Redemptions, RedeemedWith
<1>4. Pages = {}
  BY DEF Init, Pages, Open, Idle
<1> QED
  BY <1>1, <1>2, <1>3, <1>4 DEF Contract!Init, Contract!Records

-----------------------------------------------------------------------------
(* The steps *)

\* A redemption counts one use and leaves one record.
LEMMA RedeemAccounted ==
  ASSUME TypeOK, UsesAccounted, NEW w \in Workers, NEW c \in Codes, Redeem(w, c),
         NEW u \in Users, u = work[w].user
  PROVE  /\ UsesAccounted'
         /\ Contract!Redeem(u, c)
<1> DEFINE n == Len(records[u]) + 1
<1> HIDE DEF n
<1>2. /\ \A v \in Users \ {u} : records'[v] = records[v]
      /\ \A i \in DOMAIN records[u] :
           /\ records'[u][i].via = records[u][i].via
           /\ records'[u][i].status = IF records[u][i].status = "pending" THEN "approved"
                                      ELSE records[u][i].status
      /\ DOMAIN records'[u] = DOMAIN records[u] \cup {n}
      /\ n \in 1 .. MaxRecords
      /\ n \notin DOMAIN records[u]
      /\ records'[u][n].via = c /\ records'[u][n].status = "approved"
  BY GrantKeeps DEF n, Redeem
<1>3. uses[c] \in Nat /\ uses[c] < MaxUses /\ uses' = [uses EXCEPT ![c] = uses[c] + 1]
  BY DEF Redeem, Usable, TypeOK
<1>4. Redemptions(c)' = Redemptions(c) \cup {<<u, n>>} /\ <<u, n>> \notin Redemptions(c)
  BY <1>2 DEF Redemptions, RedeemedWith
<1>5. Cardinality(Redemptions(c)') = Cardinality(Redemptions(c)) + 1
  BY <1>4, RedemptionsFinite, FS_AddElement
<1>6. \A d \in Codes \ {c} : Redemptions(d)' = Redemptions(d) /\ uses'[d] = uses[d]
  BY <1>2, <1>3 DEF Redemptions, RedeemedWith, TypeOK
<1>7. uses'[c] = uses[c] + 1
  BY <1>3 DEF TypeOK
<1>8. uses'[c] <= MaxUses /\ uses'[c] = Cardinality(Redemptions(c)')
  BY <1>3, <1>5, <1>7, VerificationAssumption DEF UsesAccounted
<1>9. UsesAccounted'
  BY <1>6, <1>8 DEF UsesAccounted
<1>10. Cardinality(Redemptions(c)) < MaxUses
  BY <1>3 DEF UsesAccounted
<1>11. [d \in Codes |-> Redemptions(d)]'
         = [[d \in Codes |-> Redemptions(d)] EXCEPT ![c] = @ \cup {<<u, n>>}]
  <2>1. \A d \in Codes :
          Redemptions(d)' = IF d = c THEN Redemptions(c) \cup {<<u, n>>} ELSE Redemptions(d)
    BY <1>4, <1>6
  <2> QED
    BY <2>1
<1>12. Ruling(u, n) = "none" /\ Contract!Rule({<<u, n>>} \cup Contract!Waiting(u), "approved")
  <2>1. Contract!Waiting(u) = {<<u, i>> : i \in Having(u, "pending")}
    BY RulingsRead
  <2>2. ASSUME NEW v \in Users, NEW j \in 1 .. MaxRecords
        PROVE  Ruling(v, j)' = IF <<v, j>> \in {<<u, n>>} \cup Contract!Waiting(u)
                               THEN "approved" ELSE Ruling(v, j)
    <3>1. <<v, j>> \in Contract!Waiting(u) <=> v = u /\ j \in Having(u, "pending")
      BY <2>1
    <3> QED
      BY <1>2, <3>1 DEF Ruling, Having
  <2> QED
    BY <1>2, <2>2, Ruled DEF Ruling
<1>13. {v \in Users : verified[v]}' = {v \in Users : verified[v]} \cup {u}
  BY DEF Redeem, Decided, SetBadge, TypeOK
<1>14. <<u, "without">> \in Pages
  <2>1. w \in Open /\ work[w].step = "loaded" /\ ~work[w].verified
    BY DEF Redeem, At, Open
  <2>2. PageOf(work[w]) = <<u, "without">>
    BY <2>1 DEF PageOf
  <2> QED
    BY <2>1, <2>2 DEF Pages
<1>15. Contract!Redeem(u, c)
  <2> DEFINE given == [d \in Codes |-> Redemptions(d)]
             rulings == [r \in Users \X (1 .. MaxRecords) |-> Ruling(r[1], r[2])]
  <2>1. <<u, n>> \in Contract!RecordsOf(u) /\ <<u, n>> \in Users \X (1 .. MaxRecords)
    BY <1>2 DEF Contract!RecordsOf
  <2>2. Contract!Cardinality(given[c]) < MaxUses
    <3>1. Contract!Cardinality(given[c]) = Cardinality(given[c])
      BY DEF Contract!Cardinality, Cardinality, Contract!IsFiniteSet, IsFiniteSet
    <3> QED
      BY <1>10, <3>1
  <2>3. rulings[<<u, n>>] = "none"
    BY <1>12, <2>1
  <2>4. given' = [given EXCEPT ![c] = @ \cup {<<u, n>>}]
    BY <1>11
  <2>5. \E r \in Contract!RecordsOf(u) :
          /\ rulings[r] = "none"
          /\ Contract!Rule({r} \cup Contract!Waiting(u), "approved")
          /\ given' = [given EXCEPT ![c] = @ \cup {r}]
    BY <1>12, <2>1, <2>3, <2>4, Zenon
  <2> QED
    BY <1>13, <1>14, <2>2, <2>5 DEF Contract!Redeem, Contract!Badge
<1> QED
  BY <1>9, <1>15

\* A redemption spends one of the uses that the requests without the badge can.
LEMMA RedeemCounted ==
  ASSUME TypeOK, BadgeCounts, NEW w \in Workers, NEW c \in Codes, Redeem(w, c)
  PROVE  BadgeCounts'
<1>1. PICK u \in Users : u = work[w].user
  BY DEF Redeem, TypeOK, Work, Idle, At
<1>2. /\ work' = [work EXCEPT ![w] = Idle]
      /\ verified' = [verified EXCEPT ![u] = TRUE]
      /\ since' = [since EXCEPT ![u] = since[u] + 1]
  BY <1>1 DEF Redeem, Set, Decided, SetBadge
<1>3. \A x \in Workers : work'[x] = IF x = w THEN Idle ELSE work[x]
  BY <1>2 DEF TypeOK
<1>4. Unbadged(u) \in SUBSET Workers /\ w \in Unbadged(u)
  BY <1>1 DEF Unbadged, Redeem, At
<1>5. Unbadged(u)' = Unbadged(u) \ {w}
  BY <1>3 DEF Unbadged, Idle
<1> DEFINE had == Cardinality(Unbadged(u))
           has == Cardinality(Unbadged(u)')
           all == Cardinality(Workers)
<1>6. had \in Nat /\ all \in Nat /\ had <= all /\ has = had - 1
  BY <1>4, <1>5, UnbadgedFinite, FS_RemoveElement
<1>7. since[u] \in Nat /\ since'[u] = since[u] + 1 /\ verified'[u]
  BY <1>2 DEF TypeOK
<1>8. /\ verified[u] => since[u] + had <= all
      /\ ~verified[u] => since[u] = 0
  BY DEF BadgeCounts
<1> HIDE DEF had, has, all
<1>9. since'[u] + has <= all
  BY <1>6, <1>7, <1>8
<1>10. \A v \in Users \ {u} :
         /\ verified'[v] = verified[v] /\ since'[v] = since[v]
         /\ Unbadged(v)' = Unbadged(v)
  BY <1>1, <1>2, <1>3, <1>4 DEF TypeOK, Unbadged, Idle
<1>11. \A v \in Users \ {u} :
         Cardinality(Unbadged(v)') = Cardinality(Unbadged(v))
  BY <1>10
<1> QED
  BY <1>7, <1>9, <1>10, <1>11 DEF BadgeCounts, has, all

LEMMA InitV == Init => VInv
<1> SUFFICES ASSUME Init PROVE VInv
  OBVIOUS
<1>1. <<>> \in Histories
  <2>1. 0 \in 0 .. MaxRecords /\ <<>> \in [1 .. 0 -> Record]
    BY VerificationAssumption
  <2> QED
    BY <2>1 DEF Histories
<1>2. TypeOK
  BY <1>1 DEF Init, TypeOK, Work
<1>3. \A c \in Codes : Redemptions(c) = {}
  BY DEF Init, Redemptions, RedeemedWith
<1>4. UsesAccounted
  <2>1. \A c \in Codes : uses[c] = 0
    BY DEF Init
  <2>2. 0 <= MaxUses /\ Cardinality({}) = 0
    BY FS_EmptySet, VerificationAssumption
  <2> QED
    BY <1>3, <2>1, <2>2 DEF UsesAccounted
<1>5. BadgeCounts
  BY DEF Init, BadgeCounts
<1> QED
  BY <1>2, <1>4, <1>5 DEF Init, VInv, VerifiedHasApproved, RevokeHolds, At, Idle

\* Nothing but the work of one worker changes, to a step that holds no record
\* and shows no page.
LEMMA QuietStep ==
  ASSUME VInv, NEW w \in Workers, NEW r \in Work, Set(w, r),
         r.step \in {"idle", "apply", "revoke"},
         UNCHANGED <<verified, records, uses, valid, closed, beside, since>>
  PROVE  VInv' /\ Moves
<1>1. TypeOK'
  BY DEF VInv, TypeOK, Set
<1>2. Kept
  BY DEF Kept, MayTurn
<1>3. NothingOpened /\ \A x \in Workers : work'[x].step = "revoking" => work'[x] = work[x]
  BY WorkSet DEF VInv
<1>4. RevokeHolds'
  BY <1>2, <1>3, RevokeHoldsKept DEF VInv
<1>5. SameCodes
  BY DEF SameCodes, RedeemedWith
<1>6. UsesAccounted'
  BY <1>5, AccountKept DEF VInv
<1>7. VerifiedHasApproved'
  BY DEF VInv, VerifiedHasApproved, Having
<1>8. Moves
  BY <1>3, <1>5, Unseen
<1>9. BadgeCounts'
  BY <1>3, CountsUnmoved DEF VInv
<1> QED
  BY <1>1, <1>4, <1>6, <1>7, <1>8, <1>9 DEF VInv

\* A page is opened: the contract says which.
LEMMA PageStep ==
  ASSUME VInv, NEW w \in Workers, NEW r \in Work, Set(w, r), r.step # "revoking",
         UNCHANGED <<verified, records, uses, valid, closed, beside, since>>,
         BadgeCounts', NEW u \in Users,
         \/ r.user = u /\ PageOf(r) \in {<<u, Contract!Seen(u)>>, <<u, "set">>}
         \/ /\ {<<u, "with">>, <<u, "without">>} \cap Pages # {}
            /\ PageOf(r) = <<u, "leave">>
  PROVE  VInv' /\ Moves
<1>1. TypeOK'
  BY DEF VInv, TypeOK, Set
<1>2. Kept
  BY DEF Kept, MayTurn
<1>3. \A x \in Workers : work'[x].step = "revoking" => work'[x] = work[x]
  BY DEF VInv, TypeOK, Set
<1>4. RevokeHolds'
  BY <1>2, <1>3, RevokeHoldsKept DEF VInv
<1>5. SameCodes
  BY DEF SameCodes, RedeemedWith
<1>6. UsesAccounted'
  BY <1>5, AccountKept DEF VInv
<1>7. VerifiedHasApproved'
  BY DEF VInv, VerifiedHasApproved, Having
<1>8. UNCHANGED <<{x \in Users : verified[x]},
                  [x \in Users \X (1 .. MaxRecords) |-> Ruling(x[1], x[2])],
                  [c \in Codes |-> Redemptions(c)]>>
  BY <1>5, NothingSpent, SameRulings
<1>9. Pages' \subseteq Pages \cup {PageOf(r)}
  BY PageOpened DEF VInv
<1>10. Contract!Opens(u) \/ Contract!Leaves(u)
  BY <1>8, <1>9 DEF Contract!Opens, Contract!Leaves
<1> QED
  BY <1>1, <1>4, <1>6, <1>7, <1>10 DEF VInv, Moves, Contract!Next

LEMMA LoadStep ==
  ASSUME VInv, NEW w \in Workers, Load(w)
  PROVE  VInv' /\ Moves
<1> DEFINE copy(u) == [step |-> "loaded", user |-> u, verified |-> verified[u]]
<1>1. PICK u \in Users : Set(w, copy(u))
  BY DEF Load
<1>2. copy(u) \in Work /\ copy(u).step = "loaded" /\ copy(u).user = u
  BY DEF VInv, TypeOK, Work
<1>3. PageOf(copy(u)) = <<u, Contract!Seen(u)>>
  BY DEF PageOf, Contract!Seen
<1>4. UNCHANGED <<verified, records, uses, valid, closed, beside, since>>
  BY DEF Load
<1>5. BadgeCounts'
  <2>1. \A x \in Workers : work'[x] = IF x = w THEN copy(u) ELSE work[x]
    BY <1>1 DEF Set, VInv, TypeOK
  <2>2. \A v \in Users : verified[v] => Unbadged(v)' \in SUBSET Unbadged(v)
    BY <1>2, <2>1 DEF Unbadged
  <2> SUFFICES ASSUME NEW v \in Users, verified[v]
               PROVE  since[v] + Cardinality(Unbadged(v)') <= Cardinality(Workers)
    BY <1>4 DEF VInv, BadgeCounts
  <2>3. Unbadged(v) \in SUBSET Workers
    BY DEF Unbadged
  <2>4. Unbadged(v)' \in SUBSET Workers
    BY DEF Unbadged
  <2> DEFINE had == Cardinality(Unbadged(v))
             has == Cardinality(Unbadged(v)')
             all == Cardinality(Workers)
  <2>5. had \in Nat /\ has \in Nat /\ all \in Nat /\ has <= had
    BY <2>2, <2>3, <2>4, UnbadgedFinite
  <2>6. since[v] \in Nat /\ since[v] + had <= all
    BY DEF VInv, TypeOK, BadgeCounts
  <2> HIDE DEF had, has, all
  <2>7. since[v] + has <= all
    BY <2>5, <2>6
  <2> QED
    BY <2>7 DEF has, all
<1> HIDE DEF copy
<1> QED
  BY <1>1, <1>2, <1>3, <1>4, <1>5, PageStep

LEMMA AdminOpenStep ==
  ASSUME VInv, NEW w \in Workers, AdminOpen(w)
  PROVE  VInv' /\ Moves
<1> DEFINE form(u) == [step |-> "admin", user |-> u]
<1>1. PICK u \in Users : Set(w, form(u))
  BY DEF AdminOpen
<1>2. form(u) \in Work /\ form(u).step = "admin" /\ form(u).user = u
  BY DEF Work
<1>3. PageOf(form(u)) = <<u, "set">>
  BY DEF PageOf
<1>4. UNCHANGED <<verified, records, uses, valid, closed, beside, since>>
  BY DEF AdminOpen
<1> HIDE DEF form
<1>5. BadgeCounts'
  <2>1. \A x \in Workers : work'[x] = IF x = w THEN form(u) ELSE work[x]
    BY <1>1 DEF Set, VInv, TypeOK
  <2>2. \A v \in Users : Unbadged(v)' \in SUBSET Unbadged(v)
    BY <1>2, <2>1 DEF Unbadged
  <2> QED
    BY <1>4, <2>2, FewerUnbadged DEF VInv
<1> QED
  BY <1>1, <1>2, <1>3, <1>4, <1>5, PageStep

LEMMA EraseStep ==
  ASSUME VInv, NEW w \in Workers, DeleteErase(w)
  PROVE  VInv' /\ Moves
<1>1. PICK u \in Users : u = work[w].user
  BY DEF DeleteErase, VInv, TypeOK, Work, Idle, At
<1> DEFINE r == [step |-> "deleting", user |-> u, rows |-> Len(records[u])]
<1>2. Len(records[u]) \in 0 .. MaxRecords
  BY HistoryShape DEF VInv, TypeOK
<1>3. r \in Work /\ r.step = "deleting" /\ r.user = u
  BY <1>2 DEF Work
<1>4. PageOf(r) = <<u, "leave">>
  BY DEF PageOf
<1>5. Set(w, r) /\ UNCHANGED <<verified, records, uses, valid, closed, beside, since>>
  BY <1>1 DEF DeleteErase
<1> HIDE DEF r
<1>6. {<<u, "with">>, <<u, "without">>} \cap Pages # {}
  <2>1. w \in Open /\ work[w].step = "loaded"
    BY DEF DeleteErase, At, Open
  <2>2. PageOf(work[w]) \in {<<u, "with">>, <<u, "without">>}
    BY <1>1, <2>1 DEF PageOf
  <2> QED
    BY <2>1, <2>2 DEF Pages
<1>7. BadgeCounts'
  <2>1. \A x \in Workers : work'[x] = IF x = w THEN r ELSE work[x]
    BY <1>5 DEF Set, VInv, TypeOK
  <2>2. \A v \in Users : Unbadged(v)' \in SUBSET Unbadged(v)
    BY <1>3, <2>1 DEF Unbadged
  <2> QED
    BY <1>5, <2>2, FewerUnbadged DEF VInv
<1> QED
  BY <1>3, <1>4, <1>5, <1>6, <1>7, PageStep

LEMMA ApplyStep ==
  ASSUME VInv, NEW w \in Workers, ApplyCreate(w)
  PROVE  VInv' /\ Moves
<1>1. PICK u \in Users : u = work[w].user
  BY DEF ApplyCreate, VInv, TypeOK, Work, Idle, At
<1>2. Idle \in Work /\ Idle.step = "idle"
  BY DEF Work, Idle
<1>3. CASE UNCHANGED records
  BY <1>2, <1>3, QuietStep DEF ApplyCreate
<1>4. CASE Having(u, "pending") = {} /\ Room(u) /\ Add(u, New("pending", "form"))
  <2> DEFINE n == Len(records[u]) + 1
             r == New("pending", "form")
  <2> HIDE DEF n, r
  <2>1. r \in Record /\ r.status = "pending" /\ r.via = "form"
    BY NewType DEF r, VStatuses
  <2>2. /\ records' \in [Users -> Histories]
        /\ Kept
        /\ \A v \in Users \ {u} : records'[v] = records[v]
        /\ \A i \in DOMAIN records[u] : records'[u][i] = records[u][i]
        /\ DOMAIN records'[u] = DOMAIN records[u] \cup {n}
        /\ n \in 1 .. MaxRecords
        /\ n \notin DOMAIN records[u]
        /\ records'[u][n] = r
    BY <1>4, <2>1, AddKeeps DEF n, r, VInv
  <2>3. UNCHANGED <<verified, uses, valid, closed, beside, since>> /\ Set(w, Idle)
    BY DEF ApplyCreate
  <2>4. TypeOK'
    BY <1>2, <2>2, <2>3 DEF VInv, TypeOK, Set
  <2>5. NothingOpened /\ \A x \in Workers : work'[x].step = "revoking" => work'[x] = work[x]
    BY <1>2, <2>3, WorkSet DEF VInv
  <2>6. RevokeHolds'
    BY <2>2, <2>5, RevokeHoldsKept DEF VInv
  <2>7. SameCodes
    BY <2>1, <2>2, SameCodesAdded, VerificationAssumption
  <2>8. UsesAccounted'
    BY <2>3, <2>7, AccountKept DEF VInv
  <2>9. VerifiedHasApproved'
    BY <2>2, <2>3 DEF VInv, VerifiedHasApproved, Having
  <2>10. Contract!Apply(u)
    <3>1. Contract!Waiting(u) = {}
      BY <1>4, RulingsRead DEF VInv
    <3>2. Contract!Rule({<<u, n>>}, "pending") /\ Ruling(u, n) = "none"
      BY <2>1, <2>2, RuledOnNew DEF VInv
    <3>3. UNCHANGED {v \in Users : verified[v]}
      BY <2>3
    <3> QED
      BY <2>2, <2>7, <3>1, <3>2, <3>3, NothingSpent DEF Contract!Apply, Contract!RecordsOf
  <2>11. BadgeCounts'
    BY <2>3, <2>5, CountsUnmoved DEF VInv
  <2> QED
    BY <2>4, <2>5, <2>6, <2>8, <2>9, <2>10, <2>11, PagesLeft DEF VInv, Moves, Contract!Next
<1> QED
  BY <1>1, <1>3, <1>4 DEF ApplyCreate

LEMMA RedeemStep ==
  ASSUME VInv, NEW w \in Workers, NEW c \in Codes, Redeem(w, c)
  PROVE  VInv' /\ Moves
<1>1. PICK u \in Users : u = work[w].user
  BY DEF Redeem, VInv, TypeOK, Work, Idle, At
<1> DEFINE n == Len(records[u]) + 1
<1> HIDE DEF n
<1>2. Idle \in Work /\ Idle.step = "idle"
  BY DEF Work, Idle
<1>3. /\ records' \in [Users -> Histories]
      /\ Kept
      /\ \A v \in Users \ {u} : records'[v] = records[v]
      /\ n \in DOMAIN records'[u]
      /\ records'[u][n].status = "approved"
  BY <1>1, GrantKeeps DEF n, Redeem, VInv
<1>4. /\ Set(w, Idle)
      /\ UNCHANGED <<valid, closed>>
      /\ uses' = [uses EXCEPT ![c] = @ + 1]
      /\ verified' = [verified EXCEPT ![u] = TRUE]
      /\ beside' = beside \ {u}
      /\ since' = [since EXCEPT ![u] = @ + 1]
  BY <1>1 DEF Redeem, Decided, SetBadge
<1>5. TypeOK'
  BY <1>2, <1>3, <1>4 DEF VInv, TypeOK, Set
<1>6. NothingOpened /\ \A x \in Workers : work'[x].step = "revoking" => work'[x] = work[x]
  BY <1>2, <1>4, WorkSet DEF VInv
<1>7. RevokeHolds'
  BY <1>3, <1>6, RevokeHoldsKept DEF VInv
<1>8. UsesAccounted' /\ Contract!Redeem(u, c)
  BY <1>1, RedeemAccounted DEF VInv
<1>9. VerifiedHasApproved'
  BY <1>3, <1>4 DEF VInv, TypeOK, VerifiedHasApproved, Having
<1>10. BadgeCounts'
  BY RedeemCounted DEF VInv
<1> QED
  BY <1>5, <1>6, <1>7, <1>8, <1>9, <1>10, PagesLeft DEF VInv, Moves, Contract!Next

\* The account forms and the administrator put a badge.
LEMMA PutStep ==
  ASSUME VInv, NEW w \in Workers, NEW b \in BOOLEAN, NEW u \in Users,
         PutBeside(u, b), Set(w, Idle), UNCHANGED <<records, uses, valid>>,
         closed' \subseteq Users,
         {<<u, "set">>, <<u, IF b THEN "with" ELSE "without">>} \cap Pages # {}
  PROVE  VInv' /\ Moves
<1>1. Idle \in Work /\ Idle.step = "idle"
  BY DEF Work, Idle
<1>2. /\ verified' = [verified EXCEPT ![u] = b]
      /\ b => since' = since
      /\ ~b => since' = [since EXCEPT ![u] = 0]
      /\ beside' \subseteq Users
      /\ \A v \in Users \ {u} : v \in beside => v \in beside'
      /\ b => \/ u \in beside'
              \/ verified[u] /\ beside' = beside
  BY DEF PutBeside, Taken, SetBadge, VInv, TypeOK
<1>3. TypeOK'
  BY <1>1, <1>2 DEF VInv, TypeOK, Set
<1>4. Kept
  BY DEF Kept, MayTurn
<1>5. NothingOpened /\ \A x \in Workers : work'[x].step = "revoking" => work'[x] = work[x]
  BY <1>1, WorkSet DEF VInv
<1>6. RevokeHolds'
  BY <1>4, <1>5, RevokeHoldsKept DEF VInv
<1>7. SameCodes
  BY DEF SameCodes, RedeemedWith
<1>8. UsesAccounted'
  BY <1>7, AccountKept DEF VInv
<1>9. /\ verified'[u] = b
      /\ \A v \in Users \ {u} : verified'[v] = verified[v] /\ since'[v] = since[v]
      /\ IF b THEN since'[u] = since[u] ELSE since'[u] = 0
  BY <1>2 DEF VInv, TypeOK
<1>10. VerifiedHasApproved'
  <2>1. \A v \in Users : verified'[v] =>
          \/ v \in beside'
          \/ verified[v] /\ (v \in beside => v \in beside')
    BY <1>2, <1>9
  <2> QED
    BY <2>1 DEF VInv, VerifiedHasApproved, Having
<1>11. BadgeCounts'
  BY <1>5, <1>9, CountsKept DEF VInv
<1>12. Contract!Put(u, b)
  <2>1. {v \in Users : verified[v]}' =
          IF b THEN {v \in Users : verified[v]} \cup {u} ELSE {v \in Users : verified[v]} \ {u}
    BY <1>9
  <2>2. UNCHANGED [r \in Users \X (1 .. MaxRecords) |-> Ruling(r[1], r[2])]
    BY SameRulings
  <2>3. UNCHANGED [c \in Codes |-> Redemptions(c)]
    BY <1>7, NothingSpent
  <2> QED
    BY <2>1, <2>2, <2>3 DEF Contract!Put, Contract!Badge
<1> QED
  BY <1>3, <1>5, <1>6, <1>8, <1>10, <1>11, <1>12, PagesLeft DEF VInv, Moves, Contract!Next

LEMMA SaveStep ==
  ASSUME VInv, NEW w \in Workers, SaveProfile(w)
  PROVE  VInv' /\ Moves
<1>1. PICK u \in Users, b \in BOOLEAN : u = work[w].user /\ b = work[w].verified
  BY DEF SaveProfile, VInv, TypeOK, Work, Idle, At
<1>2. w \in Open /\ work[w].step = "loaded"
  BY DEF SaveProfile, At, Open
<1>3. PageOf(work[w]) = <<u, IF b THEN "with" ELSE "without">>
  BY <1>1, <1>2 DEF PageOf
<1>4. <<u, IF b THEN "with" ELSE "without">> \in Pages
  BY <1>2, <1>3 DEF Pages
<1>5. PutBeside(u, b) /\ Set(w, Idle) /\ UNCHANGED <<records, uses, valid>>
  BY <1>1 DEF SaveProfile
<1>6. closed' \subseteq Users
  BY DEF SaveProfile, VInv, TypeOK
<1> QED
  BY <1>4, <1>5, <1>6, PutStep

LEMMA AdminSetsStep ==
  ASSUME VInv, NEW w \in Workers, NEW b \in BOOLEAN, AdminSets(w, b)
  PROVE  VInv' /\ Moves
<1>1. PICK u \in Users : u = work[w].user
  BY DEF AdminSets, VInv, TypeOK, Work, Idle, At
<1>2. w \in Open /\ work[w].step = "admin"
  BY DEF AdminSets, At, Open
<1>3. PageOf(work[w]) = <<u, "set">>
  BY <1>1, <1>2 DEF PageOf
<1>4. <<u, "set">> \in Pages
  BY <1>2, <1>3 DEF Pages
<1>5. PutBeside(u, b) /\ Set(w, Idle) /\ UNCHANGED <<records, uses, valid>>
  BY <1>1 DEF AdminSets
<1>6. closed' \subseteq Users
  BY DEF AdminSets, VInv, TypeOK
<1> QED
  BY <1>4, <1>5, <1>6, PutStep

\* The account goes, with the rows that were there when it was asked to.
LEMMA DeleteStep ==
  ASSUME VInv, NEW w \in Workers, DeleteCommit(w)
  PROVE  VInv' /\ Moves
<1>1. PICK u \in Users, n \in 0 .. MaxRecords : u = work[w].user /\ n = work[w].rows
  BY DEF DeleteCommit, VInv, TypeOK, Work, Idle, At
<1>2. Idle \in Work /\ Idle.step = "idle"
  BY DEF Work, Idle
<1> DEFINE erased(i, r) == IF i <= n THEN Decide(r, "erased") ELSE r
           h == records[u]
           g == [i \in DOMAIN h |-> erased(i, h[i])]
<1>3. /\ records' = [records EXCEPT ![u] = g]
      /\ verified' = [verified EXCEPT ![u] = FALSE]
      /\ beside' = beside \ {u}
      /\ since' = [since EXCEPT ![u] = 0]
      /\ closed' = closed \cup {u}
      /\ Set(w, Idle)
      /\ UNCHANGED <<uses, valid>>
  BY <1>1 DEF DeleteCommit, Taken, SetBadge
<1>4. records \in [Users -> Histories] /\ h \in Histories
  BY DEF VInv, TypeOK
<1>5. \A i \in DOMAIN h : h[i] \in Record
  BY <1>4, HistoryShape
<1>6. \A i \in DOMAIN h :
        /\ erased(i, h[i]) \in Record
        /\ erased(i, h[i]).via = h[i].via
        /\ erased(i, h[i]).status = IF i <= n THEN "erased" ELSE h[i].status
  BY <1>5, DecideType
<1>7. /\ DOMAIN g = DOMAIN h /\ g = [i \in DOMAIN h |-> g[i]]
      /\ \A i \in DOMAIN h : g[i] = erased(i, h[i])
  OBVIOUS
<1> HIDE DEF erased, g
<1>8. g \in Histories
  BY <1>4, <1>6, <1>7, HistoryMap
<1>9. /\ records' \in [Users -> Histories]
      /\ records'[u] = g
      /\ \A v \in Users \ {u} : records'[v] = records[v]
  BY <1>3, <1>4, <1>8
<1>10. /\ DOMAIN records'[u] = DOMAIN records[u]
       /\ \A i \in DOMAIN records[u] :
            /\ records'[u][i].via = records[u][i].via
            /\ records'[u][i].status = IF i <= n THEN "erased" ELSE records[u][i].status
  BY <1>6, <1>7, <1>9
<1> HIDE DEF h
<1>11. Kept
  <2>1. \A i \in DOMAIN records[u] :
          /\ i \in DOMAIN records'[u]
          /\ MayTurn(records[u][i].status, records'[u][i].status)
          /\ records'[u][i].via = records[u][i].via
    BY <1>10 DEF MayTurn
  <2> QED
    BY <1>9, <2>1 DEF Kept, MayTurn
<1>12. TypeOK'
  BY <1>2, <1>3, <1>9 DEF VInv, TypeOK, Set
<1>13. NothingOpened /\ \A x \in Workers : work'[x].step = "revoking" => work'[x] = work[x]
  BY <1>2, <1>3, WorkSet DEF VInv
<1>14. RevokeHolds'
  BY <1>11, <1>13, RevokeHoldsKept DEF VInv
<1>15. SameCodes
  BY <1>9, <1>10, SameCodesByVia
<1>16. UsesAccounted'
  BY <1>3, <1>15, AccountKept DEF VInv
<1>17. /\ verified'[u] = FALSE /\ since'[u] = 0
       /\ \A v \in Users \ {u} :
            /\ verified'[v] = verified[v] /\ since'[v] = since[v]
            /\ v \in beside' <=> v \in beside
  BY <1>3 DEF VInv, TypeOK
<1>18. VerifiedHasApproved'
  BY <1>9, <1>17 DEF VInv, VerifiedHasApproved, Having
<1>19. BadgeCounts'
  BY <1>13, <1>17, CountsKept DEF VInv
<1>20. Contract!Erase(u)
  <2> DEFINE rs == {<<u, i>> : i \in {j \in DOMAIN records[u] : j <= n}}
             rulings == [r \in Users \X (1 .. MaxRecords) |-> Ruling(r[1], r[2])]
  <2>1. <<u, "leave">> \in Pages
    <3>1. w \in Open /\ work[w].step = "deleting"
      BY DEF DeleteCommit, At, Open
    <3>2. PageOf(work[w]) = <<u, "leave">>
      BY <1>1, <3>1 DEF PageOf
    <3> QED
      BY <3>1, <3>2 DEF Pages
  <2>2. ASSUME NEW v \in Users, NEW j \in 1 .. MaxRecords
        PROVE  Ruling(v, j)' = IF <<v, j>> \in rs THEN "erased" ELSE Ruling(v, j)
    BY <1>9, <1>10 DEF Ruling
  <2>3. Contract!Rule(rs, "erased")
    BY <2>2, Ruled
  <2>4. \A i \in DOMAIN records[u] : i \in 1 .. MaxRecords /\ Ruling(u, i) # "none"
    <3>1. \A i \in DOMAIN records[u] : records[u][i] \in Record
      BY HistoryShape DEF VInv, TypeOK
    <3>2. \A r \in Record : r.status # "none"
      BY DEF Record, VStatuses
    <3> QED
      BY <3>1, <3>2, RulingsRead DEF VInv
  <2>5. rs \in SUBSET {r \in Contract!RecordsOf(u) : rulings[r] # "none"}
    BY <2>4 DEF Contract!RecordsOf
  <2>6. {v \in Users : verified[v]}' = {v \in Users : verified[v]} \ {u}
    BY <1>17
  <2> HIDE DEF rs
  <2>7. UNCHANGED [c \in Codes |-> Redemptions(c)]
    BY <1>15, NothingSpent
  <2> QED
    BY <2>1, <2>3, <2>5, <2>6, <2>7 DEF Contract!Erase, Contract!Badge
<1> QED
  BY <1>12, <1>13, <1>14, <1>16, <1>18, <1>19, <1>20, PagesLeft DEF VInv, Moves, Contract!Next

LEMMA DecisionStep ==
  ASSUME VInv, NEW u \in Users, Decision(u)
  PROVE  VInv' /\ Moves
<1>1. PICK s \in {"approved", "rejected"}, i \in Having(u, "pending") :
        /\ DecideAt(u, i, s)
        /\ \/ /\ s = "approved" /\ verified' = [verified EXCEPT ![u] = TRUE]
              /\ beside' = beside \ {u}
           \/ s = "rejected" /\ UNCHANGED <<verified, beside>>
        /\ UNCHANGED <<uses, valid, closed, since, work>>
  BY DEF Decision, Approve, Reject, DecideAt, Decided, SetBadge
<1>2. /\ i \in DOMAIN records[u]
      /\ records[u][i].status = "pending"
      /\ s \in VStatuses
      /\ MayTurn(records[u][i].status, s)
  BY DEF Having, VStatuses, MayTurn
<1>3. /\ records' \in [Users -> Histories]
      /\ Kept
      /\ \A v \in Users : DOMAIN records'[v] = DOMAIN records[v]
      /\ \A v \in Users : \A j \in DOMAIN records[v] :
           records'[v][j].status = IF v = u /\ j = i THEN s ELSE records[v][j].status
      /\ \A v \in Users : \A j \in DOMAIN records[v] :
           records'[v][j].via = records[v][j].via
  BY <1>1, <1>2, DecideKeeps DEF VInv
<1>4. TypeOK'
  BY <1>1, <1>3 DEF VInv, TypeOK
<1>5. RevokeHolds'
  BY <1>1, <1>3, RevokeHoldsKept DEF VInv
<1>6. SameCodes
  BY <1>3 DEF SameCodes, RedeemedWith
<1>7. UsesAccounted'
  BY <1>1, <1>6, AccountKept DEF VInv
<1>8. VerifiedHasApproved'
  <2> SUFFICES ASSUME NEW v \in Users, verified'[v], v \notin beside'
               PROVE  \E j \in DOMAIN records'[v] : records'[v][j].status = "approved"
    BY DEF VerifiedHasApproved, Having
  <2>1. CASE v = u /\ s = "approved"
    BY <1>2, <1>3, <2>1
  <2>2. CASE ~(v = u /\ s = "approved")
    <3>1. verified[v] /\ v \notin beside
      BY <1>1, <2>2 DEF VInv, TypeOK
    <3>2. PICK j \in DOMAIN records[v] : records[v][j].status = "approved"
      BY <3>1 DEF VInv, VerifiedHasApproved, Having
    <3> QED
      BY <1>2, <1>3, <3>2
  <2> QED
    BY <2>1, <2>2
<1>9. Contract!Approve(u) \/ Contract!Reject(u)
  <2>1. Contract!Rule({<<u, i>>}, s)
    <3>1. i \in DOMAIN records[u]
      BY <1>2
    <3> QED
      BY <1>3, <3>1, RuledOnOne
  <2>2. <<u, i>> \in Contract!Waiting(u)
    BY <1>1, RulingsRead DEF VInv
  <2>3. UNCHANGED [c \in Codes |-> Redemptions(c)]
    BY <1>6, NothingSpent
  <2>4. CASE s = "approved"
    <3>1. {v \in Users : verified[v]}' = {v \in Users : verified[v]} \cup {u}
      BY <1>1, <2>4 DEF VInv, TypeOK
    <3> QED
      BY <2>1, <2>2, <2>3, <2>4, <3>1 DEF Contract!Approve, Contract!Badge
  <2>5. CASE s = "rejected"
    <3>1. UNCHANGED {v \in Users : verified[v]}
      BY <1>1, <2>5
    <3> QED
      BY <2>1, <2>2, <2>3, <2>5, <3>1 DEF Contract!Reject
  <2> QED
    BY <2>4, <2>5
<1>10. NothingOpened
  BY <1>1 DEF NothingOpened
<1>11. BadgeCounts'
  <2>1. \A v \in Users \ {u} : verified'[v] = verified[v] /\ since'[v] = since[v]
    BY <1>1 DEF VInv, TypeOK
  <2>2. IF verified'[u] THEN since'[u] = since[u] ELSE since'[u] = 0
    BY <1>1 DEF VInv, TypeOK, BadgeCounts
  <2> QED
    BY <1>10, <2>1, <2>2, CountsKept DEF VInv
<1> QED
  BY <1>4, <1>5, <1>7, <1>8, <1>9, <1>10, <1>11, PagesLeft DEF VInv, Moves, Contract!Next

LEMMA RevokeReadStep ==
  ASSUME VInv, NEW w \in Workers, RevokeRead(w)
  PROVE  VInv' /\ Moves
<1>1. PICK u \in Users : u = work[w].user
  BY DEF RevokeRead, VInv, TypeOK, Work, Idle, At
<1>2. PICK i \in 0 .. Len(records[u]) :
        /\ i # 0 => i \in Having(u, "approved")
        /\ work' = [work EXCEPT ![w] = [step |-> "revoking", user |-> u, latest |-> i]]
  BY <1>1 DEF RevokeRead, Set, Latest
<1>3. UNCHANGED <<verified, records, uses, valid, closed, beside, since>>
  BY DEF RevokeRead
<1>4. i \in 0 .. MaxRecords
  BY <1>2, HistoryShape, VerificationAssumption DEF VInv, TypeOK
<1>5. TypeOK'
  BY <1>2, <1>3, <1>4 DEF VInv, TypeOK, Work
<1>6. Kept
  BY <1>3 DEF Kept, MayTurn
<1>7. RevokeHolds'
  <2> SUFFICES ASSUME NEW x \in Workers, work'[x].step = "revoking", work'[x].latest # 0
               PROVE  /\ work'[x].latest \in DOMAIN records[work'[x].user]
                      /\ records[work'[x].user][work'[x].latest].status
                           \in {"approved", "revoked", "erased"}
    BY <1>3 DEF RevokeHolds, At
  <2>1. CASE x = w
    BY <1>2, <2>1 DEF VInv, TypeOK, Having
  <2>2. CASE x # w
    BY <1>2, <2>2 DEF VInv, TypeOK, RevokeHolds, At
  <2> QED
    BY <2>1, <2>2
<1>8. SameCodes
  BY <1>3 DEF SameCodes, RedeemedWith
<1>9. UsesAccounted'
  BY <1>3, <1>8, AccountKept DEF VInv
<1>10. VerifiedHasApproved'
  BY <1>3 DEF VInv, VerifiedHasApproved, Having
<1>11. NothingOpened
  BY <1>2 DEF NothingOpened, VInv, TypeOK
<1>12. Moves
  BY <1>3, <1>8, <1>11, Unseen
<1>13. BadgeCounts'
  BY <1>3, <1>11, CountsUnmoved DEF VInv
<1> QED
  BY <1>5, <1>7, <1>9, <1>10, <1>12, <1>13 DEF VInv

LEMMA RevokeCommitStep ==
  ASSUME VInv, NEW w \in Workers, RevokeCommit(w)
  PROVE  VInv' /\ Moves
<1>1. PICK u \in Users, i \in 0 .. MaxRecords : u = work[w].user /\ i = work[w].latest
  BY DEF RevokeCommit, VInv, TypeOK, Work, Idle, At
<1>2. Idle \in Work /\ Idle.step = "idle"
  BY DEF Work, Idle
<1>3. /\ Set(w, Idle)
      /\ verified' = [verified EXCEPT ![u] = FALSE]
      /\ beside' = beside \ {u}
      /\ since' = [since EXCEPT ![u] = 0]
      /\ UNCHANGED <<uses, valid, closed>>
  BY <1>1 DEF RevokeCommit, Taken, SetBadge
<1>4. /\ records' \in [Users -> Histories]
      /\ Kept
      /\ SameCodes
      /\ \A v \in Users \ {u} : Having(v, "approved")' = Having(v, "approved")
      /\ \E r \in Contract!RecordsOf(u) :
           Ruling(r[1], r[2]) \in {"approved", "none", "revoked"} /\ Contract!Rule({r}, "revoked")
  <2>1. CASE i # 0 /\ i \in Rows(u) /\ DecideAt(u, i, "revoked")
    <3>1. /\ i \in DOMAIN records[u]
          /\ records[u][i].status \in {"approved", "revoked"}
          /\ MayTurn(records[u][i].status, "revoked")
      BY <1>1, <2>1 DEF RevokeCommit, VInv, RevokeHolds, MayTurn, Rows, Having
    <3>2. "revoked" \in VStatuses
      BY DEF VStatuses
    <3>3. /\ records' \in [Users -> Histories]
          /\ Kept
          /\ \A v \in Users : DOMAIN records'[v] = DOMAIN records[v]
          /\ \A v \in Users : \A j \in DOMAIN records[v] :
               records'[v][j].status = IF v = u /\ j = i THEN "revoked" ELSE records[v][j].status
          /\ \A v \in Users : \A j \in DOMAIN records[v] :
               records'[v][j].via = records[v][j].via
      BY <2>1, <3>1, <3>2, DecideKeeps DEF VInv
    <3>4. Contract!Rule({<<u, i>>}, "revoked") /\ Ruling(u, i) = records[u][i].status
      <4>1. Contract!Rule({<<u, i>>}, "revoked")
        BY <3>1, <3>3, RuledOnOne
      <4>2. Ruling(u, i) = records[u][i].status
        BY <3>1 DEF Ruling
      <4> QED
        BY <4>1, <4>2
    <3>5. <<u, i>> \in Contract!RecordsOf(u)
      BY <3>1, RulingsRead DEF VInv, Contract!RecordsOf
    <3>6. Ruling(u, i) \in {"approved", "none", "revoked"}
      BY <3>1, <3>4
    <3>7. SameCodes /\ \A v \in Users \ {u} : Having(v, "approved")' = Having(v, "approved")
      BY <3>3 DEF SameCodes, RedeemedWith, Having
    <3> QED
      BY <3>3, <3>4, <3>5, <3>6, <3>7
  <2>2. CASE Room(u) /\ Add(u, New("revoked", "direct"))
    <3> DEFINE n == Len(records[u]) + 1
               r == New("revoked", "direct")
    <3> HIDE DEF n, r
    <3>1. r \in Record /\ r.via = "direct" /\ r.status = "revoked"
      BY NewType DEF r, VStatuses
    <3>2. /\ records' \in [Users -> Histories]
          /\ Kept
          /\ \A v \in Users \ {u} : records'[v] = records[v]
          /\ \A j \in DOMAIN records[u] : records'[u][j] = records[u][j]
          /\ DOMAIN records'[u] = DOMAIN records[u] \cup {n}
          /\ n \in 1 .. MaxRecords
          /\ n \notin DOMAIN records[u]
          /\ records'[u][n] = r
      BY <2>2, <3>1, AddKeeps DEF n, r, VInv
    <3>3. SameCodes
      BY <3>1, <3>2, SameCodesAdded, VerificationAssumption
    <3>4. Contract!Rule({<<u, n>>}, "revoked") /\ Ruling(u, n) = "none"
      BY <3>1, <3>2, RuledOnNew DEF VInv
    <3>5. <<u, n>> \in Contract!RecordsOf(u)
      BY <3>2 DEF Contract!RecordsOf
    <3>6. \A v \in Users \ {u} : Having(v, "approved")' = Having(v, "approved")
      BY <3>2 DEF Having
    <3> QED
      BY <3>2, <3>3, <3>4, <3>5, <3>6
  <2> QED
    BY <1>1, <2>1, <2>2 DEF RevokeCommit, Revoked, DecideAt
<1>5. TypeOK'
  BY <1>2, <1>3, <1>4 DEF VInv, TypeOK, Set
<1>6. NothingOpened /\ \A x \in Workers : work'[x].step = "revoking" => work'[x] = work[x]
  BY <1>2, <1>3, WorkSet DEF VInv
<1>7. RevokeHolds'
  BY <1>4, <1>6, RevokeHoldsKept DEF VInv
<1>8. UsesAccounted'
  BY <1>3, <1>4, AccountKept DEF VInv
<1>9. VerifiedHasApproved'
  BY <1>3, <1>4 DEF VInv, TypeOK, VerifiedHasApproved
<1>10. {v \in Users : verified[v]}' = {v \in Users : verified[v]} \ {u}
  BY <1>3 DEF VInv, TypeOK
<1>11. Contract!Revoke(u)
  BY <1>4, <1>10, NothingSpent DEF Contract!Revoke, Contract!RecordsOf, Contract!Badge
<1>12. BadgeCounts'
  <2>1. /\ \A v \in Users \ {u} : verified'[v] = verified[v] /\ since'[v] = since[v]
        /\ ~verified'[u] /\ since'[u] = 0
    BY <1>3 DEF VInv, TypeOK
  <2> QED
    BY <1>6, <2>1, CountsKept DEF VInv
<1> QED
  BY <1>5, <1>6, <1>7, <1>8, <1>9, <1>11, <1>12, PagesLeft DEF VInv, Moves, Contract!Next

LEMMA TickStep ==
  ASSUME VInv, Tick
  PROVE  VInv' /\ Moves
<1>1. \A r \in Record :
        Older(r) \in Record /\ Older(r).status = r.status /\ Older(r).via = r.via
  BY VerificationAssumption DEF Record, Older
<1>2. records' = [u \in Users |-> [i \in DOMAIN records[u] |-> Older(records[u][i])]]
  BY DEF Tick
<1>3. UNCHANGED <<verified, uses, valid, closed, beside, since, work>>
  BY DEF Tick
<1>4. \A u \in Users :
        /\ records[u] \in Histories
        /\ DOMAIN records'[u] = DOMAIN records[u]
        /\ records'[u] = [i \in DOMAIN records[u] |-> records'[u][i]]
        /\ \A i \in DOMAIN records[u] : /\ records'[u][i] \in Record
                                        /\ records'[u][i].status = records[u][i].status
                                        /\ records'[u][i].via = records[u][i].via
  BY <1>1, <1>2, HistoryShape DEF VInv, TypeOK
<1>5. records' \in [Users -> Histories]
  <2>1. \A u \in Users : records'[u] \in Histories
    BY <1>4, HistoryMap
  <2> QED
    BY <1>2, <2>1
<1>6. TypeOK'
  BY <1>3, <1>5 DEF VInv, TypeOK
<1>7. Kept
  BY <1>4 DEF Kept, MayTurn
<1>8. RevokeHolds'
  BY <1>3, <1>7, RevokeHoldsKept DEF VInv
<1>9. SameCodes
  BY <1>4 DEF SameCodes, RedeemedWith
<1>10. UsesAccounted'
  BY <1>3, <1>9, AccountKept DEF VInv
<1>11. VerifiedHasApproved'
  <2>1. \A u \in Users : Having(u, "approved")' = Having(u, "approved")
    BY <1>4 DEF Having
  <2> QED
    BY <1>3, <2>1 DEF VInv, VerifiedHasApproved
<1>12. NothingOpened
  BY <1>3 DEF NothingOpened
<1>13. Moves
  BY <1>3, <1>4, <1>9, <1>12, Unseen
<1>14. BadgeCounts'
  BY <1>3, <1>12, CountsUnmoved DEF VInv
<1> QED
  BY <1>6, <1>8, <1>10, <1>11, <1>13, <1>14 DEF VInv

LEMMA UnchangedStep ==
  ASSUME VInv, UNCHANGED <<verified, records, uses, closed, beside, since, work>>,
         valid' \in [Codes -> BOOLEAN]
  PROVE  VInv' /\ Moves
<1>1. TypeOK' /\ Kept
  BY DEF VInv, TypeOK, Kept, MayTurn
<1>2. RevokeHolds'
  BY <1>1, RevokeHoldsKept DEF VInv
<1>3. SameCodes
  BY DEF SameCodes, RedeemedWith
<1>4. UsesAccounted'
  BY <1>3, AccountKept DEF VInv
<1>5. VerifiedHasApproved'
  BY DEF VInv, VerifiedHasApproved, Having
<1>6. NothingOpened
  BY DEF NothingOpened
<1>7. Moves
  BY <1>3, <1>6, Unseen
<1>8. BadgeCounts'
  BY <1>6, CountsUnmoved DEF VInv
<1> QED
  BY <1>1, <1>2, <1>4, <1>5, <1>7, <1>8 DEF VInv

\* Every step keeps the invariant, and is a step of BadgeContract or unseen.
LEMMA NextV == VInv /\ [Next]_vars => VInv' /\ Moves
<1> SUFFICES ASSUME VInv, [Next]_vars PROVE VInv' /\ Moves
  OBVIOUS
<1>1. ASSUME NEW w \in Workers, UserStep(w) PROVE VInv' /\ Moves
  <2>1. CASE Load(w)
    BY <2>1, LoadStep
  <2>2. CASE ApplyCheck(w)
    <3>1. [step |-> "apply", user |-> work[w].user] \in Work
      BY <2>2 DEF ApplyCheck, VInv, TypeOK, Work, Idle, At
    <3> QED
      BY <2>2, <3>1, QuietStep DEF ApplyCheck
  <2>3. CASE ApplyCreate(w)
    BY <2>3, ApplyStep
  <2>4. CASE \E c \in Codes : Redeem(w, c)
    BY <2>4, RedeemStep
  <2>5. CASE SaveProfile(w)
    BY <2>5, SaveStep
  <2>6. CASE DeleteErase(w)
    BY <2>6, EraseStep
  <2>7. CASE DeleteCommit(w)
    BY <2>7, DeleteStep
  <2> QED
    BY <1>1, <2>1, <2>2, <2>3, <2>4, <2>5, <2>6, <2>7 DEF UserStep
<1>2. ASSUME NEW w \in Workers, RevokeStep(w) PROVE VInv' /\ Moves
  <2>1. CASE RevokeCheck(w)
    <3>1. PICK u \in Users : Set(w, [step |-> "revoke", user |-> u])
      BY <2>1 DEF RevokeCheck
    <3>2. [step |-> "revoke", user |-> u] \in Work
      BY DEF Work
    <3> QED
      BY <2>1, <3>1, <3>2, QuietStep DEF RevokeCheck
  <2>2. CASE RevokeRead(w)
    BY <2>2, RevokeReadStep
  <2>3. CASE RevokeCommit(w)
    BY <2>3, RevokeCommitStep
  <2> QED
    BY <1>2, <2>1, <2>2, <2>3 DEF RevokeStep
<1>3. ASSUME NEW w \in Workers, GiveUp(w) PROVE VInv' /\ Moves
  <2>1. Idle \in Work /\ Idle.step = "idle"
    BY DEF Work, Idle
  <2> QED
    BY <1>3, <2>1, QuietStep DEF GiveUp
<1>4. ASSUME NEW w \in Workers, AdminStep(w) PROVE VInv' /\ Moves
  BY <1>4, AdminOpenStep, AdminSetsStep DEF AdminStep
<1>5. ASSUME NEW c \in Codes, Invalidate(c) PROVE VInv' /\ Moves
  BY <1>5, UnchangedStep DEF Invalidate, VInv, TypeOK
<1>6. CASE UNCHANGED vars
  BY <1>6, UnchangedStep DEF vars, VInv, TypeOK
<1> QED
  BY <1>1, <1>2, <1>3, <1>4, <1>5, <1>6, DecisionStep, TickStep DEF Next

-----------------------------------------------------------------------------
(* The theorems *)

\* The invariant holds of every execution.
THEOREM VerificationHolds == Spec => []VInv
<1>1. Init => VInv
  BY InitV
<1>2. VInv /\ [Next]_vars => VInv'
  BY NextV
<1> QED
  BY <1>1, <1>2, PTL DEF Spec

\* The variables keep their types; the histories stay sequences of records.
THEOREM VerificationTypes == Spec => []TypeOK
<1>1. VInv => TypeOK
  BY DEF VInv
<1> QED
  BY <1>1, VerificationHolds, PTL

\* No code verifies more people than it may, every counted use gave a record,
\* and a user spends no more uses between two times without the badge than
\* there are workers, though redeem_invite does not load the user again.
THEOREM CodesAreAccounted == Spec => []CodesAccounted
<1>1. VInv => CodesAccounted
  <2> SUFFICES ASSUME VInv, NEW u \in Users PROVE since[u] <= Cardinality(Workers)
    BY DEF VInv, UsesAccounted, CodesAccounted
  <2>1. Unbadged(u) \in SUBSET Workers
    BY DEF Unbadged
  <2> DEFINE has == Cardinality(Unbadged(u))
             all == Cardinality(Workers)
  <2>2. has \in Nat /\ all \in Nat
    BY <2>1, UnbadgedFinite
  <2>3. since[u] \in Nat /\ (since[u] + has <= all \/ since[u] = 0)
    BY DEF VInv, TypeOK, BadgeCounts
  <2> HIDE DEF has, all
  <2>4. since[u] <= all
    BY <2>2, <2>3
  <2> QED
    BY <2>4 DEF all
<1> QED
  BY <1>1, VerificationHolds, PTL

\* Whoever is verified has an approved record for revoke_verification to find,
\* or a badge that the administrator or an account form put there.
THEOREM VerifiedIsRecorded == Spec => []VerifiedHasApproved
<1>1. VInv => VerifiedHasApproved
  BY DEF VInv
<1> QED
  BY <1>1, VerificationHolds, PTL

\* Verification implements BadgeContract: whatever moderators, applicants, codes,
\* administrators, account forms and deletions do at the same time, each step is
\* a ruling with its badge, a badge put by a page that may, or unseen, although
\* revoke_verification and the forms write what they have read without a lock.
THEOREM VerificationKeepsBadges == Spec => KeepsBadges
<1>1. VInv /\ [Next]_vars => [Contract!Next]_(Contract!vars)
  BY NextV DEF Moves
<1> QED
  BY <1>1, InitBadges, VerificationHolds, PTL DEF Spec, KeepsBadges, Contract!Spec
=============================================================================
