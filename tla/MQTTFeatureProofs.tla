-------------------------- MODULE MQTTFeatureProofs --------------------------
(***************************************************************************)
(* Proofs about the life of MQTT plugins, for any number of                *)
(* configurations, concurrent mutations and versions.                      *)
(***************************************************************************)
EXTENDS MQTTFeature, FiniteSetTheorems, TLAPS

Constants == IsFiniteSet(Id) /\ MaxVersion \in Nat \ {0} /\ Invalid \subseteq 1..MaxVersion

LEMMA ConstantsOK == Constants
BY FeatureAssumption DEF Constants

-----------------------------------------------------------------------------
(* The inductive invariant                                                 *)

Made == [id : Id, version : 1..MaxVersion]

\* The feature's map: each id's plugin is one of its own, and it is alive as
\* long as the server is.
MapInv ==
    \A id \in Id : dataPlugins[id] # NoPlugin =>
        /\ made[dataPlugins[id]].id = id
        /\ ~ stopped => dataPlugins[id] \notin destroyed

\* The router's plugins: what it has started and not destroyed it still has.
RouterInv ==
    /\ started \ destroyed \subseteq registered
    /\ stopped => registered = {}

\* What the row of an id says that its plugin is.
Agrees(id) ==
    IF rows[id] \in {NotYet, Gone} \cup Invalid THEN dataPlugins[id] = NoPlugin
    ELSE dataPlugins[id] # NoPlugin /\ made[dataPlugins[id]].version = rows[id]

\* A mutation that is alone with its id has read, or is going to read, what it
\* has written.
Fresh(id) ==
    /\ \A r, q \in InFlight(id) : r = q
    /\ \A r \in InFlight(id) :
          IF requests[r].op = "delete" THEN rows[id] = Gone
          ELSE rows[id] \notin {NotYet, Gone} /\ requests[r].read \in {NotYet, rows[id]}
    /\ InFlight(id) = {} /\ ~ stopped => Agrees(id)

WrittenInv == written \in 1..MaxVersion

IInv ==
    /\ TypeOK /\ NoLeakedClient
    /\ WrittenInv /\ MapInv /\ RouterInv
    /\ \A id \in Id \ suspect : Fresh(id)

\* What the type invariant says of the plugins, one by one.
LEMMA Types ==
    ASSUME TypeOK
    PROVE  /\ made \in Seq(Made)
           /\ \A o \in DOMAIN made : made[o].id \in Id /\ made[o].version \in 1..MaxVersion
           /\ DOMAIN made = 1..Len(made) /\ Len(made) \in Nat
           /\ NoPlugin \notin DOMAIN made
           /\ Len(made) + 1 \notin DOMAIN made
<1>1. made \in Seq(Made)
  BY DEF TypeOK, Made
<1>2. DOMAIN made = 1..Len(made) /\ Len(made) \in Nat
  BY <1>1
<1>3. \A o \in DOMAIN made : made[o] \in Made
  BY <1>1, <1>2
<1> QED BY <1>1, <1>2, <1>3 DEF Made, NoPlugin

-----------------------------------------------------------------------------
(* The initial state                                                       *)

\* SetToSeq gives each member of a finite set one place.
LEMMA SetToSeqOfFinite ==
    ASSUME NEW S, IsFiniteSet(S)
    PROVE  /\ SetToSeq(S) \in Seq(S)
           /\ \A a, b \in DOMAIN SetToSeq(S) : SetToSeq(S)[a] = SetToSeq(S)[b] => a = b
           /\ \A x \in S : \E a \in DOMAIN SetToSeq(S) : SetToSeq(S)[a] = x
<1> DEFINE n == Cardinality(S)
           f == SetToSeq(S)
<1>1. n \in Nat /\ ExistsBijection(1..n, S)
  BY FS_CardinalityType
<1>2. f \in [1..n -> S] /\ IsInjective(f)
  BY <1>1 DEF SetToSeq, ExistsBijection, Bijection, Injection
<1>3. \A a, b \in 1..n : f[a] = f[b] => a = b
  BY <1>2 DEF IsInjective
<1>4. f \in Seq(S) /\ DOMAIN f = 1..n
  BY <1>1, <1>2
<1> HIDE DEF f
<1>5. \A x \in S : \E a \in 1..n : f[a] = x
  <2>1. f \in Injection(1..n, S)
    BY <1>2 DEF Injection
  <2>2. IsFiniteSet(1..n) /\ Cardinality(1..n) = n
    BY <1>1, FS_Interval
  <2>3. f \in Surjection(1..n, S)
    BY <2>1, <2>2, FS_Injection
  <2> QED BY <2>3 DEF Surjection
<1> QED BY <1>3, <1>4, <1>5 DEF f

LEMMA InitFeature == Init => IInv
<1> SUFFICES ASSUME Init PROVE IInv
  OBVIOUS
<1> USE ConstantsOK DEF Constants
<1> DEFINE first == {i \in Id : rows[i] = 1 /\ 1 \notin Invalid}
           S == {[id |-> id, version |-> 1] : id \in first}
<1>1. IsFiniteSet(S)
  <2> DEFINE f == [x \in S |-> x.id]
  <2>1. f \in [S -> Id] /\ \A x, y \in S : x.id = y.id => x = y
    OBVIOUS
  <2>2. f \in Injection(S, Id)
    BY <2>1 DEF Injection, IsInjective
  <2> QED BY <2>2, FS_Injection
<1>2. /\ made \in Seq(S)
      /\ \A a, b \in DOMAIN made : made[a] = made[b] => a = b
      /\ \A x \in S : \E a \in DOMAIN made : made[a] = x
  BY <1>1, SetToSeqOfFinite DEF Init
<1>3. S \subseteq Made
  BY DEF Made
<1>4. /\ made \in Seq(Made) /\ DOMAIN made = 1..Len(made) /\ Len(made) \in Nat
      /\ \A o \in DOMAIN made : made[o] \in S
  <2> HIDE DEF S
  <2> QED BY <1>2, <1>3
<1>5. \A o \in DOMAIN made : made[o].id \in first /\ made[o].version = 1
  BY <1>4
<1>6. \A o, q \in DOMAIN made : made[o].id = made[q].id => o = q
  <2> SUFFICES ASSUME NEW o \in DOMAIN made, NEW q \in DOMAIN made, made[o].id = made[q].id
               PROVE  o = q
    OBVIOUS
  <2>1. made[o] \in S /\ made[q] \in S
    BY <1>4
  <2>2. \A x, y \in S : x.id = y.id => x = y
    OBVIOUS
  <2>3. made[o] = made[q]
    BY <2>1, <2>2
  <2> QED BY <1>2, <2>3
<1>7. \A i \in first : \E o \in DOMAIN made : made[o].id = i
  <2> SUFFICES ASSUME NEW i \in first PROVE \E o \in DOMAIN made : made[o].id = i
    OBVIOUS
  <2>1. [id |-> i, version |-> 1] \in S
    OBVIOUS
  <2>2. PICK o \in DOMAIN made : made[o] = [id |-> i, version |-> 1]
    BY <1>2, <2>1
  <2> QED BY <2>2
<1> HIDE DEF first, S
<1>8. \A id \in Id :
         LET mine == {o \in DOMAIN made : made[o].id = id}
         IN  dataPlugins[id] = IF mine = {} THEN NoPlugin ELSE CHOOSE o \in mine : TRUE
  BY DEF Init
<1>9. \A id \in Id, o \in DOMAIN made : made[o].id = id => dataPlugins[id] = o
  <2> SUFFICES ASSUME NEW id \in Id, NEW o \in DOMAIN made, made[o].id = id
               PROVE  dataPlugins[id] = o
    OBVIOUS
  <2>1. {q \in DOMAIN made : made[q].id = id} = {o}
    BY <1>6
  <2> QED BY <1>8, <2>1
<1>10. \A id \in Id : (\A o \in DOMAIN made : made[o].id # id) => dataPlugins[id] = NoPlugin
  BY <1>8
<1>11. \A id \in Id : IF id \in first
                        THEN /\ dataPlugins[id] \in DOMAIN made
                             /\ made[dataPlugins[id]].id = id
                             /\ made[dataPlugins[id]].version = 1
                        ELSE dataPlugins[id] = NoPlugin
  BY <1>5, <1>7, <1>9, <1>10
<1>12. TypeOK
  <2>1. {announce, stopped, unmade} \subseteq BOOLEAN
    BY DEF Init
  <2>2. dataPlugins \in [Id -> {NoPlugin} \cup DOMAIN made]
    BY <1>11 DEF Init
  <2>3. rows \in [Id -> Row]
    BY DEF Init, Row, NotYet
  <2>4. requests \in [Request -> {Free} \cup Mutation]
    BY DEF Init
  <2>5. destroyed = {} /\ registered = DOMAIN made /\ started = DOMAIN made /\ suspect = {}
    BY DEF Init
  <2> QED BY <1>4, <2>1, <2>2, <2>3, <2>4, <2>5 DEF TypeOK, Made
<1>13. NoLeakedClient
  BY <1>5, <1>9 DEF NoLeakedClient, Init, first
<1>14. MapInv /\ RouterInv /\ WrittenInv
  <2>1. MapInv
    <3>1. destroyed = {}
      BY DEF Init
    <3> QED BY <1>11, <3>1 DEF MapInv
  <2>2. started = registered /\ stopped = FALSE /\ written = 1
    BY DEF Init
  <2> QED BY <2>1, <2>2 DEF RouterInv, WrittenInv
<1>15. \A id \in Id : InFlight(id) = {} /\ Agrees(id)
  <2> SUFFICES ASSUME NEW id \in Id PROVE InFlight(id) = {} /\ Agrees(id)
    OBVIOUS
  <2>1. InFlight(id) = {}
    BY DEF InFlight, Init
  <2>2. rows[id] \in {NotYet, 1}
    BY DEF Init
  <2>3. id \in first => rows[id] = 1 /\ 1 \notin Invalid
    BY DEF first
  <2>4. id \notin first => rows[id] = NotYet \/ rows[id] \in Invalid
    BY <2>2 DEF first
  <2>5. dataPlugins[id] \in DOMAIN made => dataPlugins[id] # NoPlugin
    BY <1>4 DEF NoPlugin
  <2> QED BY <1>11, <2>1, <2>3, <2>4, <2>5 DEF Agrees, NotYet, Gone
<1> QED BY <1>12, <1>13, <1>14, <1>15 DEF IInv, Fresh

-----------------------------------------------------------------------------
(* Mutations                                                               *)

LEMMA WriteKeeps ==
    ASSUME IInv, NEW r \in Request, NEW id \in Id,
           Save(r, id) \/ Delete(r, id)
    PROVE  IInv'
<1> USE ConstantsOK DEF Constants
<1>1. PICK op \in {"save", "delete"}, row \in Row :
          /\ Write(r, id, op, row)
          /\ IF op = "delete" THEN row = Gone ELSE row = written + 1
  <2>1. written + 1 \in Row \/ ~ (written < MaxVersion)
    BY DEF IInv, WrittenInv, Row, NotYet
  <2>2. Gone \in Row
    BY DEF Gone, Row, NotYet
  <2> QED BY <2>1, <2>2 DEF Save, Delete, Write
<1>2. /\ requests[r] = Free /\ written < MaxVersion /\ written' = written + 1
      /\ rows' = [rows EXCEPT ![id] = row]
      /\ requests' = [requests EXCEPT ![r] = [op |-> op, id |-> id, read |-> NotYet]]
      /\ suspect' = IF InFlight(id) = {} THEN suspect \ {id} ELSE suspect \cup {id}
      /\ UNCHANGED <<made, dataPlugins, destroyed, announce, registered, started, stopped, unmade>>
  BY <1>1 DEF Write
<1>3. WrittenInv'
  BY <1>2 DEF IInv, WrittenInv
<1>4. TypeOK'
  <2>1. {announce, stopped, unmade}' \subseteq BOOLEAN
    BY <1>2, Zenon DEF IInv, TypeOK
  <2>2. [op |-> op, id |-> id, read |-> NotYet] \in Mutation
    BY DEF Mutation, NotYet, Row
  <2>3. requests' \in [Request -> {Free} \cup Mutation] /\ rows' \in [Id -> Row]
    BY <1>2, <2>2 DEF IInv, TypeOK
  <2> QED BY <1>2, <2>1, <2>3 DEF IInv, TypeOK
<1>5. NoLeakedClient' /\ MapInv' /\ RouterInv'
  BY <1>2 DEF IInv, NoLeakedClient, MapInv, RouterInv
<1>6. \A j \in Id : InFlight(j)' = IF j = id THEN InFlight(j) \cup {r} ELSE InFlight(j)
  BY <1>2 DEF InFlight, Free, IInv, TypeOK
<1>7. ASSUME NEW j \in Id, j \notin suspect' PROVE Fresh(j)'
  <2>1. CASE j = id
    <3>1. InFlight(id) = {} /\ InFlight(j)' = {r}
      BY <1>2, <1>6, <1>7, <2>1
    <3>2. requests'[r].op = op /\ requests'[r].read = NotYet /\ rows'[j] = row
      BY <1>2, <2>1 DEF IInv, TypeOK
    <3>3. op = "delete" \/ row \notin {NotYet, Gone}
      BY <1>1 DEF IInv, WrittenInv, NotYet, Gone
    <3> QED BY <1>1, <3>1, <3>2, <3>3 DEF Fresh
  <2>2. CASE j # id
    <3>1. j \notin suspect /\ InFlight(j)' = InFlight(j) /\ rows'[j] = rows[j]
      BY <1>2, <1>6, <1>7, <2>2 DEF IInv, TypeOK
    <3>2. \A q \in InFlight(j) : requests'[q] = requests[q]
      BY <1>2 DEF InFlight, IInv, TypeOK
    <3>3. Fresh(j) /\ (Agrees(j)' <=> Agrees(j))
      BY <1>2, <3>1 DEF IInv, Agrees
    <3> QED BY <1>2, <3>1, <3>2, <3>3 DEF Fresh
  <2> QED BY <2>1, <2>2
<1> QED BY <1>3, <1>4, <1>5, <1>7 DEF IInv

LEMMA FetchKeeps == ASSUME IInv, NEW r \in Request, Fetch(r) PROVE IInv'
<1>1. /\ requests[r].op = "save" /\ requests[r].read = NotYet
      /\ requests' = [requests EXCEPT ![r].read = rows[requests[r].id]]
      /\ UNCHANGED <<rows, written, made, dataPlugins, destroyed, announce, registered,
                     started, stopped, suspect, unmade>>
  BY DEF Fetch
<1>2. requests[r] # Free /\ requests[r] \in Mutation
  BY <1>1 DEF IInv, TypeOK, Free
<1> DEFINE next == [requests[r] EXCEPT !.read = rows[requests[r].id]]
<1>3. /\ next \in Mutation /\ next.op = "save" /\ next.id = requests[r].id
      /\ next.read = rows[requests[r].id] /\ next # Free
  BY <1>1, <1>2 DEF Mutation, IInv, TypeOK, Free
<1>4. \A q \in Request : requests'[q] = IF q = r THEN next ELSE requests[q]
  BY <1>1 DEF IInv, TypeOK
<1> HIDE DEF next
<1>5. TypeOK'
  <2>1. {announce, stopped, unmade}' \subseteq BOOLEAN
    BY <1>1, Zenon DEF IInv, TypeOK
  <2>2. requests' \in [Request -> {Free} \cup Mutation]
    BY <1>1, <1>3 DEF IInv, TypeOK, next
  <2> QED BY <1>1, <2>1, <2>2 DEF IInv, TypeOK
<1>6. NoLeakedClient' /\ MapInv' /\ RouterInv' /\ WrittenInv'
  BY <1>1 DEF IInv, NoLeakedClient, MapInv, RouterInv, WrittenInv
<1>7. \A j \in Id : InFlight(j)' = InFlight(j)
  BY <1>2, <1>3, <1>4 DEF InFlight
<1>8. ASSUME NEW j \in Id, j \notin suspect' PROVE Fresh(j)'
  <2>1. Fresh(j) /\ (Agrees(j)' <=> Agrees(j))
    BY <1>1, <1>8 DEF IInv, Agrees
  <2>2. \A q \in InFlight(j) : q = r => requests[r].id = j
    BY DEF InFlight
  <2> QED BY <1>1, <1>3, <1>4, <1>7, <2>1, <2>2 DEF Fresh
<1> QED BY <1>5, <1>6, <1>8 DEF IInv

LEMMA FetchFailsKeeps == ASSUME IInv, NEW r \in Request, FetchFails(r) PROVE IInv'
<1>1. /\ requests[r].op = "save" /\ requests' = [requests EXCEPT ![r] = Free]
      /\ suspect' = suspect \cup {requests[r].id}
      /\ UNCHANGED <<rows, written, made, dataPlugins, destroyed, announce, registered,
                     started, stopped, unmade>>
  BY DEF FetchFails
<1>2. requests[r] # Free /\ requests[r] \in Mutation /\ requests[r].id \in Id
  BY <1>1 DEF IInv, TypeOK, Free, Mutation
<1>3. TypeOK'
  <2>1. {announce, stopped, unmade}' \subseteq BOOLEAN
    BY <1>1, Zenon DEF IInv, TypeOK
  <2> QED BY <1>1, <1>2, <2>1 DEF IInv, TypeOK
<1>4. NoLeakedClient' /\ MapInv' /\ RouterInv' /\ WrittenInv'
  BY <1>1 DEF IInv, NoLeakedClient, MapInv, RouterInv, WrittenInv
<1>5. ASSUME NEW j \in Id, j \notin suspect' PROVE Fresh(j)'
  <2>1. j \notin suspect /\ j # requests[r].id
    BY <1>1, <1>5
  <2>2. \A q \in Request : q # r => requests'[q] = requests[q]
    BY <1>1 DEF IInv, TypeOK
  <2>3. requests'[r] = Free
    BY <1>1 DEF IInv, TypeOK
  <2>4. InFlight(j)' = InFlight(j) /\ r \notin InFlight(j)
    BY <2>1, <2>2, <2>3 DEF InFlight
  <2>5. Fresh(j) /\ (Agrees(j)' <=> Agrees(j))
    BY <1>1, <2>1 DEF IInv, Agrees
  <2>6. \A q \in InFlight(j) : requests'[q] = requests[q]
    BY <2>2, <2>4 DEF InFlight
  <2> QED BY <1>1, <2>4, <2>5, <2>6 DEF Fresh
<1> QED BY <1>3, <1>4, <1>5 DEF IInv

\* The row that a mutation has read, if there was one, is one that was written.
LEMMA VersionType ==
    ASSUME IInv, NEW r \in Request, requests[r].op = "save", requests[r].read \notin {NotYet, Gone}
    PROVE  /\ requests[r] \in Mutation /\ requests[r].id \in Id
           /\ requests[r].read \in 1..MaxVersion
<1>1. requests[r] \in Mutation
  BY DEF IInv, TypeOK, Free
<1> QED BY <1>1, ConstantsOK DEF Mutation, Row, NotYet, Gone, Constants

LEMMA Appended ==
    ASSUME NEW S, NEW s \in Seq(S), NEW e \in S
    PROVE  /\ Append(s, e) \in Seq(S) /\ Len(Append(s, e)) = Len(s) + 1
           /\ DOMAIN Append(s, e) = 1..(Len(s) + 1) /\ DOMAIN s = 1..Len(s)
           /\ \A p \in 1..Len(s) : Append(s, e)[p] = s[p]
           /\ Append(s, e)[Len(s) + 1] = e
OBVIOUS

\* A mutation of the plugin of id: the plugins of other ids stay, the old one
\* of id is destroyed, and the new one, if there is one, is made for it.
LEMMA ReplaceKeeps ==
    ASSUME IInv, NEW id \in Id, NEW o \in Nat,
           dataPlugins' = [dataPlugins EXCEPT ![id] = o],
           destroyed' = DestroyDataPlugin(id),
           \/ o = NoPlugin /\ UNCHANGED made
           \/ /\ o = Len(made) + 1
              /\ \E v \in 1..MaxVersion : made' = Append(made, [id |-> id, version |-> v]),
           announce' \in BOOLEAN, unmade' \in BOOLEAN,
           requests' \in [Request -> {Free} \cup Mutation],
           UNCHANGED <<rows, written, registered, started, stopped, suspect>>
    PROVE  TypeOK' /\ NoLeakedClient' /\ MapInv' /\ RouterInv' /\ WrittenInv'
<1>1. /\ made \in Seq(Made) /\ DOMAIN made = 1..Len(made) /\ Len(made) \in Nat
      /\ NoPlugin \notin DOMAIN made /\ Len(made) + 1 \notin DOMAIN made
      /\ \A p \in DOMAIN made : made[p].id \in Id
  BY Types DEF IInv
<1>2. /\ made' \in Seq(Made)
      /\ DOMAIN made \subseteq DOMAIN made'
      /\ \A p \in DOMAIN made : made'[p] = made[p]
      /\ \A p \in DOMAIN made' \ DOMAIN made : p = o
      /\ o # NoPlugin => o \in DOMAIN made' \ DOMAIN made /\ made'[o].id = id
  <2>1. CASE o = NoPlugin /\ UNCHANGED made
    BY <1>1, <2>1
  <2>2. CASE o = Len(made) + 1 /\ \E v \in 1..MaxVersion : made' = Append(made, [id |-> id, version |-> v])
    <3>1. PICK v \in 1..MaxVersion : made' = Append(made, [id |-> id, version |-> v])
      BY <2>2
    <3>2. [id |-> id, version |-> v] \in Made
      BY DEF Made
    <3>3. PICK e \in Made : e = [id |-> id, version |-> v]
      BY <3>2
    <3>4. made' = Append(made, e) /\ e.id = id
      BY <3>1, <3>3
    <3>5. /\ Append(made, e) \in Seq(Made) /\ DOMAIN Append(made, e) = 1..(Len(made) + 1)
          /\ \A p \in 1..Len(made) : Append(made, e)[p] = made[p]
          /\ Append(made, e)[Len(made) + 1] = e
      BY <1>1, Appended
    <3>6. /\ made' \in Seq(Made) /\ DOMAIN made' = 1..(Len(made) + 1)
          /\ \A p \in 1..Len(made) : made'[p] = made[p]
          /\ made'[Len(made) + 1].id = id
      BY <3>4, <3>5
    <3>7. /\ DOMAIN made' \ DOMAIN made = {Len(made) + 1}
          /\ DOMAIN made \subseteq DOMAIN made'
      BY <1>1, <3>6
    <3> QED BY <1>1, <2>2, <3>6, <3>7
  <2> QED BY <2>1, <2>2
<1>3. destroyed' = destroyed \cup ({dataPlugins[id]} \ {NoPlugin})
  BY DEF DestroyDataPlugin
<1>4. dataPlugins \in [Id -> {NoPlugin} \cup DOMAIN made] /\ destroyed \subseteq DOMAIN made
      /\ registered \subseteq DOMAIN made /\ started \subseteq DOMAIN made
  BY DEF IInv, TypeOK
<1>5. TypeOK'
  <2>1. {announce, stopped, unmade}' \subseteq BOOLEAN
    BY Zenon DEF IInv, TypeOK
  <2>2. dataPlugins' \in [Id -> {NoPlugin} \cup DOMAIN made']
    BY <1>2, <1>4
  <2>3. destroyed' \subseteq DOMAIN made' /\ registered' \subseteq DOMAIN made'
        /\ started' \subseteq DOMAIN made'
    BY <1>2, <1>3, <1>4
  <2>4. rows' \in [Id -> Row] /\ suspect' \subseteq Id
    BY DEF IInv, TypeOK
  <2> QED BY <1>2, <2>1, <2>2, <2>3, <2>4 DEF TypeOK, Made
<1>6. NoLeakedClient'
  <2> SUFFICES ASSUME NEW p \in started \ destroyed'
               PROVE  ~ stopped /\ dataPlugins'[made'[p].id] = p
    BY DEF NoLeakedClient
  <2>1. p \in DOMAIN made /\ made'[p] = made[p] /\ ~ stopped /\ dataPlugins[made[p].id] = p
    BY <1>2, <1>3, <1>4 DEF IInv, NoLeakedClient
  <2>2. made[p].id # id
    BY <1>1, <1>3, <2>1
  <2> QED BY <1>1, <1>4, <2>1, <2>2
<1>7. MapInv'
  <2> SUFFICES ASSUME NEW j \in Id, dataPlugins'[j] # NoPlugin
               PROVE  /\ made'[dataPlugins'[j]].id = j
                      /\ ~ stopped => dataPlugins'[j] \notin destroyed'
    BY DEF MapInv
  <2>1. CASE j = id
    <3>1. dataPlugins'[j] = o
      BY <1>4, <2>1
    <3> QED BY <1>2, <1>3, <1>4, <2>1, <3>1
  <2>2. CASE j # id
    <3>1. dataPlugins'[j] = dataPlugins[j] /\ dataPlugins[j] \in DOMAIN made
      BY <1>4, <2>2
    <3>2. made[dataPlugins[j]].id = j /\ ~ stopped => dataPlugins[j] \notin destroyed
      BY <3>1 DEF IInv, MapInv
    <3>3. dataPlugins[id] # NoPlugin => made[dataPlugins[id]].id = id
      BY DEF IInv, MapInv
    <3>4. made[dataPlugins[j]].id = j
      BY <3>1 DEF IInv, MapInv
    <3> QED BY <1>2, <1>3, <2>2, <3>1, <3>2, <3>3, <3>4
  <2> QED BY <2>1, <2>2
<1>8. RouterInv' /\ WrittenInv'
  BY <1>3 DEF IInv, RouterInv, WrittenInv
<1> QED BY <1>5, <1>6, <1>7, <1>8

\* The other ids see nothing of a mutation that ends.
LEMMA EndedFresh ==
    ASSUME IInv, NEW r \in Request, requests[r] \in Mutation,
           requests' = [requests EXCEPT ![r] = Free],
           \A j \in Id : j # requests[r].id => (Agrees(j) => Agrees(j)'),
           NEW i \in Id, i = requests[r].id, ~ stopped /\ i \notin suspect => Agrees(i)',
           UNCHANGED <<rows, stopped, suspect>>
    PROVE  \A j \in Id \ suspect' : Fresh(j)'
<1> SUFFICES ASSUME NEW j \in Id \ suspect PROVE Fresh(j)'
  OBVIOUS
<1>1. \A q \in Request : requests'[q] = IF q = r THEN Free ELSE requests[q]
  BY DEF IInv, TypeOK
<1>2. InFlight(j)' = InFlight(j) \ {r}
  BY <1>1 DEF InFlight
<1>3. requests[r] # Free
  BY DEF Mutation, Free
<1>4. r \in InFlight(j) <=> j = i
  BY <1>3 DEF InFlight
<1>5. Fresh(j)
  BY DEF IInv
<1>6. \A q \in InFlight(j)' : requests'[q] = requests[q] /\ q \in InFlight(j)
  BY <1>1, <1>2
<1>7. InFlight(j)' = {} /\ ~ stopped' => Agrees(j)'
  <2>1. CASE j = i
    BY <2>1
  <2>2. CASE j # i
    BY <1>2, <1>4, <1>5, <2>2 DEF Fresh
  <2> QED BY <2>1, <2>2
<1> QED BY <1>2, <1>5, <1>6, <1>7 DEF Fresh

LEMMA SavedKeeps == ASSUME IInv, NEW r \in Request, Saved(r) PROVE IInv'
<1> USE ConstantsOK DEF Constants
<1>0. requests[r] \in Mutation /\ requests[r] # Free
  BY DEF Saved, IInv, TypeOK, Free, Mutation
<1>9. PICK id \in Id : id = requests[r].id
  BY <1>0 DEF Mutation
<1> DEFINE v == requests[r].read
<1>1. /\ requests[r].op = "save" /\ v # NotYet
      /\ requests' = [requests EXCEPT ![r] = Free]
      /\ UNCHANGED <<rows, written, registered, started, stopped, suspect>>
  BY DEF Saved
<1>3. requests' \in [Request -> {Free} \cup Mutation]
  BY <1>1 DEF IInv, TypeOK
<1>4. id \notin suspect => Fresh(id) /\ r \in InFlight(id)
  BY <1>0, <1>9 DEF IInv, InFlight
<1>5. id \notin suspect => rows[id] = v /\ v # Gone
  BY <1>1, <1>4 DEF Fresh
<1>6. CASE v = Gone
  <2>1. UNCHANGED <<made, dataPlugins, destroyed, announce, unmade>>
    BY <1>6 DEF Saved
  <2>2. TypeOK'
    <3>1. {announce, stopped, unmade}' \subseteq BOOLEAN
      BY <1>1, <2>1, Zenon DEF IInv, TypeOK
    <3> QED BY <1>1, <1>3, <2>1, <3>1 DEF IInv, TypeOK
  <2>3. NoLeakedClient' /\ MapInv' /\ RouterInv' /\ WrittenInv'
    BY <1>1, <2>1 DEF IInv, NoLeakedClient, MapInv, RouterInv, WrittenInv
  <2>4. \A j \in Id : Agrees(j) => Agrees(j)'
    BY <1>1, <2>1 DEF Agrees
  <2>5. \A j \in Id \ suspect' : Fresh(j)'
    BY <1>1, <1>0, <1>9, <1>5, <1>6, <2>4, EndedFresh
  <2> QED BY <2>2, <2>3, <2>5 DEF IInv
<1>7. CASE v # Gone
  <2>1. CreateDataPlugin(id, v)
    BY <1>7, <1>9 DEF Saved
  <2>2. v \in 1..MaxVersion
    BY <1>1, <1>7, VersionType
  <2>3. unmade' \in BOOLEAN
    BY <2>1, Zenon DEF CreateDataPlugin
  <2>4. /\ dataPlugins \in [Id -> {NoPlugin} \cup DOMAIN made]
        /\ DOMAIN made = 1..Len(made) /\ Len(made) \in Nat /\ made \in Seq(Made)
        /\ NoPlugin \notin DOMAIN made /\ Len(made) + 1 # NoPlugin
    BY Types DEF IInv, TypeOK, NoPlugin
  <2>5. CASE v \in Invalid
    <3>1. /\ dataPlugins' = [dataPlugins EXCEPT ![id] = NoPlugin]
          /\ destroyed' = DestroyDataPlugin(id) /\ UNCHANGED <<made, announce>>
      BY <2>1, <2>5 DEF CreateDataPlugin
    <3>2. announce' \in BOOLEAN /\ NoPlugin \in Nat
      BY <3>1 DEF IInv, TypeOK, NoPlugin
    <3>3. TypeOK' /\ NoLeakedClient' /\ MapInv' /\ RouterInv' /\ WrittenInv'
      BY <1>1, <1>0, <1>9, <1>3, <2>3, <3>1, <3>2, ReplaceKeeps
    <3>4. \A j \in Id : j # id => (Agrees(j) => Agrees(j)')
      BY <1>1, <2>4, <3>1 DEF Agrees
    <3>5. id \notin suspect => Agrees(id)'
      BY <1>1, <1>0, <1>9, <1>5, <2>4, <2>5, <3>1 DEF Agrees
    <3>6. \A j \in Id \ suspect' : Fresh(j)'
      BY <1>1, <1>0, <1>9, <3>4, <3>5, EndedFresh
    <3> QED BY <3>3, <3>6 DEF IInv
  <2>6. CASE v \notin Invalid
    <3> DEFINE o == Len(made) + 1
    <3>1. /\ made' = Append(made, [id |-> id, version |-> v])
          /\ dataPlugins' = [dataPlugins EXCEPT ![id] = Len(made')]
          /\ destroyed' = DestroyDataPlugin(id) /\ announce' = TRUE
      BY <2>1, <2>6 DEF CreateDataPlugin
    <3>2. [id |-> id, version |-> v] \in Made
      BY <1>0, <1>9, <2>2 DEF Made
    <3>3. /\ Len(made') = o /\ o \in Nat
          /\ \A p \in DOMAIN made : made'[p] = made[p]
          /\ made'[o] = [id |-> id, version |-> v]
      BY <2>4, <3>1, <3>2
    <3>4. TypeOK' /\ NoLeakedClient' /\ MapInv' /\ RouterInv' /\ WrittenInv'
      <4>1. dataPlugins' = [dataPlugins EXCEPT ![id] = o] /\ announce' \in BOOLEAN
        BY <3>1, <3>3
      <4>2. \E w \in 1..MaxVersion : made' = Append(made, [id |-> id, version |-> w])
        BY <2>2, <3>1
      <4> QED BY <1>1, <1>0, <1>9, <1>3, <2>3, <3>1, <3>3, <4>1, <4>2, ReplaceKeeps
    <3>5. \A j \in Id : j # id => (Agrees(j) => Agrees(j)')
      BY <1>1, <2>4, <3>1, <3>3 DEF Agrees
    <3>6. id \notin suspect => Agrees(id)'
      BY <1>1, <1>0, <1>9, <1>5, <2>4, <2>6, <3>1, <3>3 DEF Agrees
    <3>7. \A j \in Id \ suspect' : Fresh(j)'
      BY <1>1, <1>0, <1>9, <3>5, <3>6, EndedFresh
    <3> QED BY <3>4, <3>7 DEF IInv
  <2> QED BY <2>5, <2>6
<1> QED BY <1>6, <1>7

LEMMA DeletedKeeps == ASSUME IInv, NEW r \in Request, Deleted(r) PROVE IInv'
<1> USE ConstantsOK DEF Constants
<1>0. requests[r] \in Mutation /\ requests[r] # Free
  BY DEF Deleted, IInv, TypeOK, Free, Mutation
<1>9. PICK id \in Id : id = requests[r].id
  BY <1>0 DEF Mutation
<1>1. /\ requests[r].op = "delete" /\ requests' = [requests EXCEPT ![r] = Free]
      /\ UNCHANGED <<rows, written, made, registered, started, stopped, suspect, unmade>>
  BY DEF Deleted
<1>3. requests' \in [Request -> {Free} \cup Mutation]
  BY <1>1 DEF IInv, TypeOK
<1>4. id \notin suspect => rows[id] = Gone
  <2>1. id \notin suspect => Fresh(id) /\ r \in InFlight(id)
    BY <1>0, <1>9 DEF IInv, InFlight
  <2> QED BY <1>1, <2>1 DEF Fresh
<1>5. CASE stopped
  <2>1. UNCHANGED <<destroyed, dataPlugins, announce>>
    BY <1>5 DEF Deleted
  <2>2. TypeOK'
    <3>1. {announce, stopped, unmade}' \subseteq BOOLEAN
      BY <1>1, <2>1, Zenon DEF IInv, TypeOK
    <3> QED BY <1>1, <1>3, <2>1, <3>1 DEF IInv, TypeOK
  <2>3. NoLeakedClient' /\ MapInv' /\ RouterInv' /\ WrittenInv'
    BY <1>1, <2>1 DEF IInv, NoLeakedClient, MapInv, RouterInv, WrittenInv
  <2>4. \A j \in Id : Agrees(j) => Agrees(j)'
    BY <1>1, <2>1 DEF Agrees
  <2>5. \A j \in Id \ suspect' : Fresh(j)'
    BY <1>1, <1>0, <1>9, <1>5, <2>4, EndedFresh
  <2> QED BY <2>2, <2>3, <2>5 DEF IInv
<1>6. CASE ~ stopped
  <2>1. /\ destroyed' = DestroyDataPlugin(id) /\ announce' = TRUE
        /\ dataPlugins' = [dataPlugins EXCEPT ![id] = NoPlugin]
    BY <1>6, <1>9 DEF Deleted
  <2>2. announce' \in BOOLEAN /\ NoPlugin \in Nat
    BY <2>1 DEF NoPlugin
  <2>3. unmade' \in BOOLEAN
    BY <1>1, Zenon DEF IInv, TypeOK
  <2>4. TypeOK' /\ NoLeakedClient' /\ MapInv' /\ RouterInv' /\ WrittenInv'
    BY <1>1, <1>0, <1>9, <1>3, <2>1, <2>2, <2>3, ReplaceKeeps
  <2>5. dataPlugins \in [Id -> {NoPlugin} \cup DOMAIN made]
    BY DEF IInv, TypeOK
  <2>6. \A j \in Id : j # id => (Agrees(j) => Agrees(j)')
    BY <1>1, <2>1, <2>5 DEF Agrees
  <2>7. id \notin suspect => Agrees(id)'
    BY <1>1, <1>0, <1>9, <1>4, <2>1, <2>5 DEF Agrees
  <2>8. \A j \in Id \ suspect' : Fresh(j)'
    BY <1>1, <1>0, <1>9, <2>6, <2>7, EndedFresh
  <2> QED BY <2>4, <2>8 DEF IInv
<1> QED BY <1>5, <1>6

-----------------------------------------------------------------------------
(* The DataRouter                                                          *)

\* Mutations and their rows are what they were.
LEMMA RouterStepFresh ==
    ASSUME IInv, UNCHANGED <<rows, requests, made, dataPlugins, suspect>>, stopped' \/ UNCHANGED stopped
    PROVE  \A j \in Id \ suspect' : Fresh(j)'
<1> SUFFICES ASSUME NEW j \in Id \ suspect PROVE Fresh(j)'
  OBVIOUS
<1>1. Fresh(j)
  BY DEF IInv
<1> QED BY <1>1 DEF Fresh, InFlight, Agrees

LEMMA EmitKeeps == ASSUME IInv, EmitPluginsChanged PROVE IInv'
<1>1. /\ announce' = FALSE
      /\ UNCHANGED <<rows, written, requests, made, dataPlugins, stopped, suspect, unmade>>
  BY DEF EmitPluginsChanged
<1>2. {announce, stopped, unmade}' \subseteq BOOLEAN
  BY <1>1, Zenon DEF IInv, TypeOK
<1>3. \A j \in Id \ suspect' : Fresh(j)'
  BY <1>1, RouterStepFresh
<1>4. CASE stopped
  <2>1. UNCHANGED <<registered, destroyed, started>>
    BY <1>4 DEF EmitPluginsChanged
  <2>2. TypeOK'
    BY <1>1, <1>2, <2>1 DEF IInv, TypeOK
  <2>3. NoLeakedClient' /\ MapInv' /\ RouterInv' /\ WrittenInv'
    BY <1>1, <2>1 DEF IInv, NoLeakedClient, MapInv, RouterInv, WrittenInv
  <2> QED BY <1>3, <2>2, <2>3 DEF IInv
<1>5. CASE ~ stopped
  <2>1. /\ registered' = Current
        /\ destroyed' = destroyed \cup (registered \ Current)
        /\ started' = started \cup (Current \ registered)
    BY <1>5 DEF EmitPluginsChanged
  <2>2. Current \subseteq DOMAIN made
    BY DEF Current, IInv, TypeOK
  <2>3. \A o \in Current : dataPlugins[made[o].id] = o
    BY DEF Current, IInv, MapInv
  <2>4. \A id \in Id : dataPlugins[id] # NoPlugin => dataPlugins[id] \in Current
    BY DEF Current
  <2>5. TypeOK'
    BY <1>1, <1>2, <2>1, <2>2 DEF IInv, TypeOK
  <2>6. NoLeakedClient'
    BY <1>1, <1>5, <2>1, <2>3 DEF IInv, NoLeakedClient
  <2>7. MapInv'
    BY <1>1, <2>1, <2>4 DEF IInv, MapInv
  <2>8. RouterInv' /\ WrittenInv'
    BY <1>1, <1>5, <2>1 DEF IInv, RouterInv, WrittenInv
  <2> QED BY <1>3, <2>5, <2>6, <2>7, <2>8 DEF IInv
<1> QED BY <1>4, <1>5

LEMMA StopKeeps == ASSUME IInv, Stop PROVE IInv'
<1>1. /\ stopped' = TRUE /\ destroyed' = destroyed \cup registered /\ registered' = {}
      /\ UNCHANGED <<rows, written, requests, made, dataPlugins, announce, started, suspect, unmade>>
  BY DEF Stop
<1>2. {announce, stopped, unmade}' \subseteq BOOLEAN
  BY <1>1, Zenon DEF IInv, TypeOK
<1>3. TypeOK'
  BY <1>1, <1>2 DEF IInv, TypeOK
<1>4. NoLeakedClient' /\ MapInv' /\ RouterInv' /\ WrittenInv'
  BY <1>1 DEF IInv, NoLeakedClient, MapInv, RouterInv, WrittenInv
<1>5. \A j \in Id \ suspect' : Fresh(j)'
  BY <1>1, RouterStepFresh
<1> QED BY <1>3, <1>4, <1>5 DEF IInv

-----------------------------------------------------------------------------
(* The specification                                                       *)

LEMMA NextFeature == IInv /\ [Next]_vars => IInv'
<1> SUFFICES ASSUME IInv, [Next]_vars PROVE IInv'
  OBVIOUS
<1>1. CASE UNCHANGED vars
  <2>1. UNCHANGED <<rows, written, requests, made, dataPlugins, destroyed, announce,
                    registered, started, stopped, suspect, unmade>>
    BY <1>1 DEF vars
  <2>2. {announce, stopped, unmade}' \subseteq BOOLEAN
    BY <2>1, Zenon DEF IInv, TypeOK
  <2>3. TypeOK' /\ NoLeakedClient' /\ MapInv' /\ RouterInv' /\ WrittenInv'
    BY <2>1, <2>2 DEF IInv, TypeOK, NoLeakedClient, MapInv, RouterInv, WrittenInv
  <2>4. \A j \in Id \ suspect' : Fresh(j)'
    BY <2>1, RouterStepFresh
  <2> QED BY <2>3, <2>4 DEF IInv
<1> QED BY <1>1, WriteKeeps, FetchKeeps, FetchFailsKeeps, SavedKeeps, DeletedKeeps, EmitKeeps,
           StopKeeps DEF Next

LEMMA FeatureInvariance == Spec => []IInv
BY InitFeature, NextFeature, PTL DEF Spec

\* NoLeakedClient: however mutations, the debounced event, the router and a stop
\* interleave, a started plugin that is not destroyed is the feature's own.
THEOREM NoClientLeaks == Spec => []Inv
<1>1. IInv => Inv
  BY DEF IInv, Inv
<1> QED BY <1>1, FeatureInvariance, PTL

\* SettledAgrees: once its mutations are over, an id runs what its row says,
\* unless the last ones overlapped or could not read the row.
THEOREM SettledStaysInAgreement == Spec => []SettledAgrees
<1>1. IInv => SettledAgrees
  BY DEF IInv, Fresh, Agrees, SettledAgrees
<1> QED BY <1>1, FeatureInvariance, PTL

\* DeadStayDown: a plugin that has been destroyed is never started.
THEOREM DestroyedIsNotStarted == Spec => DeadStayDown
<1>1. IInv /\ [Next]_vars => (started' \ started) \cap destroyed' = {} \/ UNCHANGED vars
  <2> SUFFICES ASSUME IInv, Next PROVE (started' \ started) \cap destroyed' = {}
    OBVIOUS
  <2>1. CASE EmitPluginsChanged
    <3>1. CASE stopped
      BY <2>1, <3>1 DEF EmitPluginsChanged
    <3>2. CASE ~ stopped
      <4>1. /\ destroyed' = destroyed \cup (registered \ Current)
            /\ started' = started \cup (Current \ registered)
        BY <2>1, <3>2 DEF EmitPluginsChanged
      <4>2. Current \cap destroyed = {}
        BY <3>2 DEF IInv, MapInv, Current
      <4> QED BY <4>1, <4>2
    <3> QED BY <3>1, <3>2
  <2>2. CASE ~ EmitPluginsChanged
    BY <2>2 DEF Next, Save, Delete, Write, Fetch, FetchFails, Saved, Deleted, Stop
  <2> QED BY <2>1, <2>2
<1> QED BY <1>1, FeatureInvariance, PTL DEF Spec, DeadStayDown

=============================================================================
