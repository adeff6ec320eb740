---------------------------- MODULE ListsProofs ----------------------------
(***************************************************************************)
(* Proofs about what the tabs of users list: servers (ServerList) and the  *)
(* channels of a server (ChannelList), for any number of tabs, requests,   *)
(* servers and channels and any length of the history.  First what both    *)
(* need about sequences of events, then for each the inductive invariant,  *)
(* lemmas for its actions, Init and Next, and what the invariant implies;  *)
(* the theorems come last and carry the results to the composition of      *)
(* MCLists.                                                                *)
(***************************************************************************)
EXTENDS MCLists, SequenceTheorems, FiniteSetTheorems, WellFoundedInduction, TLAPS

(***************************************************************************)
(* A set of numbers has a least element and, if bounded, a greatest one.   *)
(***************************************************************************)
LEMMA LessThan ==
  \E R : IsWellFoundedOn(R, Nat) /\ \A x, y \in Nat : y < x => <<y, x>> \in R
<1>1. \A x, y \in Nat : y < x => <<y, x>> \in OpToRel(<, Nat)
  BY DEF OpToRel
<1> QED
  BY <1>1, NatLessThanWellFounded, Zenon

LEMMA Least ==
  ASSUME NEW T \in SUBSET Nat, T # {}
  PROVE  \E x \in T : \A y \in T : x <= y
<1>1. PICK R : IsWellFoundedOn(R, Nat) /\ \A x, y \in Nat : y < x => <<y, x>> \in R
  BY LessThan
<1>2. PICK x \in T : \A y \in T : ~(<<y, x>> \in R)
  BY <1>1, WFMin
<1>3. ASSUME NEW y \in T PROVE x <= y
  <2>1. x \in Nat /\ y \in Nat /\ ~(y < x)
    BY <1>1, <1>2
  <2> QED
    BY <2>1
<1> QED
  BY <1>3

LEMMA Greatest ==
  ASSUME NEW n \in Nat, NEW T \in SUBSET (0..n), T # {}
  PROVE  \E x \in T : \A y \in T : y <= x
<1> DEFINE D == {n - x : x \in T}
<1>1. D \in SUBSET Nat /\ D # {}
  OBVIOUS
<1>2. PICK d \in D : \A e \in D : d <= e
  BY <1>1, Least
<1>3. PICK x \in T : d = n - x
  OBVIOUS
<1>4. ASSUME NEW y \in T PROVE y <= x
  <2>1. n - y \in D
    OBVIOUS
  <2> QED
    BY <1>2, <1>3, <2>1
<1> QED
  BY <1>4

(***************************************************************************)
(* Sequences of events                                                     *)
(***************************************************************************)
(* Nothing in T is in A; x is the last in T that is in A.                  *)
NoneIn(T, A) == \A i \in DOMAIN T : T[i] \notin A
LastIn(T, A, x) ==
  x \in A /\ \E i \in DOMAIN T : T[i] = x /\ \A j \in DOMAIN T : T[j] \in A => j <= i

(* An event is added at the end, and what was there stays in its order, but*)
(* for the same event: g says where in T the elements of Tell(T, e) come   *)
(* from.                                                                   *)
Moved(T, e, U, g) ==
  /\ Len(U) \in Nat \ {0} /\ U[Len(U)] = e
  /\ g \in [1..(Len(U) - 1) -> DOMAIN T]
  /\ \A i \in 1..(Len(U) - 1) : U[i] = T[g[i]]
  /\ \A i, j \in 1..(Len(U) - 1) : i <= j <=> g[i] <= g[j]
  /\ \A j \in DOMAIN T : T[j] = e \/ \E i \in 1..(Len(U) - 1) : g[i] = j

LEMMA TellMoves ==
  ASSUME NEW E, NEW T \in Seq(E), NEW e \in E
  PROVE  Tell(T, e) \in Seq(E) /\ \E g : Moved(T, e, Tell(T, e), g)
<1> DEFINE same == {i \in DOMAIN T : T[i] = e}
           at == CHOOSE i \in same : TRUE
<1>1. Len(T) \in Nat /\ DOMAIN T = 1..Len(T) /\ \A i \in 1..Len(T) : T[i] \in E
  BY LenProperties, ElementOfSeq
<1>2. CASE same = {}
  <2>1. Tell(T, e) = Append(T, e)
    BY <1>2 DEF Tell
  <2>2. PICK U : U = Append(T, e)
    OBVIOUS
  <2>3. U \in Seq(E) /\ Len(U) = Len(T) + 1 /\ (\A i \in 1..Len(T) : U[i] = T[i]) /\ U[Len(T) + 1] = e
    BY <2>2, AppendProperties
  <2>4. PICK g : g = [i \in 1..Len(T) |-> i]
    OBVIOUS
  <2>5. Moved(T, e, U, g)
    BY <1>1, <2>3, <2>4 DEF Moved
  <2> QED
    BY <2>1, <2>2, <2>3, <2>5
<1>3. CASE same # {}
  <2>1. PICK k : k = at /\ k \in 1..Len(T) /\ T[k] = e
    BY <1>1, <1>3
  <2>2. PICK a, b, c, U :
          a = SubSeq(T, 1, k - 1) /\ b = SubSeq(T, k + 1, Len(T)) /\ c = a \o b /\ U = Append(c, e)
    OBVIOUS
  <2>3. Tell(T, e) = U
    BY <1>3, <2>1, <2>2 DEF Tell
  <2>4. a \in Seq(E) /\ Len(a) = k - 1 /\ \A i \in 1..(k - 1) : a[i] = T[i]
    <3>1. \A i \in 1..(k - 1) : T[i] \in E
      BY <1>1, <2>1
    <3>2. 1 \in Int /\ k - 1 \in Int /\ k \in Nat /\ k # 0
      BY <1>1, <2>1
    <3>3. /\ a \in Seq(E) /\ Len(a) = IF 1 <= k - 1 THEN (k - 1) - 1 + 1 ELSE 0
          /\ \A i \in 1..((k - 1) - 1 + 1) : a[i] = T[1 + i - 1]
      BY <2>2, <3>1, <3>2, SubSeqProperties
    <3> QED
      BY <3>2, <3>3
  <2>5. b \in Seq(E) /\ Len(b) = Len(T) - k /\ \A i \in 1..(Len(T) - k) : b[i] = T[k + i]
    <3>1. \A i \in (k + 1)..Len(T) : T[i] \in E
      BY <1>1, <2>1
    <3>2. k + 1 \in Int /\ Len(T) \in Int /\ k \in Nat /\ k <= Len(T)
      BY <1>1, <2>1
    <3>3. /\ b \in Seq(E) /\ Len(b) = IF k + 1 <= Len(T) THEN Len(T) - (k + 1) + 1 ELSE 0
          /\ \A i \in 1..(Len(T) - (k + 1) + 1) : b[i] = T[k + 1 + i - 1]
      BY <2>2, <3>1, <3>2, SubSeqProperties
    <3>4. \A i \in 1..(Len(T) - k) : i \in 1..(Len(T) - (k + 1) + 1) /\ k + 1 + i - 1 = k + i
      BY <3>2
    <3>5. \A i \in 1..(Len(T) - k) : b[i] = T[k + i]
      BY <3>3, <3>4
    <3> QED
      BY <3>2, <3>3, <3>5
  <2>6. /\ c \in Seq(E) /\ Len(c) = Len(T) - 1
        /\ \A i \in 1..(Len(T) - 1) : c[i] = T[IF i < k THEN i ELSE i + 1]
    <3>1. /\ c \in Seq(E) /\ Len(c) = Len(a) + Len(b)
          /\ \A i \in 1..(Len(a) + Len(b)) : c[i] = IF i <= Len(a) THEN a[i] ELSE b[i - Len(a)]
      BY <2>2, <2>4, <2>5, ConcatProperties
    <3>2. Len(a) + Len(b) = Len(T) - 1
      BY <1>1, <2>1, <2>4, <2>5
    <3>3. ASSUME NEW i \in 1..(Len(T) - 1) PROVE c[i] = T[IF i < k THEN i ELSE i + 1]
      <4>1. CASE i < k
        BY <1>1, <2>1, <2>4, <3>1, <3>2, <4>1
      <4>2. CASE ~(i < k)
        <5>1. i - Len(a) \in 1..(Len(T) - k) /\ k + (i - Len(a)) = i + 1 /\ ~(i <= Len(a))
          BY <1>1, <2>1, <2>4, <4>2
        <5>2. c[i] = b[i - Len(a)]
          BY <3>1, <3>2, <5>1
        <5>3. b[i - Len(a)] = T[k + (i - Len(a))]
          BY <2>5, <5>1
        <5> QED
          BY <4>2, <5>1, <5>2, <5>3
      <4> QED
        BY <4>1, <4>2
    <3> QED
      BY <3>1, <3>2, <3>3
  <2>7. /\ U \in Seq(E) /\ Len(U) = Len(T) /\ U[Len(T)] = e
        /\ \A i \in 1..(Len(T) - 1) : U[i] = c[i]
    <3>1. /\ U \in Seq(E) /\ Len(U) = Len(c) + 1 /\ (\A i \in 1..Len(c) : U[i] = c[i]) /\ U[Len(c) + 1] = e
      <4>1. c \in Seq(E) /\ U = Append(c, e)
        BY <2>2, <2>6
      <4> HIDE <2>2, <2>6
      <4> QED
        BY <4>1, AppendProperties
    <3>2. Len(c) + 1 = Len(T)
      BY <1>1, <2>6
    <3> QED
      BY <2>6, <3>1, <3>2
  <2>8. PICK g : g = [i \in 1..(Len(T) - 1) |-> IF i < k THEN i ELSE i + 1]
    OBVIOUS
  <2>9. /\ \A i \in 1..(Len(T) - 1) : i < k => g[i] = i
        /\ \A i \in 1..(Len(T) - 1) : ~(i < k) => g[i] = i + 1
    BY <2>8
  <2>10. \A i \in 1..(Len(T) - 1) : g[i] \in 1..Len(T) /\ U[i] = T[g[i]]
    <3>1. ASSUME NEW i \in 1..(Len(T) - 1) PROVE g[i] \in 1..Len(T) /\ U[i] = T[g[i]]
      <4>1. CASE i < k
        BY <1>1, <2>1, <2>6, <2>7, <2>9, <4>1
      <4>2. CASE ~(i < k)
        BY <1>1, <2>1, <2>6, <2>7, <2>9, <4>2
      <4> QED
        BY <4>1, <4>2
    <3> QED
      BY <3>1
  <2>11. \A i, j \in 1..(Len(T) - 1) : i <= j <=> g[i] <= g[j]
    <3>1. ASSUME NEW i \in 1..(Len(T) - 1), NEW j \in 1..(Len(T) - 1)
          PROVE  i <= j <=> g[i] <= g[j]
      <4>1. /\ i \in Int /\ j \in Int /\ k \in Int
            /\ (g[i] = i /\ i < k) \/ (g[i] = i + 1 /\ ~(i < k))
            /\ (g[j] = j /\ j < k) \/ (g[j] = j + 1 /\ ~(j < k))
        BY <1>1, <2>1, <2>9
      <4> QED
        BY <4>1
    <3> QED
      BY <3>1
  <2>12. ASSUME NEW j \in 1..Len(T), j # k PROVE \E i \in 1..(Len(T) - 1) : g[i] = j
    <3>1. CASE j < k
      BY <1>1, <2>1, <2>9, <3>1
    <3>2. CASE j > k
      <4>1. j - 1 \in 1..(Len(T) - 1) /\ ~(j - 1 < k) /\ (j - 1) + 1 = j
        BY <1>1, <2>1, <3>2
      <4> QED
        BY <2>9, <4>1
    <3> QED
      BY <1>1, <2>1, <2>12, <3>1, <3>2
  <2>13. g \in [1..(Len(U) - 1) -> DOMAIN T]
    BY <1>1, <2>7, <2>8, <2>10
  <2>14. Moved(T, e, U, g)
    <3>1. \A j \in DOMAIN T : T[j] = e \/ \E i \in 1..(Len(U) - 1) : g[i] = j
      BY <1>1, <2>1, <2>7, <2>12
    <3>2. Len(U) \in Nat \ {0} /\ U[Len(U)] = e
      BY <1>1, <2>1, <2>7
    <3> QED
      BY <2>7, <2>10, <2>11, <2>13, <3>1, <3>2 DEF Moved
  <2> QED
    BY <2>3, <2>7, <2>14
<1> QED
  BY <1>2, <1>3

(* The events of U are those of T and e; and what this means for the       *)
(* events in A.                                                            *)
Gains(T, e, U) ==
  /\ \A i \in DOMAIN T : \E k \in DOMAIN U : U[k] = T[i]
  /\ \A k \in DOMAIN U : U[k] = e \/ \E i \in DOMAIN T : U[k] = T[i]
  /\ \E k \in DOMAIN U : U[k] = e

LEMMA TellFacts ==
  ASSUME NEW E, NEW T \in Seq(E), NEW e \in E
  PROVE  Tell(T, e) \in Seq(E) /\ Gains(T, e, Tell(T, e))
<1>1. PICK U : U = Tell(T, e)
  OBVIOUS
<1>2. U \in Seq(E) /\ \E g : Moved(T, e, U, g)
  BY <1>1, TellMoves
<1>3. PICK g : Moved(T, e, U, g)
  BY <1>2
<1>4. Len(U) \in Nat \ {0} /\ DOMAIN U = 1..Len(U) /\ U[Len(U)] = e /\ Len(U) \in DOMAIN U
  BY <1>2, <1>3, LenProperties DEF Moved
<1>5. Len(T) \in Nat /\ DOMAIN T = 1..Len(T)
  BY LenProperties
<1>6. \A k \in DOMAIN U : k = Len(U) \/ k \in 1..(Len(U) - 1)
  BY <1>4
<1>7. \A k \in 1..(Len(U) - 1) : k \in DOMAIN U /\ g[k] \in DOMAIN T /\ U[k] = T[g[k]]
  BY <1>3, <1>4 DEF Moved
<1>8. ASSUME NEW i \in DOMAIN T PROVE \E k \in DOMAIN U : U[k] = T[i]
  BY <1>3, <1>4, <1>7 DEF Moved
<1>9. ASSUME NEW k \in DOMAIN U PROVE U[k] = e \/ \E i \in DOMAIN T : U[k] = T[i]
  BY <1>4, <1>6, <1>7
<1>10. Gains(T, e, U)
  BY <1>4, <1>8, <1>9 DEF Gains
<1> QED
  BY <1>1, <1>2, <1>10

LEMMA TellLast ==
  ASSUME NEW E, NEW T \in Seq(E), NEW e \in E, NEW A
  PROVE  /\ e \in A => LastIn(Tell(T, e), A, e)
         /\ e \notin A => \A x : LastIn(Tell(T, e), A, x) => LastIn(T, A, x)
<1>1. PICK U : U = Tell(T, e)
  OBVIOUS
<1>2. U \in Seq(E) /\ \E g : Moved(T, e, U, g)
  BY <1>1, TellMoves
<1>3. PICK g : Moved(T, e, U, g)
  BY <1>2
<1>4. Len(U) \in Nat \ {0} /\ DOMAIN U = 1..Len(U) /\ U[Len(U)] = e /\ Len(U) \in DOMAIN U
  BY <1>2, <1>3, LenProperties DEF Moved
<1>5. \A k \in DOMAIN U : k = Len(U) \/ k \in 1..(Len(U) - 1)
  BY <1>4
<1>6. \A k \in 1..(Len(U) - 1) : k \in DOMAIN U /\ g[k] \in DOMAIN T /\ U[k] = T[g[k]]
  BY <1>3, <1>4 DEF Moved
<1>7. ASSUME e \in A PROVE LastIn(U, A, e)
  BY <1>4, <1>7 DEF LastIn
<1>8. ASSUME NEW x, e \notin A, LastIn(U, A, x) PROVE LastIn(T, A, x)
  <2>1. PICK k \in DOMAIN U : x \in A /\ U[k] = x /\ \A j \in DOMAIN U : U[j] \in A => j <= k
    BY <1>8 DEF LastIn
  <2>2. k \in 1..(Len(U) - 1)
    BY <1>4, <1>5, <1>8, <2>1
  <2>3. ASSUME NEW j \in DOMAIN T, T[j] \in A PROVE j <= g[k]
    <3>1. PICK i \in 1..(Len(U) - 1) : g[i] = j
      BY <1>3, <1>8, <2>3 DEF Moved
    <3>2. i <= k
      BY <1>6, <2>1, <2>3, <3>1
    <3> QED
      BY <1>3, <2>2, <3>1, <3>2 DEF Moved
  <2> QED
    BY <1>6, <2>1, <2>2, <2>3 DEF LastIn
<1> QED
  BY <1>1, <1>7, <1>8

LEMMA OneIsLast ==
  ASSUME NEW E, NEW T \in Seq(E), NEW A
  PROVE  /\ ~NoneIn(T, A) => \E x : LastIn(T, A, x)
         /\ \A x, y : LastIn(T, A, x) /\ LastIn(T, A, y) => x = y
<1>1. Len(T) \in Nat /\ DOMAIN T = 1..Len(T)
  BY LenProperties
<1>2. ASSUME ~NoneIn(T, A) PROVE \E x : LastIn(T, A, x)
  <2>1. {i \in DOMAIN T : T[i] \in A} \in SUBSET (0..Len(T)) /\ {i \in DOMAIN T : T[i] \in A} # {}
    BY <1>1, <1>2 DEF NoneIn
  <2>2. PICK k \in {i \in DOMAIN T : T[i] \in A} : \A j \in {i \in DOMAIN T : T[i] \in A} : j <= k
    BY <1>1, <2>1, Greatest
  <2>3. LastIn(T, A, T[k])
    BY <2>2 DEF LastIn
  <2> QED
    BY <2>3
<1>3. ASSUME NEW x, NEW y, LastIn(T, A, x), LastIn(T, A, y) PROVE x = y
  <2>1. PICK i \in DOMAIN T : x \in A /\ T[i] = x /\ \A j \in DOMAIN T : T[j] \in A => j <= i
    BY <1>3 DEF LastIn
  <2>2. PICK k \in DOMAIN T : y \in A /\ T[k] = y /\ \A j \in DOMAIN T : T[j] \in A => j <= k
    BY <1>3 DEF LastIn
  <2>3. i <= k /\ k <= i
    BY <2>1, <2>2
  <2> QED
    BY <1>1, <2>1, <2>2, <2>3
<1> QED
  BY <1>2, <1>3

LEMMA TellKeepsLast ==
  ASSUME NEW E, NEW T \in Seq(E), NEW e \in E, NEW A, e \notin A
  PROVE  /\ \A x : LastIn(Tell(T, e), A, x) <=> LastIn(T, A, x)
         /\ NoneIn(Tell(T, e), A) <=> NoneIn(T, A)
<1>1. PICK U : U = Tell(T, e)
  OBVIOUS
<1>2. U \in Seq(E) /\ Gains(T, e, U)
  BY <1>1, TellFacts
<1>3. \A x : LastIn(U, A, x) => LastIn(T, A, x)
  BY <1>1, TellLast
<1>4. NoneIn(U, A) <=> NoneIn(T, A)
  BY <1>2 DEF NoneIn, Gains
<1>5. ASSUME NEW x, LastIn(T, A, x) PROVE LastIn(U, A, x)
  <2>1. ~NoneIn(U, A)
    BY <1>4, <1>5 DEF LastIn, NoneIn
  <2>2. PICK z : LastIn(U, A, z)
    BY <1>2, <2>1, OneIsLast
  <2>3. z = x
    BY <1>3, <1>5, <2>2, OneIsLast
  <2> QED
    BY <2>2, <2>3
<1> QED
  BY <1>1, <1>3, <1>4, <1>5

(***************************************************************************)
(* ServerList: the inductive invariant                                     *)
(***************************************************************************)
ServerReq ==
  [at : {"idle", "update", "read", "members", "emit", "delete", "deleteSilently"},
   kind : Kind \ {"create"}, server : Server \cup {NoServer},
   no : 0..Len(history), row : 0..Len(history), reach : BOOLEAN, alone : BOOLEAN]

ServerPage ==
  [page : SUBSET [server : Server, row : 1..Len(history)], seen : 0..Len(history),
   early : SUBSET Server, open : BOOLEAN]

ServerTypes ==
  /\ rows \in [Server -> 0..Len(history)] /\ account \in BOOLEAN
  /\ history \in Seq(Change) /\ Len(history) <= MaxChanges
  /\ req \in [Request -> ServerReq]
  /\ connected \subseteq Session
  /\ list \in [Session -> ServerPage]
  /\ told \in [Session -> Seq(Event)] /\ lost \in [Session -> SUBSET Server]
  /\ silent \subseteq DOMAIN history /\ crossed \cup broken \subseteq Server
  /\ \A s \in Session \ connected : list[s] = NoList /\ told[s] = <<>> /\ lost[s] = {}

(* A server that is there has an owner and the row of its last change, none*)
(* of its changes has deleted it, and the first of them made it.           *)
RowsCurrent ==
  \A v \in Server : rows[v] # 0 =>
    /\ account /\ rows[v] \in ChangesOf(v)
    /\ \A n \in ChangesOf(v) : n <= rows[v] /\ history[n].kind # "delete"
    /\ \A n, k \in ChangesOf(v) : history[n].kind = "create" => n <= k

(* The events about v, and what is shown of it by them and by the list.    *)
EventsOf(v) == {e \in Event : e.server = v}
Unlisted(s, v) == \A e \in list[s].page : e.server # v
Hidden(s, v) ==
  \/ NoneIn(told[s], EventsOf(v)) /\ Unlisted(s, v)
  \/ \E x : LastIn(told[s], EventsOf(v), x) /\ x.kind = "delete"

(* A request by itself, and what it knows of the server.                   *)
ServerReqOK(x) ==
  /\ x.at = "idle" => x = Idle
  /\ x.at # "idle" => x.server \in Server /\ ChangesOf(x.server) # {}
  /\ x.at \in {"update", "read"} => x.kind = "info"
  /\ x.at \in {"delete", "deleteSilently"} => x.kind = "delete"
  /\ x.kind = "delete" \/ x.at = "update" => x.no = 0
  /\ x.no # 0 => x.no \in ChangesOf(x.server)
  /\ x.kind = "info" /\ x.at \in {"members", "emit"} =>
       /\ x.no <= x.row
       /\ x.alone /\ x.server \in Live => x.row = rows[x.server]
  /\ x.kind = "info" /\ x.at = "emit" /\ ~x.reach /\ x.server \in Live =>
       \A s \in Session : list[s].open =>
         x.no <= list[s].seen /\ (x.alone => NoneIn(told[s], EventsOf(x.server)))

(* Requests for one server that overlap know it, and so does the server.   *)
CrossingsKnown ==
  /\ \A r \in Request : req[r].at # "idle" /\ ~req[r].alone => req[r].server \in crossed
  /\ \A q, r \in Request : q # r /\ req[q].at # "idle" /\ req[q].server = req[r].server => ~req[r].alone
  /\ \A r \in Request, v \in Server :
       req[r].server = v /\ rows[v] = 0 /\ ~WithAccount(v) => ~req[r].alone

(* The list shows the rows there were, and events are about servers that   *)
(* were made.                                                              *)
ServerPageOK(s) ==
  /\ \A e \in list[s].page :
       /\ e.row \in ChangesOf(e.server) /\ e.row <= list[s].seen
       /\ \A n \in ChangesOf(e.server) : n <= list[s].seen => n <= e.row
  /\ \A i \in DOMAIN told[s] : ChangesOf(told[s][i].server) # {}

(* The last event about a server tells its row, if no requests crossed and *)
(* none of their events was lost.                                          *)
LastIsPresent(s, v) ==
  list[s].open /\ rows[v] # 0 /\ v \notin crossed /\ v \notin lost[s] =>
    \A x : LastIn(told[s], EventsOf(v), x) /\ x.kind = "info" =>
      \/ x.row = rows[v] \/ rows[v] \in silent
      \/ \E r \in Request : req[r].no = rows[v]

(* A deletion has been announced, or there is nobody to announce it to.    *)
Announces(x, v) ==
  /\ x.at # "idle" /\ x.server = v
  /\ x.at = "delete" \/ (x.kind = "delete" /\ x.at = "emit" /\ ~x.reach)
DeletedSilently(v) == rows[v] = 0 /\ \E n \in ChangesOf(v) \cap silent : history[n].kind = "delete"
GhostHasCause(s, v) ==
  /\ list[s].open /\ v \notin crossed /\ v \notin lost[s] /\ ~WithAccount(v)
  /\ rows[v] = 0 \/ \E r \in Request : Announces(req[r], v)
  => Hidden(s, v) \/ v \in list[s].early \/ DeletedSilently(v)

ServerInv ==
  /\ ServerTypes /\ RowsCurrent /\ CrossingsKnown
  /\ \A r \in Request : ServerReqOK(req[r])
  /\ \A s \in Session : ServerPageOK(s)
  /\ \A s \in Session, v \in Server : LastIsPresent(s, v) /\ GhostHasCause(s, v)
  /\ NoUpdateMissed /\ AnnouncedDeletionHappens

(***************************************************************************)
(* ServerList: lemmas                                                      *)
(***************************************************************************)
LEMMA ServerFacts ==
  ASSUME ServerTypes
  PROVE  /\ Len(history) \in Nat /\ DOMAIN history = 1..Len(history)
         /\ \A n \in DOMAIN history : n \in Nat /\ n # 0 /\ history[n] \in Change
         /\ \A v \in Server : v \in Live <=> rows[v] # 0
         /\ \A v \in Server : rows[v] \in Nat
         /\ \A v : ChangesOf(v) \subseteq DOMAIN history /\ \A n \in ChangesOf(v) : history[n].server = v
         /\ \A r \in Request : req[r] \in ServerReq /\ req[r].no \in Nat /\ req[r].row \in Nat
         /\ \A s \in Session : list[s] \in ServerPage /\ list[s].seen \in Nat /\ told[s] \in Seq(Event)
         /\ \A s \in Session : list[s].open => s \in connected
<1>1. Len(history) \in Nat /\ DOMAIN history = 1..Len(history) /\ \A n \in DOMAIN history : history[n] \in Change
  BY LenProperties, ElementOfSeq DEF ServerTypes
<1>2. \A r \in Request : req[r] \in ServerReq
  BY DEF ServerTypes
<1>3. \A s \in Session : list[s] \in ServerPage /\ told[s] \in Seq(Event)
  BY DEF ServerTypes
<1>4. \A v \in Server : rows[v] \in 0..Len(history)
  BY DEF ServerTypes
<1>5. \A r \in Request : req[r].no \in Nat /\ req[r].row \in Nat
  BY <1>1, <1>2 DEF ServerReq
<1>6. \A s \in Session : list[s].seen \in Nat
  BY <1>1, <1>3 DEF ServerPage
<1>7. \A s \in Session : list[s].open => s \in connected
  BY DEF ServerTypes, NoList
<1> QED
  BY <1>1, <1>2, <1>3, <1>4, <1>5, <1>6, <1>7 DEF Live, ChangesOf

LEMMA AccountStays ==
  ASSUME UNCHANGED <<account, history>>
  PROVE  \A v : WithAccount(v)' <=> WithAccount(v)
BY DEF WithAccount, ChangesOf

LEMMA IdleServerReq ==
  /\ Idle.at = "idle" /\ Idle.server = NoServer /\ Idle.no = 0 /\ Idle.row = 0 /\ Idle.alone = TRUE
  /\ Idle.reach = FALSE /\ Idle.kind = "info"
BY DEF Idle

LEMMA IdleIsServerReq == ASSUME ServerTypes PROVE Idle \in ServerReq /\ ServerReqOK(Idle)
<1>1. Len(history) \in Nat
  BY ServerFacts
<1>2. Idle \in ServerReq
  BY <1>1 DEF Idle, ServerReq, Kind
<1> QED
  BY <1>2, IdleServerReq DEF ServerReqOK

(* A request is about one server or idle; and one that committed a change  *)
(* is about the server that it changed.                                    *)
LEMMA BusyRequests ==
  ASSUME ServerInv
  PROVE  /\ \A r \in Request : req[r].at = "idle" \/ req[r].server \in Server
         /\ \A r \in Request, v \in Server : req[r].server = v => req[r].at # "idle"
         /\ \A r \in Request, v \in Server : req[r].no # 0 /\ req[r].no \in ChangesOf(v) => req[r].server = v
<1>1. \A r \in Request : ServerReqOK(req[r])
  BY DEF ServerInv
<1>2. \A v \in Server : v # NoServer
  BY NoServerAssumption
<1> QED
  BY <1>1, <1>2, IdleServerReq DEF ServerReqOK, ChangesOf

(* One request goes on or ends; the table, the lists and the events rest.  *)
LEMMA ServerReqMoves ==
  ASSUME ServerInv, NEW r \in Request, NEW y,
         req' \in [Request -> ServerReq], req'[r] = y, ServerReqOK(y),
         \A q \in Request : q # r => req'[q] = req[q],
         req[r].at # "idle",
         y.at = "idle" \/ (y.server = req[r].server /\ y.alone = req[r].alone),
         req[r].no = 0 \/ y.no = req[r].no \/ req[r].no \in silent',
         req[r].at = "delete" =>
           (y.at = "delete" /\ y.server = req[r].server) \/ rows[req[r].server] = 0 \/ req[r].server \in broken',
         \A v \in Server : Announces(y, v) =>
           Announces(req[r], v) \/ rows[v] = 0 \/ \A s \in Session : ~list[s].open,
         silent \subseteq silent', silent' \subseteq DOMAIN history,
         broken \subseteq broken', broken' \subseteq Server,
         UNCHANGED <<rows, account, history, connected, list, told, lost, crossed>>
  PROVE  ServerInv'
<1>1. ServerTypes' /\ RowsCurrent'
  BY DEF ServerInv, ServerTypes, RowsCurrent, ServerReq, ServerPage, ChangesOf
<1>2. CrossingsKnown'
  <2>1. \A q \in Request : req'[q].at = "idle" \/ (req[q].at # "idle" /\ req'[q].server = req[q].server /\ req'[q].alone = req[q].alone)
    OBVIOUS
  <2>2. \A q \in Request : req'[q].server \in Server => req'[q].at # "idle"
    <3>1. \A q \in Request : ServerReqOK(req'[q])
      BY DEF ServerInv
    <3> QED
      BY <3>1, IdleServerReq, NoServerAssumption DEF ServerReqOK
  <2>3. \A q \in Request : req'[q].at # "idle" /\ ~req'[q].alone => req'[q].server \in crossed'
    BY <2>1 DEF ServerInv, CrossingsKnown
  <2>4. ASSUME NEW q \in Request, NEW p \in Request, q # p, req'[q].at # "idle", req'[q].server = req'[p].server
        PROVE  ~req'[p].alone
    <3>1. req'[q].server \in Server /\ req'[p].server \in Server
      BY <2>1, <2>4, BusyRequests
    <3> QED
      BY <2>1, <2>2, <2>4, <3>1 DEF ServerInv, CrossingsKnown
  <2>5. \A q \in Request, w \in Server :
          req'[q].server = w /\ rows'[w] = 0 /\ ~WithAccount(w)' => ~req'[q].alone
    BY <2>1, <2>2, AccountStays DEF ServerInv, CrossingsKnown
  <2> QED
    BY <2>3, <2>4, <2>5 DEF CrossingsKnown
<1>3. ASSUME NEW x, ServerReqOK(x) PROVE ServerReqOK(x)'
  BY <1>3 DEF ServerReqOK, ChangesOf, Live, NoneIn
<1>4. \A q \in Request : ServerReqOK(req[q])'
  <2>1. ASSUME NEW q \in Request PROVE ServerReqOK(req[q])'
    <3>1. PICK x : x = req'[q] /\ ServerReqOK(x)
      BY DEF ServerInv
    <3>2. ServerReqOK(x)'
      BY <1>3, <3>1
    <3> QED
      BY <3>1, <3>2 DEF ServerReqOK
  <2> QED
    BY <2>1
<1>5. \A s \in Session : ServerPageOK(s)'
  BY DEF ServerInv, ServerPageOK, ChangesOf
<1>6. ASSUME NEW n, n # 0, NEW q \in Request, req[q].no = n PROVE n \in silent' \/ req'[q].no = n
  BY <1>6
<1>7. ASSUME NEW s \in Session, NEW v \in Server PROVE LastIsPresent(s, v)'
  <2>1. LastIsPresent(s, v)
    BY DEF ServerInv
  <2>2. \A x : LastIn(told[s], EventsOf(v), x)' <=> LastIn(told[s], EventsOf(v), x)
    BY DEF LastIn, EventsOf
  <2> QED
    BY <1>6, <2>1, <2>2 DEF LastIsPresent
<1>8. ASSUME NEW s \in Session, NEW v \in Server PROVE GhostHasCause(s, v)'
  <2>1. GhostHasCause(s, v)
    BY DEF ServerInv
  <2>2. Hidden(s, v) => Hidden(s, v)'
    BY DEF Hidden, LastIn, NoneIn, EventsOf, Unlisted
  <2>3. DeletedSilently(v) => DeletedSilently(v)'
    BY DEF DeletedSilently, ChangesOf
  <2>4. ASSUME NEW q \in Request, Announces(req'[q], v)
        PROVE  (\E p \in Request : Announces(req[p], v)) \/ rows[v] = 0 \/ ~list[s].open
    BY <2>4
  <2>5. ASSUME NEW q \in Request, Announces(req[q], v)'
        PROVE  Announces(req'[q], v)
    BY <2>5 DEF Announces
  <2> QED
    BY <2>1, <2>2, <2>3, <2>4, <2>5, AccountStays DEF GhostHasCause
<1>9. NoUpdateMissed'
  <2> SUFFICES ASSUME NEW s \in Session, NEW v \in Live, list[s].open, v \notin lost[s],
                      NEW n \in ChangesOf(v), history[n].kind = "info"
               PROVE  \/ n <= list[s].seen \/ n \in silent'
                      \/ \E i \in DOMAIN told[s] : told[s][i].server = v /\ told[s][i].row >= n
                      \/ \E q \in Request : req'[q].server = v /\ req'[q].no = n
    BY DEF NoUpdateMissed, ChangesOf, Live, About
  <2>1. \/ n <= list[s].seen \/ n \in silent
        \/ \E i \in DOMAIN told[s] : told[s][i].server = v /\ told[s][i].row >= n
        \/ \E q \in Request : req[q].server = v /\ req[q].no = n
    BY DEF ServerInv, NoUpdateMissed, About
  <2>2. ASSUME NEW q \in Request, req[q].server = v, req[q].no = n
        PROVE  n \in silent' \/ (req'[q].server = v /\ req'[q].no = n)
    <3>1. n # 0
      BY ServerFacts DEF ServerInv
    <3>2. CASE q # r
      BY <2>2, <3>2
    <3>3. CASE q = r
      <4>1. y.no = n => y.at # "idle"
        BY <3>1, IdleServerReq DEF ServerReqOK
      <4> QED
        BY <2>2, <3>1, <3>3, <4>1
    <3> QED
      BY <3>2, <3>3
  <2> QED
    BY <2>1, <2>2
<1>10. AnnouncedDeletionHappens'
  <2> SUFFICES ASSUME NEW s \in Session, NEW v \in Server, Told(s, "delete", v)
               PROVE  rows[v] = 0 \/ v \in broken' \/ \E q \in Request : req'[q].server = v /\ req'[q].at = "delete"
    BY DEF AnnouncedDeletionHappens, Told, About
  <2>1. rows[v] = 0 \/ v \in broken \/ \E q \in Request : req[q].server = v /\ req[q].at = "delete"
    BY DEF ServerInv, AnnouncedDeletionHappens, About
  <2> QED
    BY <2>1
<1> QED
  BY <1>1, <1>2, <1>4, <1>5, <1>7, <1>8, <1>9, <1>10 DEF ServerInv

LEMMA RequestStaysTyped ==
  ASSUME ServerTypes, NEW r \in Request, NEW y \in ServerReq, req' = [req EXCEPT ![r] = y]
  PROVE  /\ req' \in [Request -> ServerReq] /\ req'[r] = y
         /\ \A q \in Request : q # r => req'[q] = req[q]
BY DEF ServerTypes

(***************************************************************************)
(* ServerList: what a request does by itself                               *)
(***************************************************************************)
LEMMA NoNewNameKeeps ==
  ASSUME ServerInv, NEW r \in Request, req[r].at = "update", req[r].server \in Live,
         req' = [req EXCEPT ![r].at = "read"],
         UNCHANGED <<rows, account, history, connected, list, told, lost, silent, crossed, broken>>
  PROVE  ServerInv'
<1>1. PICK x, y : x = req[r] /\ y = [req[r] EXCEPT !.at = "read"]
  OBVIOUS
<1>2. x \in ServerReq /\ ServerReqOK(x) /\ x.at = "update"
  BY <1>1, ServerFacts DEF ServerInv
<1>3. /\ y \in ServerReq /\ y.at = "read" /\ y.kind = x.kind /\ y.server = x.server /\ y.no = x.no
      /\ y.row = x.row /\ y.reach = x.reach /\ y.alone = x.alone
  BY <1>1, <1>2 DEF ServerReq
<1>4. ServerReqOK(y)
  BY <1>2, <1>3 DEF ServerReqOK
<1>5. /\ req' \in [Request -> ServerReq] /\ req'[r] = y
      /\ \A q \in Request : q # r => req'[q] = req[q]
  BY <1>1, <1>3, RequestStaysTyped DEF ServerInv
<1>6. silent' \subseteq DOMAIN history /\ broken' \subseteq Server
  BY DEF ServerInv, ServerTypes
<1>7. \A v : ~Announces(y, v)
  BY <1>2, <1>3 DEF Announces, ServerReqOK
<1> QED
  BY <1>1, <1>2, <1>3, <1>4, <1>5, <1>6, <1>7, ServerReqMoves

LEMMA ReadServerKeeps ==
  ASSUME ServerInv, NEW r \in Request, ReadServer(r)
  PROVE  ServerInv'
<1>1. PICK x, y : x = req[r] /\ y = [req[r] EXCEPT !.at = "members", !.row = rows[req[r].server]]
  OBVIOUS
<1>2. x \in ServerReq /\ ServerReqOK(x) /\ x.at = "read" /\ x.server \in Live
  BY <1>1, ServerFacts DEF ServerInv, ReadServer
<1>3. x.server \in Server /\ rows[x.server] \in 0..Len(history) /\ rows[x.server] # 0
  BY <1>2 DEF ServerInv, ServerTypes, Live
<1>4. /\ y \in ServerReq /\ y.at = "members" /\ y.kind = x.kind /\ y.server = x.server /\ y.no = x.no
      /\ y.row = rows[x.server] /\ y.reach = x.reach /\ y.alone = x.alone
  BY <1>1, <1>2, <1>3 DEF ServerReq
<1>5. x.no <= rows[x.server]
  <2>1. x.no # 0 => x.no <= rows[x.server]
    BY <1>2, <1>3 DEF ServerInv, RowsCurrent, ServerReqOK
  <2> QED
    BY <1>3, <2>1, ServerFacts DEF ServerInv
<1>6. ServerReqOK(y)
  BY <1>2, <1>4, <1>5 DEF ServerReqOK
<1>7. /\ req' = [req EXCEPT ![r] = y]
      /\ UNCHANGED <<rows, account, history, connected, list, told, lost, silent, crossed, broken>>
  BY <1>1 DEF ReadServer
<1>8. /\ req' \in [Request -> ServerReq] /\ req'[r] = y
      /\ \A q \in Request : q # r => req'[q] = req[q]
  BY <1>4, <1>7, RequestStaysTyped DEF ServerInv
<1>9. silent' \subseteq DOMAIN history /\ broken' \subseteq Server
  BY <1>7 DEF ServerInv, ServerTypes
<1>10. \A v : ~Announces(y, v)
  BY <1>4 DEF Announces
<1>11. /\ req[r].at = "read" /\ y.server = req[r].server /\ y.alone = req[r].alone /\ y.no = req[r].no
       /\ silent \subseteq silent' /\ broken \subseteq broken'
  BY <1>1, <1>2, <1>4, <1>7
<1> QED
  BY <1>6, <1>7, <1>8, <1>9, <1>10, <1>11, ServerReqMoves

LEMMA GetMemberIdsKeeps ==
  ASSUME ServerInv, NEW r \in Request, GetMemberIds(r)
  PROVE  ServerInv'
<1>1. PICK x, y, found :
        /\ x = req[r] /\ found = (req[r].server \in Live /\ connected # {})
        /\ y = [req[r] EXCEPT !.at = "emit", !.reach = found]
  OBVIOUS
<1>2. x \in ServerReq /\ ServerReqOK(x) /\ x.at = "members" /\ x.server \in Server /\ found \in BOOLEAN
  BY <1>1, ServerFacts DEF ServerInv, GetMemberIds, ServerReqOK
<1>3. /\ y \in ServerReq /\ y.at = "emit" /\ y.kind = x.kind /\ y.server = x.server /\ y.no = x.no
      /\ y.row = x.row /\ y.reach = found /\ y.alone = x.alone
  BY <1>1, <1>2 DEF ServerReq
<1>4. ~found => rows[x.server] = 0 \/ \A s \in Session : ~list[s].open
  BY <1>1, <1>2, ServerFacts DEF ServerInv
<1>5. ~found /\ x.server \in Live => \A s \in Session : ~list[s].open
  BY <1>1, <1>2, ServerFacts DEF ServerInv
<1>6. ServerReqOK(y)
  BY <1>2, <1>3, <1>5 DEF ServerReqOK
<1>7. /\ req' = [req EXCEPT ![r] = y]
      /\ UNCHANGED <<rows, account, history, connected, list, told, lost, silent, crossed, broken>>
  BY <1>1 DEF GetMemberIds
<1>8. /\ req' \in [Request -> ServerReq] /\ req'[r] = y
      /\ \A q \in Request : q # r => req'[q] = req[q]
  BY <1>3, <1>7, RequestStaysTyped DEF ServerInv
<1>9. silent' \subseteq DOMAIN history /\ broken' \subseteq Server
  BY <1>7 DEF ServerInv, ServerTypes
<1>10. \A v : Announces(y, v) => rows[v] = 0 \/ \A s \in Session : ~list[s].open
  BY <1>3, <1>4 DEF Announces
<1>11. /\ req[r].at = "members" /\ y.server = req[r].server /\ y.alone = req[r].alone /\ y.no = req[r].no
       /\ silent \subseteq silent' /\ broken \subseteq broken'
  BY <1>1, <1>2, <1>3, <1>7
<1> QED
  BY <1>6, <1>7, <1>8, <1>9, <1>10, <1>11, ServerReqMoves

LEMMA MembersFailKeeps ==
  ASSUME ServerInv, NEW r \in Request, GetMemberIdsFails(r)
  PROVE  ServerInv'
<1>1. PICK x, y :
        x = req[r] /\ y = IF req[r].kind = "delete" THEN [req[r] EXCEPT !.at = "deleteSilently"] ELSE Idle
  OBVIOUS
<1>2. x \in ServerReq /\ ServerReqOK(x) /\ x.at = "members" /\ x.no \in 0..Len(history)
  BY <1>1, ServerFacts DEF ServerInv, GetMemberIdsFails, ServerReq
<1>3. y \in ServerReq /\ ServerReqOK(y)
      /\ (y.at = "idle" \/ (y.at = "deleteSilently" /\ y.server = x.server /\ y.alone = x.alone))
  <2>1. CASE x.kind = "delete"
    <3>1. /\ y \in ServerReq /\ y.at = "deleteSilently" /\ y.kind = x.kind /\ y.server = x.server /\ y.no = x.no
          /\ y.row = x.row /\ y.reach = x.reach /\ y.alone = x.alone
      BY <1>1, <1>2, <2>1 DEF ServerReq
    <3>2. ServerReqOK(y)
      BY <1>2, <2>1, <3>1 DEF ServerReqOK
    <3> QED
      BY <3>1, <3>2
  <2>2. CASE x.kind # "delete"
    BY <1>1, <2>2, IdleIsServerReq, IdleServerReq DEF ServerInv
  <2> QED
    BY <2>1, <2>2
<1>4. /\ req' = [req EXCEPT ![r] = y] /\ silent' = silent \cup ({x.no} \ {0})
      /\ UNCHANGED <<rows, account, history, connected, list, told, lost, crossed, broken>>
  BY <1>1 DEF GetMemberIdsFails, Answer
<1>5. /\ req' \in [Request -> ServerReq] /\ req'[r] = y
      /\ \A q \in Request : q # r => req'[q] = req[q]
  BY <1>3, <1>4, RequestStaysTyped DEF ServerInv
<1>6. silent \subseteq silent' /\ silent' \subseteq DOMAIN history /\ broken' \subseteq Server
  BY <1>2, <1>4, ServerFacts DEF ServerInv, ServerTypes
<1>7. \A v : ~Announces(y, v)
  BY <1>3 DEF Announces
<1>8. /\ req[r].at = "members" /\ (req[r].no = 0 \/ req[r].no \in silent') /\ broken \subseteq broken'
      /\ y.at = "idle" \/ (y.server = req[r].server /\ y.alone = req[r].alone)
  BY <1>1, <1>2, <1>3, <1>4
<1> QED
  BY <1>3, <1>4, <1>5, <1>6, <1>7, <1>8, ServerReqMoves

LEMMA ServerFailKeeps ==
  ASSUME ServerInv, NEW r \in Request, Fail(r)
  PROVE  ServerInv'
<1>1. PICK x : x = req[r]
  OBVIOUS
<1>2. x \in ServerReq /\ ServerReqOK(x) /\ x.at # "idle" /\ x.no \in 0..Len(history) /\ x.server \in Server
  BY <1>1, ServerFacts DEF ServerInv, Fail, ServerReq, ServerReqOK
<1>3. /\ req' = [req EXCEPT ![r] = Idle] /\ silent' = silent \cup ({x.no} \ {0})
      /\ broken \subseteq broken' /\ broken' \subseteq broken \cup {x.server}
      /\ x.at = "delete" => x.server \in broken' \/ x.server \notin Live
      /\ UNCHANGED <<rows, account, history, connected, list, told, lost, crossed>>
  BY <1>1 DEF Fail, Answer
<1>4. Idle \in ServerReq /\ ServerReqOK(Idle)
  BY IdleIsServerReq DEF ServerInv
<1>5. /\ req' \in [Request -> ServerReq] /\ req'[r] = Idle
      /\ \A q \in Request : q # r => req'[q] = req[q]
  BY <1>3, <1>4, RequestStaysTyped DEF ServerInv
<1>6. silent \subseteq silent' /\ silent' \subseteq DOMAIN history /\ broken' \subseteq Server
  BY <1>2, <1>3, ServerFacts DEF ServerInv, ServerTypes
<1>7. \A v : ~Announces(Idle, v)
  BY IdleServerReq DEF Announces
<1>8. x.at = "delete" => rows[x.server] = 0 \/ x.server \in broken'
  BY <1>2, <1>3, ServerFacts DEF ServerInv
<1>9. x.no = 0 \/ x.no \in silent'
  BY <1>3
<1> QED
  BY <1>1, <1>2, <1>3, <1>4, <1>5, <1>6, <1>7, <1>8, <1>9, IdleServerReq, ServerReqMoves

(***************************************************************************)
(* ServerList: what a request commits                                      *)
(***************************************************************************)
LEMMA HistoryGrows ==
  ASSUME ServerTypes, NEW v \in Server, NEW kind \in Kind, Commit(kind, v), NEW k, k = Len(history')
  PROVE  /\ history' \in Seq(Change) /\ k = Len(history) + 1 /\ k \in Nat /\ k # 0 /\ k <= MaxChanges
         /\ \A n : n \in DOMAIN history' <=> n \in DOMAIN history \/ n = k
         /\ \A n \in DOMAIN history : history'[n] = history[n] /\ n < k
         /\ history'[k].kind = kind /\ history'[k].server = v /\ k \notin DOMAIN history
         /\ \A w, n : n \in ChangesOf(w)' <=> n \in ChangesOf(w) \/ (n = k /\ w = v)
         /\ ServerReq \subseteq ServerReq' /\ ServerPage \subseteq ServerPage'
<1>1. PICK c : c = [kind |-> kind, server |-> v]
  OBVIOUS
<1>2. c \in Change /\ c.kind = kind /\ c.server = v
  BY <1>1 DEF Change
<1>3. history \in Seq(Change) /\ history' = Append(history, c) /\ Len(history) < MaxChanges
  BY <1>1 DEF Commit, ServerTypes
<1>4. Len(history) \in Nat /\ DOMAIN history = 1..Len(history) /\ MaxChanges \in Nat
  BY <1>3, LenProperties, BoundAssumption
<1>5. /\ history' \in Seq(Change) /\ Len(history') = Len(history) + 1
      /\ \A n \in 1..Len(history) : history'[n] = history[n]
      /\ history'[Len(history) + 1] = c
  BY <1>2, <1>3, AppendProperties
<1>6. DOMAIN history' = 1..(Len(history) + 1)
  BY <1>5, LenProperties
<1>7. /\ k = Len(history) + 1 /\ k \in Nat /\ k # 0 /\ k <= MaxChanges /\ k \notin DOMAIN history
      /\ \A n : n \in DOMAIN history' <=> n \in DOMAIN history \/ n = k
      /\ \A n \in DOMAIN history : history'[n] = history[n] /\ n < k
  BY <1>3, <1>4, <1>5, <1>6
<1>8. history'[k].kind = kind /\ history'[k].server = v
  BY <1>2, <1>5, <1>7
<1>9. ASSUME NEW w, NEW n PROVE n \in ChangesOf(w)' <=> n \in ChangesOf(w) \/ (n = k /\ w = v)
  BY <1>7, <1>8 DEF ChangesOf
<1>10. 0..Len(history) \subseteq 0..Len(history') /\ 1..Len(history) \subseteq 1..Len(history')
  BY <1>4, <1>5
<1>11. ServerReq \subseteq ServerReq'
  BY <1>10 DEF ServerReq
<1>12. ServerPage \subseteq ServerPage'
  <2>1. [server : Server, row : 1..Len(history)] \subseteq [server : Server, row : 1..Len(history')]
    BY <1>10
  <2>2. SUBSET [server : Server, row : 1..Len(history)] \subseteq SUBSET [server : Server, row : 1..Len(history')]
    BY <2>1
  <2> QED
    BY <1>10, <2>2 DEF ServerPage
<1> QED
  BY <1>5, <1>7, <1>8, <1>9, <1>11, <1>12

(* Request r commits change k to server v, which has row p then, and goes  *)
(* on as y: it creates, renames or deletes the server.                     *)
Creates(x, v, kind, y, p, k) ==
  account /\ x = Idle /\ y = Idle /\ ChangesOf(v) = {} /\ kind = "create" /\ p = k
Renames(x, v, kind, y, p, k) ==
  /\ x.at = "update" /\ x.server = v /\ v \in Live /\ kind = "info" /\ p = k
  /\ y.at = "read" /\ y.kind = "info" /\ y.server = v /\ y.no = k /\ y.alone = x.alone
Deletes(x, v, kind, y, p, k) ==
  /\ x.at \in {"delete", "deleteSilently"} /\ x.server = v /\ v \in Live /\ kind = "delete" /\ p = 0
  /\ y = Idle /\ (x.at = "deleteSilently" => k \in silent')

LEMMA CommitKeeps ==
  ASSUME ServerInv, NEW r \in Request, NEW v \in Server, NEW kind \in Kind, NEW y, NEW p, NEW k,
         Commit(kind, v), k = Len(history'),
         rows' = [rows EXCEPT ![v] = p],
         req' \in [Request -> ServerReq'], req'[r] = y,
         \A q \in Request : q # r => req'[q] = req[q],
         Creates(req[r], v, kind, y, p, k) \/ Renames(req[r], v, kind, y, p, k) \/ Deletes(req[r], v, kind, y, p, k),
         silent \subseteq silent', silent' \subseteq silent \cup {k},
         UNCHANGED <<account, connected, list, told, lost, crossed, broken>>
  PROVE  ServerInv'
<1>1. /\ history' \in Seq(Change) /\ k = Len(history) + 1 /\ k \in Nat /\ k # 0 /\ k <= MaxChanges
      /\ \A n : n \in DOMAIN history' <=> n \in DOMAIN history \/ n = k
      /\ \A n \in DOMAIN history : history'[n] = history[n] /\ n < k
      /\ history'[k].kind = kind /\ history'[k].server = v /\ k \notin DOMAIN history
      /\ \A w, n : n \in ChangesOf(w)' <=> n \in ChangesOf(w) \/ (n = k /\ w = v)
      /\ ServerPage \subseteq ServerPage'
  BY HistoryGrows DEF ServerInv
<1>2. /\ \A w \in Server : rows[w] \in 0..Len(history)
      /\ rows'[v] = p /\ \A w \in Server : w # v => rows'[w] = rows[w]
      /\ p = 0 \/ p = k
  BY DEF ServerInv, ServerTypes, Creates, Renames, Deletes
<1>3. /\ Len(history) \in Nat /\ DOMAIN history = 1..Len(history)
      /\ \A w \in Server : w \in Live <=> rows[w] # 0
      /\ \A w : ChangesOf(w) \subseteq DOMAIN history
      /\ \A n \in DOMAIN history : n \in Nat /\ n # 0
  BY ServerFacts DEF ServerInv
<1>4. /\ \A w \in Server : w \in Live' <=> rows'[w] # 0
      /\ account /\ account' /\ \A w : ~WithAccount(w) /\ ~WithAccount(w)'
  <2>1. account
    BY <1>3 DEF ServerInv, RowsCurrent, Creates, Renames, Deletes
  <2> QED
    BY <2>1 DEF Live, WithAccount
<1>5. ServerTypes'
  <2>1. rows' \in [Server -> 0..Len(history')]
    BY <1>1, <1>2, <1>3 DEF ServerInv, ServerTypes
  <2>2. list' \in [Session -> ServerPage']
    BY <1>1 DEF ServerInv, ServerTypes
  <2>3. silent' \subseteq DOMAIN history'
    BY <1>1 DEF ServerInv, ServerTypes
  <2> QED
    BY <1>1, <2>1, <2>2, <2>3 DEF ServerInv, ServerTypes
<1>6. RowsCurrent'
  <2>1. ASSUME NEW w \in Server, rows'[w] # 0
        PROVE  rows'[w] \in ChangesOf(w)' /\ \A n \in ChangesOf(w)' : n <= rows'[w] /\ history'[n].kind # "delete"
    <3>1. CASE w # v
      BY <1>1, <1>2, <1>3, <2>1, <3>1 DEF ServerInv, RowsCurrent
    <3>2. CASE w = v
      <4>1. p = k /\ kind # "delete" /\ (ChangesOf(v) = {} \/ rows[v] # 0)
        BY <1>2, <1>3, <2>1, <3>2 DEF Creates, Renames, Deletes
      <4>2. \A n \in ChangesOf(v) : history[n].kind # "delete"
        BY <4>1 DEF ServerInv, RowsCurrent
      <4> QED
        BY <1>1, <1>2, <1>3, <3>2, <4>1, <4>2
    <3> QED
      BY <3>1, <3>2
  <2>2. ASSUME NEW w \in Server, rows'[w] # 0, NEW n \in ChangesOf(w)', NEW m \in ChangesOf(w)', history'[n].kind = "create"
        PROVE  n <= m
    <3>1. CASE w # v
      BY <1>1, <1>2, <1>3, <2>2, <3>1 DEF ServerInv, RowsCurrent
    <3>2. CASE w = v /\ ChangesOf(v) = {}
      BY <1>1, <2>2, <3>2
    <3>3. CASE w = v /\ ChangesOf(v) # {}
      <4>1. rows[v] # 0 /\ kind # "create"
        BY <1>2, <1>3, <2>2, <3>3 DEF Creates, Renames, Deletes
      <4>2. n \in ChangesOf(v) /\ history[n].kind = "create"
        BY <1>1, <1>3, <2>2, <3>3, <4>1
      <4>3. m \in ChangesOf(v) \/ (m = k /\ n < k)
        BY <1>1, <1>3, <2>2, <3>3, <4>2
      <4>4. \A j \in ChangesOf(v) : n <= j
        BY <4>1, <4>2 DEF ServerInv, RowsCurrent
      <4> QED
        BY <1>1, <1>3, <4>2, <4>3, <4>4
    <3> QED
      BY <3>1, <3>2, <3>3
  <2> QED
    BY <1>4, <2>1, <2>2 DEF RowsCurrent
<1>7. \A q \in Request : q # r /\ req[q].at # "idle" /\ req[q].server = v => ~req[q].alone /\ v \in Live
  <2>1. ASSUME NEW q \in Request, q # r, req[q].at # "idle", req[q].server = v
        PROVE  ~req[q].alone /\ v \in Live
    <3>1. ChangesOf(v) # {}
      BY <2>1 DEF ServerInv, ServerReqOK
    <3>2. req[r].server = v /\ req[r].at # "idle" /\ v \in Live
      BY <3>1 DEF Creates, Renames, Deletes
    <3> QED
      BY <2>1, <3>2 DEF ServerInv, CrossingsKnown
  <2> QED
    BY <2>1
<1>8. ASSUME NEW x, ServerReqOK(x), x.at = "idle" \/ x.server # v \/ (~x.alone /\ v \in Live)
      PROVE  ServerReqOK(x)'
  <2>1. CASE x.at = "idle"
    BY <1>8, <2>1, IdleServerReq DEF ServerReqOK
  <2>2. CASE x.at # "idle"
    <3>1. /\ x.server \in Server /\ ChangesOf(x.server)' # {}
          /\ x.no # 0 => x.no \in ChangesOf(x.server)'
      BY <1>1, <1>8, <2>2 DEF ServerReqOK
    <3>2. x.server \in Live' => x.server \in Live
      BY <1>2, <1>3, <1>4, <1>8, <2>2, <3>1
    <3>3. x.alone => rows'[x.server] = rows[x.server]
      BY <1>2, <1>8, <2>2, <3>1
    <3>4. x.kind = "info" /\ x.at \in {"members", "emit"} =>
            x.no <= x.row /\ (x.alone /\ x.server \in Live' => x.row = rows'[x.server])
      BY <1>8, <3>2, <3>3 DEF ServerReqOK
    <3>5. x.kind = "info" /\ x.at = "emit" /\ ~x.reach /\ x.server \in Live' =>
            \A s \in Session : list'[s].open =>
              x.no <= list'[s].seen /\ (x.alone => NoneIn(told[s], EventsOf(x.server))')
      BY <1>8, <3>2 DEF ServerReqOK, NoneIn, EventsOf
    <3> QED
      BY <1>8, <2>2, <3>1, <3>4, <3>5 DEF ServerReqOK
  <2> QED
    BY <2>1, <2>2
<1>9. ServerReqOK(y)'
  <2>1. CASE y = Idle
    BY <1>8, <2>1, IdleServerReq, IdleIsServerReq DEF ServerInv
  <2>2. CASE y # Idle
    <3>1. y.at = "read" /\ y.kind = "info" /\ y.server = v /\ y.no = k
      BY <2>2 DEF Creates, Renames, Deletes
    <3>2. k \in ChangesOf(v)'
      BY <1>1
    <3> QED
      BY <3>1, <3>2 DEF ServerReqOK
  <2> QED
    BY <2>1, <2>2
<1>10. \A q \in Request : ServerReqOK(req[q])'
  <2>1. ASSUME NEW q \in Request PROVE ServerReqOK(req[q])'
    <3>1. PICK x : x = req'[q]
      OBVIOUS
    <3>2. ServerReqOK(x)'
      <4>1. CASE q = r
        BY <1>9, <3>1, <4>1
      <4>2. CASE q # r
        BY <1>7, <1>8, <3>1, <4>2 DEF ServerInv
      <4> QED
        BY <4>1, <4>2
    <3> QED
      BY <3>1, <3>2 DEF ServerReqOK
  <2> QED
    BY <2>1
<1>11. \A q \in Request : req'[q].at # "idle" =>
         req[q].at # "idle" /\ req'[q].server = req[q].server /\ req'[q].alone = req[q].alone
  <2>1. y.at # "idle" => req[r].at # "idle" /\ y.server = req[r].server /\ y.alone = req[r].alone
    BY IdleServerReq DEF Creates, Renames, Deletes
  <2> QED
    BY <2>1
<1>12. \A q \in Request : req'[q].server \in Server => req'[q].at # "idle"
  BY <1>10, NoServerAssumption, IdleServerReq DEF ServerReqOK
<1>13. CrossingsKnown'
  <2>1. \A q \in Request : req'[q].at # "idle" /\ ~req'[q].alone => req'[q].server \in crossed'
    BY <1>11 DEF ServerInv, CrossingsKnown
  <2>2. ASSUME NEW q \in Request, NEW t \in Request, q # t, req'[q].at # "idle", req'[q].server = req'[t].server
        PROVE  ~req'[t].alone
    <3>1. req'[q].server \in Server
      BY <1>11, <2>2, BusyRequests
    <3>2. req'[t].at # "idle"
      BY <1>12, <2>2, <3>1
    <3> QED
      BY <1>11, <2>2, <3>2 DEF ServerInv, CrossingsKnown
  <2>3. ASSUME NEW q \in Request, NEW w \in Server, req'[q].server = w, rows'[w] = 0
        PROVE  ~req'[q].alone
    <3>1. CASE w # v
      BY <1>2, <1>4, <1>11, <1>12, <2>3, <3>1 DEF ServerInv, CrossingsKnown
    <3>2. CASE w = v
      <4>1. p = 0
        BY <1>2, <2>3, <3>2
      <4>2. y = Idle
        BY <1>1, <4>1 DEF Creates, Renames, Deletes
      <4>3. q # r
        BY <1>12, <2>3, <4>2, IdleServerReq
      <4> QED
        BY <1>7, <1>11, <1>12, <2>3, <3>2, <4>3
    <3> QED
      BY <3>1, <3>2
  <2> QED
    BY <2>1, <2>2, <2>3 DEF CrossingsKnown
<1>14. \A s \in Session : ServerPageOK(s)'
  <2>1. ASSUME NEW s \in Session PROVE ServerPageOK(s)'
    <3>1. ServerPageOK(s) /\ list[s] \in ServerPage /\ list[s].seen \in 0..Len(history)
      BY ServerFacts DEF ServerInv, ServerPage
    <3>2. ASSUME NEW e \in list[s].page
          PROVE  /\ e.row \in ChangesOf(e.server)' /\ e.row <= list[s].seen
                 /\ \A n \in ChangesOf(e.server)' : n <= list[s].seen => n <= e.row
      BY <1>1, <1>3, <3>1 DEF ServerPageOK
    <3>3. \A i \in DOMAIN told[s] : ChangesOf(told[s][i].server)' # {}
      BY <1>1, <3>1 DEF ServerPageOK
    <3> QED
      BY <3>2, <3>3 DEF ServerPageOK
  <2> QED
    BY <2>1
<1>15. ASSUME ChangesOf(v) = {}, NEW s \in Session
       PROVE  NoneIn(told[s], EventsOf(v)) /\ ~Told(s, "delete", v)
  BY <1>15 DEF ServerInv, ServerPageOK, NoneIn, EventsOf, Told
<1>16. ASSUME NEW s \in Session, NEW w \in Server PROVE LastIsPresent(s, w)'
  <2>1. LastIsPresent(s, w)
    BY DEF ServerInv
  <2>2. \A x : LastIn(told[s], EventsOf(w), x)' <=> LastIn(told[s], EventsOf(w), x)
    BY DEF LastIn, EventsOf
  <2>3. CASE w # v
    <3>1. \A q \in Request : req[q].no = rows[w] /\ rows[w] # 0 => q # r \/ ~Renames(req[r], v, kind, y, p, k)
      <4>1. Renames(req[r], v, kind, y, p, k) => req[r].no = 0
        BY DEF Renames, ServerInv, ServerReqOK
      <4> QED
        BY <4>1
    <3>2. \A q \in Request : req[q].no = rows[w] /\ rows[w] # 0 => req'[q].no = rows[w]
      <4>1. Creates(req[r], v, kind, y, p, k) => req[r].no = 0
        BY IdleServerReq DEF Creates
      <4>2. Deletes(req[r], v, kind, y, p, k) => req[r].no = 0
        BY DEF Deletes, ServerInv, ServerReqOK
      <4> QED
        BY <3>1, <4>1, <4>2
    <3> QED
      BY <1>2, <2>1, <2>2, <2>3, <3>2 DEF LastIsPresent
  <2>4. CASE w = v
    <3>1. CASE Creates(req[r], v, kind, y, p, k)
      <4>1. \A x : ~LastIn(told[s], EventsOf(v), x)
        BY <1>15, <3>1 DEF Creates, LastIn, NoneIn
      <4> QED
        BY <2>2, <2>4, <4>1 DEF LastIsPresent
    <3>2. CASE Renames(req[r], v, kind, y, p, k)
      <4>1. rows'[v] = k /\ req'[r].no = k
        BY <1>2, <3>2 DEF Renames
      <4> QED
        BY <2>4, <4>1 DEF LastIsPresent
    <3>3. CASE Deletes(req[r], v, kind, y, p, k)
      BY <1>2, <2>4, <3>3 DEF LastIsPresent, Deletes
    <3> QED
      BY <3>1, <3>2, <3>3
  <2> QED
    BY <2>3, <2>4
<1>17. ASSUME NEW s \in Session, NEW w \in Server PROVE GhostHasCause(s, w)'
  <2>1. GhostHasCause(s, w)
    BY DEF ServerInv
  <2>2. Hidden(s, w) => Hidden(s, w)'
    BY DEF Hidden, LastIn, NoneIn, EventsOf, Unlisted
  <2>3. ASSUME NEW q \in Request, Announces(req[q], w)'
        PROVE  Announces(req'[q], w) /\ q # r /\ Announces(req[q], w)
    <3>1. Announces(req'[q], w)
      BY <2>3 DEF Announces
    <3>2. ~Announces(y, w)
      BY IdleServerReq DEF Announces, Creates, Renames, Deletes
    <3> QED
      BY <3>1, <3>2
  <2>4. CASE w # v
    <3>1. DeletedSilently(w) => DeletedSilently(w)'
      BY <1>1, <1>2, <1>3, <2>4 DEF DeletedSilently
    <3>2. rows'[w] = rows[w]
      BY <1>2, <2>4
    <3> QED
      BY <1>4, <2>1, <2>2, <2>3, <3>1, <3>2 DEF GhostHasCause
  <2>5. CASE w = v
    <3>1. CASE Creates(req[r], v, kind, y, p, k)
      <4>1. ASSUME NEW q \in Request, Announces(req[q], v) PROVE FALSE
        BY <3>1, <4>1 DEF Announces, Creates, ServerInv, ServerReqOK
      <4>2. rows'[v] # 0
        BY <1>1, <1>2, <3>1 DEF Creates
      <4> QED
        BY <2>3, <2>5, <4>1, <4>2 DEF GhostHasCause
    <3>2. CASE Renames(req[r], v, kind, y, p, k)
      <4>1. rows'[v] # 0 /\ rows[v] # 0
        BY <1>1, <1>2, <1>3, <3>2 DEF Renames
      <4> QED
        BY <1>4, <2>1, <2>2, <2>3, <2>5, <4>1 DEF GhostHasCause, DeletedSilently
    <3>3. CASE Deletes(req[r], v, kind, y, p, k)
      <4>1. rows'[v] = 0 /\ rows[v] # 0 /\ kind = "delete"
        BY <1>1, <1>2, <1>3, <3>3 DEF Deletes
      <4>2. CASE req[r].at = "delete"
        <5>1. Announces(req[r], v)
          BY <3>3, <4>2 DEF Announces, Deletes
        <5> QED
          BY <1>4, <2>1, <2>2, <2>5, <4>1, <5>1 DEF GhostHasCause, DeletedSilently
      <4>3. CASE req[r].at = "deleteSilently"
        <5>1. k \in silent' /\ k \in ChangesOf(v)' /\ history'[k].kind = "delete"
          BY <1>1, <3>3, <4>1, <4>3 DEF Deletes
        <5>2. DeletedSilently(v)'
          BY <4>1, <5>1 DEF DeletedSilently
        <5> QED
          BY <2>5, <5>2 DEF GhostHasCause
      <4> QED
        BY <3>3, <4>2, <4>3 DEF Deletes
    <3> QED
      BY <3>1, <3>2, <3>3
  <2> QED
    BY <2>4, <2>5
<1>18. NoUpdateMissed'
  <2> SUFFICES ASSUME NEW s \in Session, NEW w \in Live', list[s].open, w \notin lost[s],
                      NEW n \in ChangesOf(w)', history'[n].kind = "info"
               PROVE  \/ n <= list[s].seen \/ n \in silent'
                      \/ \E i \in DOMAIN told[s] : told[s][i].server = w /\ told[s][i].row >= n
                      \/ \E q \in Request : req'[q].server = w /\ req'[q].no = n
    BY DEF NoUpdateMissed, About
  <2>1. w \in Server /\ rows'[w] # 0
    BY DEF Live
  <2>2. CASE n = k
    <3>1. w = v /\ kind = "info"
      BY <1>1, <1>3, <2>2
    <3>2. Renames(req[r], v, kind, y, p, k)
      BY <3>1 DEF Creates, Deletes
    <3> QED
      BY <2>2, <3>1, <3>2 DEF Renames
  <2>3. CASE n # k
    <3>1. n \in ChangesOf(w) /\ n \in DOMAIN history /\ history[n].kind = "info" /\ n # 0
      BY <1>1, <1>3, <2>3
    <3>2. w \in Live
      BY <1>2, <1>3, <2>1, <3>1 DEF Creates, Renames, Deletes
    <3>3. \/ n <= list[s].seen \/ n \in silent
          \/ \E i \in DOMAIN told[s] : told[s][i].server = w /\ told[s][i].row >= n
          \/ \E q \in Request : req[q].server = w /\ req[q].no = n
      BY <3>1, <3>2 DEF ServerInv, NoUpdateMissed, About
    <3>4. req[r].no = 0
      BY IdleServerReq DEF Creates, Renames, Deletes, ServerInv, ServerReqOK
    <3> QED
      BY <3>1, <3>3, <3>4
  <2> QED
    BY <2>2, <2>3
<1>19. AnnouncedDeletionHappens'
  <2> SUFFICES ASSUME NEW s \in Session, NEW w \in Server, Told(s, "delete", w)
               PROVE  rows'[w] = 0 \/ w \in broken \/ \E q \in Request : req'[q].server = w /\ req'[q].at = "delete"
    BY DEF AnnouncedDeletionHappens, Told, About
  <2>1. rows[w] = 0 \/ w \in broken \/ \E q \in Request : req[q].server = w /\ req[q].at = "delete"
    BY DEF ServerInv, AnnouncedDeletionHappens, About
  <2>2. ChangesOf(w) # {}
    BY <1>15 DEF Told, ServerInv, ServerPageOK
  <2>3. CASE w # v
    BY <1>2, <2>1, <2>3, IdleServerReq DEF Creates, Renames, Deletes
  <2>4. CASE w = v
    BY <1>2, <1>3, <2>1, <2>2, <2>4 DEF Creates, Renames, Deletes
  <2> QED
    BY <2>3, <2>4
<1> QED
  BY <1>5, <1>6, <1>10, <1>13, <1>14, <1>16, <1>17, <1>18, <1>19 DEF ServerInv

LEMMA CreateServerKeeps ==
  ASSUME ServerInv, NEW r \in Request, NEW v \in Server, CreateServer(r, v)
  PROVE  ServerInv'
<1>1. PICK k : k = Len(history')
  OBVIOUS
<1>2. /\ Commit("create", v) /\ "create" \in Kind /\ ServerTypes
      /\ rows' = [rows EXCEPT ![v] = k] /\ req[r] = Idle /\ account /\ ChangesOf(v) = {}
      /\ UNCHANGED <<account, req, connected, list, told, lost, silent, crossed, broken>>
  BY <1>1 DEF CreateServer, Kind, ServerInv
<1>3. ServerReq \subseteq ServerReq'
  BY <1>1, <1>2, HistoryGrows
<1>4. req' \in [Request -> ServerReq'] /\ req'[r] = Idle /\ \A q \in Request : q # r => req'[q] = req[q]
  BY <1>2, <1>3 DEF ServerTypes
<1>5. Creates(req[r], v, "create", Idle, k, k)
  BY <1>2 DEF Creates
<1>6. silent \subseteq silent' /\ silent' \subseteq silent \cup {k}
  BY <1>2
<1> QED
  BY <1>1, <1>2, <1>4, <1>5, <1>6, CommitKeeps

LEMMA UpdateServerKeeps ==
  ASSUME ServerInv, NEW r \in Request, UpdateServer(r)
  PROVE  ServerInv'
<1>1. PICK v : v = req[r].server
  OBVIOUS
<1>2. /\ req[r] \in ServerReq /\ ServerReqOK(req[r]) /\ req[r].at = "update" /\ v \in Live /\ v \in Server
      /\ req[r].kind = "info"
  BY <1>1, ServerFacts DEF ServerInv, UpdateServer, Live, ServerReqOK
<1>3. CASE /\ Commit("info", v)
           /\ rows' = [rows EXCEPT ![v] = Len(history')]
           /\ req' = [req EXCEPT ![r].at = "read", ![r].no = Len(history')]
           /\ UNCHANGED <<account, connected, list, told, lost, silent, crossed, broken>>
  <2>1. PICK k, y : k = Len(history') /\ y = [req[r] EXCEPT !.at = "read", !.no = k]
    OBVIOUS
  <2>2. "info" \in Kind /\ ServerTypes
    BY DEF Kind, ServerInv
  <2>3. ServerReq \subseteq ServerReq' /\ k \in 0..Len(history')
    BY <1>2, <1>3, <2>1, <2>2, HistoryGrows
  <2>4. req[r] \in ServerReq'
    BY <1>2, <2>3
  <2>5. /\ y \in ServerReq' /\ y.at = "read" /\ y.kind = req[r].kind /\ y.server = v /\ y.no = k
        /\ y.alone = req[r].alone
    BY <1>1, <2>1, <2>3, <2>4 DEF ServerReq
  <2>6. req' = [req EXCEPT ![r] = y]
    BY <1>3, <2>1
  <2>7. /\ req' \in [Request -> ServerReq'] /\ req'[r] = y
        /\ \A q \in Request : q # r => req'[q] = req[q]
    BY <2>2, <2>3, <2>5, <2>6 DEF ServerTypes
  <2>8. Renames(req[r], v, "info", y, k, k)
    BY <1>1, <1>2, <2>5 DEF Renames
  <2>9. silent \subseteq silent' /\ silent' \subseteq silent \cup {k}
    BY <1>3
  <2>10. rows' = [rows EXCEPT ![v] = k]
    BY <1>3, <2>1
  <2> QED
    BY <1>2, <1>3, <2>1, <2>2, <2>7, <2>8, <2>9, <2>10, CommitKeeps
<1>4. CASE /\ req' = [req EXCEPT ![r].at = "read"]
           /\ UNCHANGED <<rows, account, history, connected, list, told, lost, silent, crossed, broken>>
  BY <1>1, <1>2, <1>4, NoNewNameKeeps
<1> QED
  BY <1>1, <1>3, <1>4 DEF UpdateServer

LEMMA DeleteServerKeeps ==
  ASSUME ServerInv, NEW r \in Request, DeleteServer(r)
  PROVE  ServerInv'
<1>1. PICK v, k : v = req[r].server /\ k = Len(history')
  OBVIOUS
<1>2. /\ req[r].at \in {"delete", "deleteSilently"} /\ v \in Live /\ v \in Server
      /\ Commit("delete", v) /\ "delete" \in Kind /\ ServerTypes
      /\ rows' = [rows EXCEPT ![v] = 0] /\ req' = [req EXCEPT ![r] = Idle]
      /\ silent' = IF req[r].at = "deleteSilently" THEN silent \cup {k} ELSE silent
      /\ UNCHANGED <<account, connected, list, told, lost, crossed, broken>>
  BY <1>1 DEF DeleteServer, Answer, Kind, ServerInv, Live
<1>3. ServerReq \subseteq ServerReq' /\ Idle \in ServerReq
  BY <1>1, <1>2, HistoryGrows, IdleIsServerReq
<1>4. /\ req' \in [Request -> ServerReq'] /\ req'[r] = Idle
      /\ \A q \in Request : q # r => req'[q] = req[q]
  BY <1>2, <1>3 DEF ServerTypes
<1>5. Deletes(req[r], v, "delete", Idle, 0, k)
  BY <1>1, <1>2 DEF Deletes
<1>6. silent \subseteq silent' /\ silent' \subseteq silent \cup {k}
  BY <1>2
<1> QED
  BY <1>1, <1>2, <1>4, <1>5, <1>6, CommitKeeps

(* With the account the servers go, and nobody who shows them is told.     *)
LEMMA DeleteAccountKeeps ==
  ASSUME ServerInv, DeleteAccount
  PROVE  ServerInv'
<1>1. /\ account /\ account' = FALSE /\ rows' = [v \in Server |-> 0]
      /\ UNCHANGED <<history, req, connected, list, told, lost, silent, crossed, broken>>
  BY DEF DeleteAccount
<1>2. /\ \A v \in Server : rows'[v] = 0 /\ v \notin Live'
      /\ Len(history) \in Nat /\ \A v : ChangesOf(v)' = ChangesOf(v)
  BY <1>1, ServerFacts DEF ServerInv, Live, ChangesOf
<1>3. ASSUME NEW v \in Server, ~WithAccount(v)' PROVE rows[v] = 0 /\ ~WithAccount(v)
  <2>1. \E n \in ChangesOf(v) : history[n].kind = "delete"
    BY <1>1, <1>2, <1>3 DEF WithAccount
  <2> QED
    BY <1>1, <2>1 DEF ServerInv, RowsCurrent, WithAccount
<1>4. ServerTypes'
  <2>1. rows' \in [Server -> 0..Len(history)]
    BY <1>1, <1>2
  <2>2. ServerReq' = ServerReq /\ ServerPage' = ServerPage
    BY <1>1 DEF ServerReq, ServerPage
  <2> QED
    BY <1>1, <2>1, <2>2 DEF ServerInv, ServerTypes
<1>5. RowsCurrent'
  BY <1>2 DEF RowsCurrent
<1>6. CrossingsKnown'
  BY <1>1, <1>3 DEF ServerInv, CrossingsKnown
<1>7. \A r \in Request : ServerReqOK(req[r])'
  <2>1. ASSUME NEW r \in Request PROVE ServerReqOK(req[r])'
    <3>1. PICK x : x = req[r] /\ x = req'[r]
      BY <1>1
    <3>2. ServerReqOK(x)
      BY <3>1 DEF ServerInv
    <3>3. ServerReqOK(x)'
      BY <1>2, <3>2 DEF ServerReqOK
    <3> QED
      BY <3>1, <3>3 DEF ServerReqOK
  <2> QED
    BY <2>1
<1>8. \A s \in Session : ServerPageOK(s)'
  BY <1>1 DEF ServerInv, ServerPageOK, ChangesOf
<1>9. \A s \in Session, v \in Server : LastIsPresent(s, v)'
  BY <1>2 DEF LastIsPresent
<1>10. ASSUME NEW s \in Session, NEW v \in Server PROVE GhostHasCause(s, v)'
  <2>1. GhostHasCause(s, v)
    BY DEF ServerInv
  <2>2. Hidden(s, v) => Hidden(s, v)'
    BY <1>1 DEF Hidden, LastIn, NoneIn, EventsOf, Unlisted
  <2>3. DeletedSilently(v) => DeletedSilently(v)'
    BY <1>1, <1>2 DEF DeletedSilently
  <2> QED
    BY <1>1, <1>3, <2>1, <2>2, <2>3 DEF GhostHasCause
<1>11. NoUpdateMissed' /\ AnnouncedDeletionHappens'
  BY <1>2 DEF NoUpdateMissed, AnnouncedDeletionHappens, Live
<1> QED
  BY <1>4, <1>5, <1>6, <1>7, <1>8, <1>9, <1>10, <1>11 DEF ServerInv

(***************************************************************************)
(* ServerList: a request begins                                            *)
(***************************************************************************)
LEMMA OwnerRequestKeeps ==
  ASSUME ServerInv, NEW r \in Request, NEW v \in Server, IsServerOwner(r, v)
  PROVE  ServerInv'
<1>1. PICK x \in {[Idle EXCEPT !.at = "update"], [Idle EXCEPT !.at = "members", !.kind = "delete"]} :
        req' = [q \in Request |->
          IF q = r THEN [x EXCEPT !.server = v, !.alone = About(v) = {}]
          ELSE [req[q] EXCEPT !.alone = @ /\ q \notin About(v)]]
  BY DEF IsServerOwner
<1>2. PICK y, first : first = (About(v) = {}) /\ y = [x EXCEPT !.server = v, !.alone = first]
  OBVIOUS
<1>3. /\ req[r] = Idle /\ v \in Live /\ rows[v] # 0 /\ ChangesOf(v) # {}
      /\ crossed' = IF first THEN crossed ELSE crossed \cup {v}
      /\ UNCHANGED <<rows, account, history, connected, list, told, lost, silent, broken>>
  BY <1>2, ServerFacts DEF IsServerOwner, ServerInv, RowsCurrent
<1>4. Idle \in ServerReq /\ first \in BOOLEAN /\ ServerTypes
  BY <1>2, IdleIsServerReq DEF ServerInv
<1>5. /\ x \in ServerReq /\ x.no = 0 /\ x.row = 0 /\ x.reach = FALSE /\ x.alone = TRUE
      /\ (x.at = "update" /\ x.kind = "info") \/ (x.at = "members" /\ x.kind = "delete")
  BY <1>4, IdleServerReq DEF ServerReq, Kind
<1>6. /\ y \in ServerReq /\ y.server = v /\ y.no = 0 /\ y.row = 0 /\ y.reach = FALSE /\ y.alone = first
      /\ (y.at = "update" /\ y.kind = "info") \/ (y.at = "members" /\ y.kind = "delete")
  BY <1>2, <1>4, <1>5 DEF ServerReq
<1>7. req'[r] = y
  BY <1>1, <1>2
<1>8. ASSUME NEW q \in Request, q # r
      PROVE  /\ req'[q] \in ServerReq /\ req'[q].at = req[q].at /\ req'[q].kind = req[q].kind
             /\ req'[q].server = req[q].server /\ req'[q].no = req[q].no /\ req'[q].row = req[q].row
             /\ req'[q].reach = req[q].reach
             /\ req'[q].alone <=> req[q].alone /\ req[q].server # v
             /\ req[q].at = "idle" => req'[q] = Idle
  <2>1. PICK z, b : z = req[q] /\ b = (z.alone /\ q \notin About(v))
    OBVIOUS
  <2>2. z \in ServerReq /\ ServerReqOK(z)
    BY <2>1, ServerFacts DEF ServerInv
  <2>3. b \in BOOLEAN /\ (b <=> z.alone /\ z.server # v)
    BY <2>1 DEF About
  <2>4. req'[q] = [z EXCEPT !.alone = b]
    BY <1>1, <1>8, <2>1
  <2>5. /\ req'[q] \in ServerReq /\ req'[q].at = z.at /\ req'[q].kind = z.kind
        /\ req'[q].server = z.server /\ req'[q].no = z.no /\ req'[q].row = z.row
        /\ req'[q].reach = z.reach /\ req'[q].alone = b
    BY <2>2, <2>3, <2>4 DEF ServerReq
  <2>6. z.at = "idle" => req'[q] = z /\ z = Idle
    <3>1. z.at = "idle" => z = Idle /\ b = z.alone
      <4>1. z.at = "idle" => z = Idle
        BY <2>2 DEF ServerReqOK
      <4>2. z = Idle => b = TRUE /\ z.alone = TRUE
        BY <2>3, IdleServerReq, NoServerAssumption
      <4> QED
        BY <4>1, <4>2
    <3>2. b = z.alone => [z EXCEPT !.alone = b] = z
      BY <2>2 DEF ServerReq
    <3> QED
      BY <2>4, <3>1, <3>2
  <2> QED
    BY <2>1, <2>3, <2>5, <2>6
<1>9. ServerTypes'
  <2>1. req' \in [Request -> ServerReq']
    <3>1. \A q \in Request : req'[q] \in ServerReq
      BY <1>6, <1>7, <1>8
    <3>2. ServerReq' = ServerReq
      BY <1>3 DEF ServerReq
    <3>3. req' = [q \in Request |-> req'[q]]
      BY <1>1
    <3> QED
      BY <3>1, <3>2, <3>3
  <2>2. ServerPage' = ServerPage /\ crossed' \subseteq Server
    BY <1>3 DEF ServerPage, ServerInv, ServerTypes
  <2> QED
    BY <1>3, <2>1, <2>2 DEF ServerInv, ServerTypes
<1>10. RowsCurrent'
  BY <1>3 DEF ServerInv, RowsCurrent, ChangesOf
<1>11. first <=> \A q \in Request : req[q].server # v
  BY <1>2 DEF About
<1>12. /\ crossed \subseteq crossed' /\ crossed' \subseteq crossed \cup {v}
       /\ v \notin crossed' => first
       /\ ~first => v \in crossed'
  BY <1>3, <1>4
<1>13. CrossingsKnown'
  <2>1. ASSUME NEW q \in Request, req'[q].at # "idle", ~req'[q].alone PROVE req'[q].server \in crossed'
    <3>1. CASE q = r
      BY <1>6, <1>7, <1>12, <2>1, <3>1
    <3>2. CASE q # r
      <4>1. req[q].at # "idle" /\ req'[q].server = req[q].server /\ (~req[q].alone \/ req[q].server = v)
        BY <1>8, <2>1, <3>2
      <4> QED
        BY <1>11, <1>12, <4>1 DEF ServerInv, CrossingsKnown
    <3> QED
      BY <3>1, <3>2
  <2>2. ASSUME NEW q \in Request, NEW t \in Request, q # t, req'[q].at # "idle", req'[q].server = req'[t].server
        PROVE  ~req'[t].alone
    <3>1. CASE q = r
      BY <1>6, <1>7, <1>8, <2>2, <3>1
    <3>2. CASE t = r
      <4>1. req[q].server = v
        BY <1>6, <1>7, <1>8, <2>2, <3>2
      <4> QED
        BY <1>6, <1>7, <1>11, <3>2, <4>1
    <3>3. CASE q # r /\ t # r
      BY <1>8, <2>2, <3>3 DEF ServerInv, CrossingsKnown
    <3> QED
      BY <3>1, <3>2, <3>3
  <2>3. ASSUME NEW q \in Request, NEW w \in Server, req'[q].server = w, rows'[w] = 0, ~WithAccount(w)'
        PROVE  ~req'[q].alone
    <3>1. q # r
      BY <1>3, <1>6, <1>7, <2>3
    <3>2. ~WithAccount(w)
      BY <1>3, <2>3, AccountStays
    <3> QED
      BY <1>3, <1>8, <2>3, <3>1, <3>2 DEF ServerInv, CrossingsKnown
  <2> QED
    BY <2>1, <2>2, <2>3 DEF CrossingsKnown
<1>14. ASSUME NEW z, ServerReqOK(z) PROVE ServerReqOK(z)'
  BY <1>3, <1>14 DEF ServerReqOK, ChangesOf, Live, NoneIn, EventsOf
<1>15. \A q \in Request : ServerReqOK(req[q])'
  <2>1. ASSUME NEW q \in Request PROVE ServerReqOK(req[q])'
    <3>1. PICK z : z = req'[q]
      OBVIOUS
    <3>2. ServerReqOK(z)
      <4>1. CASE q = r
        BY <1>3, <1>6, <1>7, <3>1, <4>1 DEF ServerReqOK
      <4>2. CASE q # r /\ req[q].at = "idle"
        BY <1>8, <3>1, <4>2, IdleIsServerReq DEF ServerInv
      <4>3. CASE q # r /\ req[q].at # "idle"
        <5>1. /\ z.at = req[q].at /\ z.kind = req[q].kind /\ z.server = req[q].server /\ z.no = req[q].no
              /\ z.row = req[q].row /\ z.reach = req[q].reach /\ (z.alone => req[q].alone)
          BY <1>8, <3>1, <4>3
        <5>2. ServerReqOK(req[q])
          BY DEF ServerInv
        <5> QED
          BY <4>3, <5>1, <5>2 DEF ServerReqOK
      <4> QED
        BY <4>1, <4>2, <4>3
    <3>3. ServerReqOK(z)'
      BY <1>14, <3>2
    <3> QED
      BY <3>1, <3>3 DEF ServerReqOK
  <2> QED
    BY <2>1
<1>16. \A s \in Session : ServerPageOK(s)'
  BY <1>3 DEF ServerInv, ServerPageOK, ChangesOf
<1>17. \A q \in Request : req[q].no # 0 => req'[q].no = req[q].no /\ req'[q].server = req[q].server
  BY <1>3, <1>8, IdleServerReq
<1>18. ASSUME NEW s \in Session, NEW w \in Server PROVE LastIsPresent(s, w)'
  <2>1. LastIsPresent(s, w)
    BY DEF ServerInv
  <2>2. \A x1 : LastIn(told[s], EventsOf(w), x1)' <=> LastIn(told[s], EventsOf(w), x1)
    BY <1>3 DEF LastIn, EventsOf
  <2> QED
    BY <1>3, <1>12, <1>17, <2>1, <2>2 DEF LastIsPresent
<1>19. ASSUME NEW s \in Session, NEW w \in Server PROVE GhostHasCause(s, w)'
  <2>1. GhostHasCause(s, w)
    BY DEF ServerInv
  <2>2. Hidden(s, w) => Hidden(s, w)'
    BY <1>3 DEF Hidden, LastIn, NoneIn, EventsOf, Unlisted
  <2>3. DeletedSilently(w) => DeletedSilently(w)'
    BY <1>3 DEF DeletedSilently, ChangesOf
  <2>4. ASSUME NEW q \in Request, Announces(req[q], w)' PROVE Announces(req[q], w)
    <3>1. Announces(req'[q], w)
      BY <2>4 DEF Announces
    <3>2. q # r
      BY <1>6, <1>7, <3>1 DEF Announces
    <3> QED
      BY <1>8, <3>1, <3>2 DEF Announces
  <2>5. (\E q \in Request : Announces(req[q], w)') => \E q \in Request : Announces(req[q], w)
    BY <2>4
  <2> QED
    BY <1>3, <1>12, <2>1, <2>2, <2>3, <2>5, AccountStays DEF GhostHasCause
<1>20. NoUpdateMissed'
  <2> SUFFICES ASSUME NEW s \in Session, NEW w \in Live, list[s].open, w \notin lost[s],
                      NEW n \in ChangesOf(w), history[n].kind = "info"
               PROVE  \/ n <= list[s].seen \/ n \in silent
                      \/ \E i \in DOMAIN told[s] : told[s][i].server = w /\ told[s][i].row >= n
                      \/ \E q \in Request : req'[q].server = w /\ req'[q].no = n
    BY <1>3 DEF NoUpdateMissed, ChangesOf, Live, About
  <2>1. n # 0
    BY ServerFacts DEF ServerInv
  <2>2. \/ n <= list[s].seen \/ n \in silent
        \/ \E i \in DOMAIN told[s] : told[s][i].server = w /\ told[s][i].row >= n
        \/ \E q \in Request : req[q].server = w /\ req[q].no = n
    BY DEF ServerInv, NoUpdateMissed, About
  <2> QED
    BY <1>17, <2>1, <2>2
<1>21. AnnouncedDeletionHappens'
  <2> SUFFICES ASSUME NEW s \in Session, NEW w \in Server, Told(s, "delete", w)
               PROVE  rows[w] = 0 \/ w \in broken \/ \E q \in Request : req'[q].server = w /\ req'[q].at = "delete"
    BY <1>3 DEF AnnouncedDeletionHappens, Told, About
  <2>1. rows[w] = 0 \/ w \in broken \/ \E q \in Request : req[q].server = w /\ req[q].at = "delete"
    BY DEF ServerInv, AnnouncedDeletionHappens, About
  <2> QED
    BY <1>3, <1>8, <2>1, IdleServerReq
<1> QED
  BY <1>9, <1>10, <1>13, <1>15, <1>16, <1>18, <1>19, <1>20, <1>21 DEF ServerInv

(***************************************************************************)
(* ServerList: the user's tabs                                             *)
(***************************************************************************)
LEMMA ListMoves ==
  ASSUME ServerInv, NEW s \in Session, NEW l \in ServerPage,
         list' = [list EXCEPT ![s] = l], told' = [told EXCEPT ![s] = <<>>],
         lost' = [lost EXCEPT ![s] = {}],
         connected' \subseteq Session, \A t \in Session : t # s /\ t \notin connected' => t \notin connected,
         s \notin connected' => l = NoList,
         l.open => /\ l.seen = Len(history)
                   /\ \A e \in l.page : e.server \in Server /\ rows[e.server] # 0 /\ e.row = rows[e.server]
                   /\ \A v \in Server, r \in Request : rows[v] # 0 /\ Announces(req[r], v) => v \in l.early,
         ~l.open => l.page = {},
         UNCHANGED <<rows, account, history, req, silent, crossed, broken>>
  PROVE  ServerInv'
<1>1. /\ list'[s] = l /\ told'[s] = <<>> /\ DOMAIN told'[s] = {} /\ lost'[s] = {}
      /\ \A t \in Session : t # s => list'[t] = list[t] /\ told'[t] = told[t] /\ lost'[t] = lost[t]
  BY DEF ServerInv, ServerTypes
<1>2. /\ Len(history) \in Nat /\ \A v \in Server : v \in Live <=> rows[v] # 0
      /\ \A v : ChangesOf(v) \subseteq DOMAIN history /\ \A n \in DOMAIN history : n \in Nat /\ n <= Len(history)
      /\ \A r \in Request : req[r].no \in 0..Len(history)
  BY ServerFacts DEF ServerInv, ServerReq
<1>3. ServerTypes'
  <2>1. <<>> \in Seq(Event)
    BY EmptySeq
  <2>2. ServerPage' = ServerPage /\ ServerReq' = ServerReq
    BY DEF ServerPage, ServerReq
  <2>3. list' \in [Session -> ServerPage] /\ told' \in [Session -> Seq(Event)] /\ lost' \in [Session -> SUBSET Server]
    BY <2>1 DEF ServerInv, ServerTypes
  <2>4. \A t \in Session \ connected' : list'[t] = NoList /\ told'[t] = <<>> /\ lost'[t] = {}
    BY <1>1 DEF ServerInv, ServerTypes
  <2> QED
    BY <2>2, <2>3, <2>4 DEF ServerInv, ServerTypes
<1>4. RowsCurrent' /\ CrossingsKnown'
  BY AccountStays DEF ServerInv, RowsCurrent, CrossingsKnown, ChangesOf
<1>5. ASSUME NEW x, ServerReqOK(x), x.no \in 0..Len(history) PROVE ServerReqOK(x)'
  <2>1. ASSUME x.kind = "info", x.at = "emit", ~x.reach, x.server \in Live, NEW t \in Session, list'[t].open
        PROVE  x.no <= list'[t].seen /\ (x.alone => \A i \in DOMAIN told'[t] : told'[t][i] \notin EventsOf(x.server))
    <3>1. CASE t = s
      BY <1>1, <1>2, <1>5, <2>1, <3>1
    <3>2. CASE t # s
      BY <1>1, <1>5, <2>1, <3>2 DEF ServerReqOK, NoneIn
    <3> QED
      BY <3>1, <3>2
  <2> QED
    BY <1>5, <2>1 DEF ServerReqOK, ChangesOf, Live, NoneIn, EventsOf
<1>6. \A q \in Request : ServerReqOK(req[q])'
  <2>1. ASSUME NEW q \in Request PROVE ServerReqOK(req[q])'
    <3>1. PICK z : z = req[q] /\ z = req'[q]
      OBVIOUS
    <3>2. ServerReqOK(z)'
      BY <1>2, <1>5, <3>1 DEF ServerInv
    <3> QED
      BY <3>1, <3>2 DEF ServerReqOK
  <2> QED
    BY <2>1
<1>7. ASSUME NEW t \in Session PROVE ServerPageOK(t)'
  <2>1. CASE t = s
    <3>1. ASSUME NEW e \in l.page
          PROVE  /\ e.row \in ChangesOf(e.server) /\ e.row <= l.seen
                 /\ \A n \in ChangesOf(e.server) : n <= l.seen => n <= e.row
      <4>1. l.open /\ e.server \in Server /\ rows[e.server] # 0 /\ e.row = rows[e.server]
        BY <3>1
      <4> QED
        BY <1>2, <4>1 DEF ServerInv, RowsCurrent
    <3> QED
      BY <1>1, <2>1, <3>1 DEF ServerPageOK, ChangesOf
  <2>2. CASE t # s
    BY <1>1, <2>2 DEF ServerInv, ServerPageOK, ChangesOf
  <2> QED
    BY <2>1, <2>2
<1>8. ASSUME NEW t \in Session, NEW w \in Server PROVE LastIsPresent(t, w)' /\ GhostHasCause(t, w)'
  <2>1. LastIsPresent(t, w) /\ GhostHasCause(t, w)
    BY DEF ServerInv
  <2>2. CASE t = s
    <3>1. NoneIn(told[t], EventsOf(w))' /\ \A x : ~LastIn(told[t], EventsOf(w), x)'
      BY <1>1, <2>2 DEF NoneIn, LastIn, EventsOf
    <3>2. LastIsPresent(t, w)'
      BY <3>1 DEF LastIsPresent
    <3>3. ASSUME l.open, rows[w] = 0 PROVE Hidden(t, w)'
      BY <1>1, <2>2, <3>1, <3>3 DEF Hidden, Unlisted
    <3>4. ASSUME l.open, rows[w] # 0, NEW q \in Request, Announces(req[q], w)' PROVE w \in l.early
      <4>1. Announces(req[q], w)
        BY <3>4 DEF Announces
      <4> QED
        BY <3>4, <4>1
    <3>5. GhostHasCause(t, w)'
      BY <1>1, <2>2, <3>3, <3>4 DEF GhostHasCause
    <3> QED
      BY <3>2, <3>5
  <2>3. CASE t # s
    <3>1. \A x : LastIn(told[t], EventsOf(w), x)' <=> LastIn(told[t], EventsOf(w), x)
      BY <1>1, <2>3 DEF LastIn, EventsOf
    <3>2. Hidden(t, w) => Hidden(t, w)'
      BY <1>1, <2>3 DEF Hidden, LastIn, NoneIn, EventsOf, Unlisted
    <3>3. DeletedSilently(w) => DeletedSilently(w)'
      BY DEF DeletedSilently, ChangesOf
    <3>4. \A q \in Request : Announces(req[q], w)' => Announces(req[q], w)
      BY DEF Announces
    <3>5. LastIsPresent(t, w)'
      BY <1>1, <2>1, <2>3, <3>1 DEF LastIsPresent
    <3>6. GhostHasCause(t, w)'
      BY <1>1, <2>1, <2>3, <3>2, <3>3, <3>4, AccountStays DEF GhostHasCause
    <3> QED
      BY <3>5, <3>6
  <2> QED
    BY <2>2, <2>3
<1>9. NoUpdateMissed'
  <2> SUFFICES ASSUME NEW t \in Session, NEW w \in Live, list'[t].open, w \notin lost'[t],
                      NEW n \in ChangesOf(w), history[n].kind = "info"
               PROVE  \/ n <= list'[t].seen \/ n \in silent
                      \/ \E i \in DOMAIN told'[t] : told'[t][i].server = w /\ told'[t][i].row >= n
                      \/ \E q \in Request : req[q].server = w /\ req[q].no = n
    BY DEF NoUpdateMissed, ChangesOf, Live, About
  <2>1. CASE t = s
    BY <1>1, <1>2, <2>1
  <2>2. CASE t # s
    BY <1>1, <2>2 DEF ServerInv, NoUpdateMissed, About
  <2> QED
    BY <2>1, <2>2
<1>10. AnnouncedDeletionHappens'
  <2> SUFFICES ASSUME NEW t \in Session, NEW w \in Server, Told(t, "delete", w)'
               PROVE  rows[w] = 0 \/ w \in broken \/ \E q \in Request : req[q].server = w /\ req[q].at = "delete"
    BY DEF AnnouncedDeletionHappens, About
  <2>1. t # s
    BY <1>1 DEF Told
  <2> QED
    BY <1>1, <2>1 DEF ServerInv, AnnouncedDeletionHappens, Told, About
<1> QED
  BY <1>3, <1>4, <1>6, <1>7, <1>8, <1>9, <1>10 DEF ServerInv

LEMMA TabsKeep ==
  ASSUME ServerInv, NEW s \in Session, Connect(s) \/ Disconnect(s) \/ GetServers(s)
  PROVE  ServerInv'
<1>1. CASE Connect(s)
  <2>1. connected' = connected \cup {s} /\ UNCHANGED <<rows, account, history, req, list, told, lost, silent, crossed, broken>>
    BY <1>1 DEF Connect
  <2>2. ServerTypes' /\ RowsCurrent' /\ CrossingsKnown'
    BY <2>1, AccountStays DEF ServerInv, ServerTypes, RowsCurrent, CrossingsKnown, ChangesOf, ServerReq, ServerPage
  <2>3. \A r \in Request : ServerReqOK(req[r])'
    BY <2>1 DEF ServerInv, ServerReqOK, ChangesOf, Live, NoneIn, EventsOf
  <2>4. \A t \in Session : ServerPageOK(t)'
    BY <2>1 DEF ServerInv, ServerPageOK, ChangesOf
  <2>5. \A t \in Session, w \in Server : LastIsPresent(t, w)'
    BY <2>1 DEF ServerInv, LastIsPresent, LastIn, EventsOf
  <2>6. \A t \in Session, w \in Server : GhostHasCause(t, w)'
    BY <2>1, AccountStays DEF ServerInv, GhostHasCause, Announces, Hidden, DeletedSilently, NoneIn, LastIn, EventsOf, Unlisted, ChangesOf
  <2>7. NoUpdateMissed' /\ AnnouncedDeletionHappens'
    BY <2>1 DEF ServerInv, NoUpdateMissed, AnnouncedDeletionHappens, ChangesOf, Live, About, Told
  <2> QED
    BY <2>2, <2>3, <2>4, <2>5, <2>6, <2>7 DEF ServerInv
<1>2. CASE Disconnect(s)
  <2>1. /\ connected' = connected \ {s} /\ list' = [list EXCEPT ![s] = NoList]
        /\ told' = [told EXCEPT ![s] = <<>>] /\ lost' = [lost EXCEPT ![s] = {}]
        /\ UNCHANGED <<rows, account, history, req, silent, crossed, broken>>
    BY <1>2 DEF Disconnect
  <2>2. NoList \in ServerPage /\ NoList.open = FALSE /\ NoList.page = {}
    BY ServerFacts DEF ServerInv, NoList, ServerPage
  <2>3. connected' \subseteq Session /\ \A t \in Session : t # s /\ t \notin connected' => t \notin connected
    BY <2>1 DEF ServerInv, ServerTypes
  <2> QED
    BY <2>1, <2>2, <2>3, ListMoves
<1>3. CASE GetServers(s)
  <2> DEFINE page == {[server |-> v, row |-> rows[v]] : v \in Live}
             early == {v \in Live : \E r \in About(v) :
                         \/ req[r].at = "delete"
                         \/ req[r].kind = "delete" /\ req[r].at = "emit" /\ ~req[r].reach}
  <2>1. PICK l : l = [page |-> page, seen |-> Len(history), early |-> early, open |-> TRUE]
    OBVIOUS
  <2>2. /\ s \in connected /\ list' = [list EXCEPT ![s] = l] /\ told' = [told EXCEPT ![s] = <<>>]
        /\ lost' = [lost EXCEPT ![s] = {}]
        /\ UNCHANGED <<rows, account, history, req, connected, silent, crossed, broken>>
    BY <1>3, <2>1 DEF GetServers
  <2>3. \A v \in Live : v \in Server /\ rows[v] # 0 /\ rows[v] \in 1..Len(history)
    BY ServerFacts DEF ServerInv, Live, ServerTypes
  <2>4. page \in SUBSET [server : Server, row : 1..Len(history)]
    BY <2>3
  <2>5. \A e \in page : e.server \in Server /\ rows[e.server] # 0 /\ e.row = rows[e.server]
    BY <2>3
  <2>6. early \in SUBSET Server
    BY DEF Live
  <2>7. ASSUME NEW v \in Server, NEW r \in Request, rows[v] # 0, Announces(req[r], v) PROVE v \in early
    BY <2>7 DEF Announces, Live, About
  <2> HIDE DEF page, early
  <2>8. l \in ServerPage /\ l.page = page /\ l.seen = Len(history) /\ l.early = early /\ l.open = TRUE
    BY <2>1, <2>4, <2>6, ServerFacts DEF ServerPage, ServerInv
  <2>9. connected' \subseteq Session /\ \A t \in Session : t # s /\ t \notin connected' => t \notin connected
    BY <2>2 DEF ServerInv, ServerTypes
  <2> QED
    BY <2>2, <2>5, <2>7, <2>8, <2>9, ListMoves
<1> QED
  BY <1>1, <1>2, <1>3

(***************************************************************************)
(* ServerList: EmitToServerMembers                                         *)
(***************************************************************************)
LEMMA ServerEmitKeeps ==
  ASSUME ServerInv, NEW r \in Request, NEW full \in SUBSET connected, Emit(r, full)
  PROVE  ServerInv'
<1>1. PICK x, v, e, y, heard :
        /\ heard = IF x.reach THEN connected \ full ELSE {}
        /\ x = req[r] /\ v = x.server /\ e = [kind |-> x.kind, server |-> x.server, row |-> x.row]
        /\ y = IF x.kind = "delete" THEN [x EXCEPT !.at = "delete"] ELSE Idle
  OBVIOUS
<1>2. /\ x \in ServerReq /\ ServerReqOK(x) /\ x.at = "emit" /\ v \in Server /\ x.row \in 0..Len(history)
      /\ x.kind \in {"info", "delete"} /\ ServerTypes
  BY <1>1, ServerFacts DEF ServerInv, Emit, ServerReq, ServerReqOK, Kind
<1>3. /\ told' = [s \in Session |-> IF s \in heard THEN Tell(told[s], e) ELSE told[s]]
      /\ lost' = [s \in Session |->
           IF x.reach /\ s \in full THEN lost[s] \cup {v}
           ELSE IF s \in heard /\ x.kind = "info" /\ x.alone THEN lost[s] \ {v}
           ELSE lost[s]]
      /\ req' = [req EXCEPT ![r] = y]
      /\ crossed' = IF x.kind = "info" /\ x.alone THEN crossed \ {v} ELSE crossed
      /\ UNCHANGED <<rows, account, history, connected, list, silent, broken>>
  BY <1>1 DEF Emit, Answer
<1>4. e \in Event /\ e.server = v /\ e.kind = x.kind /\ e.row = x.row
  <2>1. MaxChanges \in Nat /\ Len(history) \in Nat /\ Len(history) <= MaxChanges
    BY BoundAssumption, ServerFacts DEF ServerInv, ServerTypes
  <2> QED
    BY <1>1, <1>2, <2>1 DEF Event
<1>5. /\ y \in ServerReq /\ (x.kind = "info" => y = Idle)
      /\ x.kind = "delete" =>
           y.at = "delete" /\ y.kind = "delete" /\ y.server = v /\ y.no = 0 /\ y.alone = x.alone
  <2>1. CASE x.kind = "delete"
    BY <1>1, <1>2, <2>1 DEF ServerReq, ServerReqOK
  <2>2. CASE x.kind # "delete"
    BY <1>1, <1>2, <2>2, IdleIsServerReq
  <2> QED
    BY <2>1, <2>2
<1>6. ServerReqOK(y)
  <2>1. CASE x.kind = "delete"
    BY <1>1, <1>2, <1>5, <2>1 DEF ServerReqOK
  <2>2. CASE x.kind # "delete"
    BY <1>2, <1>5, <2>2, IdleIsServerReq
  <2> QED
    BY <2>1, <2>2
<1>7. /\ req' \in [Request -> ServerReq] /\ req'[r] = y
      /\ \A q \in Request : q # r => req'[q] = req[q]
  BY <1>2, <1>3, <1>5, RequestStaysTyped
(* What is known of the others, of this one, and of the events.            *)
<1>8. \A q \in Request : q # r /\ req[q].at # "idle" /\ req[q].server = v => ~req[q].alone /\ ~x.alone
  BY <1>1, <1>2 DEF ServerInv, CrossingsKnown
<1>9. /\ x.alone => rows[v] # 0 \/ WithAccount(v)
      /\ ~x.alone => v \in crossed
      /\ v \notin crossed' => x.alone
      /\ \A w : w # v => (w \in crossed' <=> w \in crossed)
      /\ crossed' \subseteq crossed
  BY <1>1, <1>2, <1>3 DEF ServerInv, CrossingsKnown
<1>10. ASSUME NEW s \in Session
       PROVE  /\ told[s] \in Seq(Event) /\ told'[s] \in Seq(Event)
              /\ told'[s] = told[s] \/ Gains(told[s], e, told'[s])
              /\ s \in heard => LastIn(told'[s], EventsOf(v), e) /\ Gains(told[s], e, told'[s])
              /\ s \notin heard => told'[s] = told[s]
              /\ \A w : w # v =>
                   /\ \A z : LastIn(told'[s], EventsOf(w), z) <=> LastIn(told[s], EventsOf(w), z)
                   /\ NoneIn(told'[s], EventsOf(w)) <=> NoneIn(told[s], EventsOf(w))
  <2>1. told[s] \in Seq(Event)
    BY <1>2, ServerFacts
  <2>2. e \in EventsOf(v) /\ \A w : w # v => e \notin EventsOf(w)
    BY <1>4 DEF EventsOf
  <2>3. CASE s \in heard
    <3>1. told'[s] = Tell(told[s], e)
      BY <1>3, <2>3
    <3>2. Tell(told[s], e) \in Seq(Event) /\ Gains(told[s], e, Tell(told[s], e))
      BY <1>4, <2>1, TellFacts
    <3>3. LastIn(Tell(told[s], e), EventsOf(v), e)
      BY <1>4, <2>1, <2>2, TellLast
    <3>4. ASSUME NEW w, w # v
          PROVE  /\ \A z : LastIn(Tell(told[s], e), EventsOf(w), z) <=> LastIn(told[s], EventsOf(w), z)
                 /\ NoneIn(Tell(told[s], e), EventsOf(w)) <=> NoneIn(told[s], EventsOf(w))
      BY <1>4, <2>1, <2>2, <3>4, TellKeepsLast
    <3> QED
      BY <2>1, <2>3, <3>1, <3>2, <3>3, <3>4
  <2>4. CASE s \notin heard
    <3>1. told'[s] = told[s]
      BY <1>3, <2>4
    <3> QED
      BY <2>1, <2>4, <3>1
  <2> QED
    BY <2>3, <2>4
<1>11. /\ \A s \in Session : list'[s] = list[s] /\ (list[s].open => s \in connected)
       /\ \A s \in Session : list[s].open /\ v \notin lost'[s] => s \in heard \/ (~x.reach /\ v \notin lost[s])
       /\ \A s \in Session, w \in Server : w # v => (w \in lost'[s] <=> w \in lost[s])
       /\ \A s \in Session : v \notin lost'[s] /\ v \in lost[s] => s \in heard /\ x.kind = "info" /\ x.alone
       /\ \A s \in heard : x.reach
  <2>1. \A s \in Session : list'[s] = list[s] /\ (list[s].open => s \in connected)
    BY <1>2, <1>3, ServerFacts
  <2>2. ASSUME NEW s \in Session
        PROVE  lost'[s] = IF x.reach /\ s \in full THEN lost[s] \cup {v}
                          ELSE IF s \in heard /\ x.kind = "info" /\ x.alone THEN lost[s] \ {v}
                          ELSE lost[s]
    BY <1>3
  <2>3. \A s : s \in heard <=> x.reach /\ s \in connected /\ s \notin full
    BY <1>1
  <2> QED
    BY <2>1, <2>2, <2>3
<1>12. ServerTypes'
  <2>1. ServerReq' = ServerReq /\ ServerPage' = ServerPage
    BY <1>3 DEF ServerReq, ServerPage
  <2>2. told' \in [Session -> Seq(Event)]
    <3>1. told' = [s \in Session |-> told'[s]]
      BY <1>3
    <3> QED
      BY <1>10, <3>1
  <2>3. \A s \in Session \ connected : list[s] = NoList /\ told'[s] = <<>> /\ lost'[s] = {}
    BY <1>1, <1>2, <1>3, <1>10 DEF ServerTypes
  <2>4. crossed' \cup broken \subseteq Server
    BY <1>2, <1>9 DEF ServerTypes
  <2>5. lost' \in [Session -> SUBSET Server]
    BY <1>2, <1>3 DEF ServerTypes
  <2> QED
    BY <1>2, <1>3, <1>7, <2>1, <2>2, <2>3, <2>4, <2>5 DEF ServerTypes
<1>13. RowsCurrent'
  BY <1>3 DEF ServerInv, RowsCurrent, ChangesOf
<1>14. \A q \in Request : req'[q].at # "idle" =>
         req[q].at # "idle" /\ req'[q].server = req[q].server /\ req'[q].alone = req[q].alone
  BY <1>1, <1>2, <1>5, <1>7, IdleServerReq
<1>15. CrossingsKnown'
  <2>1. ASSUME NEW q \in Request, req'[q].at # "idle", ~req'[q].alone PROVE req'[q].server \in crossed'
    <3>1. req[q].server \in crossed
      BY <1>14, <2>1 DEF ServerInv, CrossingsKnown
    <3>2. CASE req[q].server # v
      BY <1>9, <1>14, <2>1, <3>1, <3>2
    <3>3. CASE req[q].server = v
      <4>1. ~x.alone
        BY <1>1, <1>8, <1>14, <2>1, <3>3
      <4> QED
        BY <1>3, <1>14, <2>1, <3>1, <4>1
    <3> QED
      BY <3>2, <3>3
  <2>2. ASSUME NEW q \in Request, NEW t \in Request, q # t, req'[q].at # "idle", req'[q].server = req'[t].server
        PROVE  ~req'[t].alone
    <3>1. req'[t].server \in Server
      BY <1>14, <2>2, BusyRequests
    <3>2. req'[t].at # "idle"
      <4>1. ServerReqOK(req'[t])
        BY <1>6, <1>7 DEF ServerInv
      <4> QED
        BY <3>1, <4>1, IdleServerReq, NoServerAssumption DEF ServerReqOK
    <3> QED
      BY <1>14, <2>2, <3>2 DEF ServerInv, CrossingsKnown
  <2>3. ASSUME NEW q \in Request, NEW w \in Server, req'[q].server = w, rows'[w] = 0, ~WithAccount(w)'
        PROVE  ~req'[q].alone
    <3>1. req'[q].at # "idle"
      <4>1. ServerReqOK(req'[q])
        BY <1>6, <1>7 DEF ServerInv
      <4> QED
        BY <2>3, <4>1, IdleServerReq, NoServerAssumption DEF ServerReqOK
    <3>2. rows[w] = 0 /\ ~WithAccount(w)
      BY <1>3, <2>3, AccountStays
    <3> QED
      BY <1>14, <2>3, <3>1, <3>2 DEF ServerInv, CrossingsKnown
  <2> QED
    BY <2>1, <2>2, <2>3 DEF CrossingsKnown
<1>16. ASSUME NEW z, ServerReqOK(z), z.kind = "delete" \/ z.at # "emit" \/ z.server # v \/ ~z.alone
       PROVE  ServerReqOK(z)'
  <2>1. ASSUME z.kind = "info", z.at = "emit", ~z.reach, z.server \in Live, NEW s \in Session, list[s].open
        PROVE  z.no <= list[s].seen /\ (z.alone => NoneIn(told'[s], EventsOf(z.server)))
    BY <1>10, <1>16, <2>1 DEF ServerReqOK
  <2>2. ASSUME NEW s \in Session PROVE NoneIn(told[s], EventsOf(z.server))' <=> NoneIn(told'[s], EventsOf(z.server))
    BY DEF NoneIn, EventsOf
  <2> QED
    BY <1>3, <1>16, <2>1, <2>2 DEF ServerReqOK, ChangesOf, Live
<1>17. \A q \in Request : ServerReqOK(req[q])'
  <2>1. ASSUME NEW q \in Request PROVE ServerReqOK(req[q])'
    <3>1. PICK z : z = req'[q]
      OBVIOUS
    <3>2. ServerReqOK(z)
      BY <1>6, <1>7, <3>1 DEF ServerInv
    <3>3. z.kind = "delete" \/ z.at # "emit" \/ z.server # v \/ ~z.alone
      BY <1>2, <1>5, <1>7, <1>8, <3>1, IdleServerReq
    <3>4. ServerReqOK(z)'
      BY <1>16, <3>2, <3>3
    <3> QED
      BY <3>1, <3>4 DEF ServerReqOK
  <2> QED
    BY <2>1
<1>18. ASSUME NEW s \in Session PROVE ServerPageOK(s)'
  <2>1. ServerPageOK(s) /\ ChangesOf(v) # {}
    BY <1>1, <1>2 DEF ServerInv, ServerReqOK
  <2>2. ASSUME NEW k \in DOMAIN told'[s] PROVE ChangesOf(told'[s][k].server) # {}
    <3>1. told'[s][k] = e \/ \E i \in DOMAIN told[s] : told'[s][k] = told[s][i]
      BY <1>10 DEF Gains
    <3>2. CASE told'[s][k] = e
      BY <1>4, <2>1, <3>2
    <3>3. CASE told'[s][k] # e
      BY <2>1, <3>1, <3>3 DEF ServerPageOK
    <3> QED
      BY <3>2, <3>3
  <2> QED
    BY <1>3, <2>1, <2>2 DEF ServerPageOK, ChangesOf
<1>19. \A q \in Request, w \in Server : rows[w] # 0 /\ req[q].no = rows[w] /\ (q # r \/ w # v \/ x.kind = "delete") => req'[q].no = rows[w]
  <2>1. ASSUME NEW w \in Server, rows[w] # 0, x.no = rows[w] PROVE w = v /\ x.kind = "info"
    <3>1. rows[w] \in ChangesOf(w)
      BY <2>1 DEF ServerInv, RowsCurrent
    <3> QED
      BY <1>1, <1>2, <2>1, <3>1, BusyRequests DEF ServerReqOK
  <2> QED
    BY <1>1, <1>2, <1>7, <2>1
<1>20. ASSUME NEW s \in Session, NEW w \in Server PROVE LastIsPresent(s, w)'
  <2>1. LastIsPresent(s, w)
    BY DEF ServerInv
  <2>2. \A z : LastIn(told[s], EventsOf(w), z)' <=> LastIn(told'[s], EventsOf(w), z)
    BY DEF LastIn, EventsOf
  <2>3. CASE w # v
    <3>1. \A z : LastIn(told'[s], EventsOf(w), z) => LastIn(told[s], EventsOf(w), z)
      BY <1>10, <2>3
    <3> QED
      BY <1>3, <1>9, <1>11, <1>19, <2>1, <2>2, <2>3, <3>1 DEF LastIsPresent
  <2>4. CASE w = v
    <3> SUFFICES ASSUME list[s].open, rows[v] # 0, v \notin crossed', v \notin lost'[s], NEW z, LastIn(told'[s], EventsOf(v), z), z.kind = "info"
                 PROVE  z.row = rows[v] \/ rows[v] \in silent \/ \E q \in Request : req'[q].no = rows[v]
      BY <1>3, <2>2, <2>4 DEF LastIsPresent
    <3>1. x.alone /\ (s \in heard \/ (~x.reach /\ v \notin lost[s])) /\ v \in Live
      BY <1>2, <1>9, <1>11, ServerFacts
    <3>2. CASE s \in heard
      <4>1. z = e
        BY <1>10, <3>1, <3>2, OneIsLast
      <4>2. x.kind = "info"
        BY <1>4, <4>1
      <4>3. x.row = rows[v]
        BY <1>1, <1>2, <3>1, <4>2 DEF ServerReqOK
      <4> QED
        BY <1>4, <4>1, <4>3
    <3>3. CASE s \notin heard
      <4>1. told'[s] = told[s] /\ ~x.reach /\ v \notin lost[s]
        BY <1>10, <3>1, <3>3
      <4>2. CASE x.kind = "info"
        <5>1. NoneIn(told[s], EventsOf(v))
          BY <1>1, <1>2, <3>1, <4>1, <4>2 DEF ServerReqOK
        <5> QED
          BY <4>1, <5>1 DEF LastIn, NoneIn
      <4>3. CASE x.kind = "delete"
        BY <1>3, <1>19, <2>1, <2>4, <4>1, <4>3 DEF LastIsPresent
      <4> QED
        BY <1>2, <4>2, <4>3
    <3> QED
      BY <3>2, <3>3
  <2> QED
    BY <2>3, <2>4
<1>21. ASSUME NEW s \in Session, NEW w \in Server PROVE GhostHasCause(s, w)'
  <2>1. GhostHasCause(s, w)
    BY DEF ServerInv
  <2>2. Hidden(s, w)' <=> \/ NoneIn(told'[s], EventsOf(w)) /\ Unlisted(s, w)
                          \/ \E z : LastIn(told'[s], EventsOf(w), z) /\ z.kind = "delete"
    BY <1>3 DEF Hidden, NoneIn, LastIn, EventsOf, Unlisted
  <2>3. DeletedSilently(w) => DeletedSilently(w)'
    BY <1>3 DEF DeletedSilently, ChangesOf
  <2>4. \A q \in Request : Announces(req[q], w)' <=> Announces(req'[q], w)
    BY DEF Announces
  <2>5. CASE w # v
    <3>1. \A q \in Request : Announces(req'[q], w) => Announces(req[q], w)
      BY <1>5, <1>7, <1>2, <2>5, IdleServerReq DEF Announces
    <3>2. Hidden(s, w) => Hidden(s, w)'
      BY <1>10, <2>2, <2>5 DEF Hidden
    <3> QED
      BY <1>3, <1>9, <1>11, <2>1, <2>3, <2>4, <2>5, <3>1, <3>2, AccountStays DEF GhostHasCause
  <2>6. CASE w = v
    <3> SUFFICES ASSUME list[s].open, v \notin crossed', v \notin lost'[s], ~WithAccount(v),
                        rows[v] = 0 \/ \E q \in Request : Announces(req'[q], v)
                 PROVE  Hidden(s, v)' \/ v \in list[s].early \/ DeletedSilently(v)'
      BY <1>3, <2>4, <2>6, AccountStays DEF GhostHasCause
    <3>1. x.alone /\ (s \in heard \/ (~x.reach /\ v \notin lost[s])) /\ rows[v] # 0
      BY <1>9, <1>11
    <3>2. PICK q \in Request : Announces(req'[q], v)
      BY <3>1
    <3>3. q = r
      BY <1>7, <1>8, <3>1, <3>2 DEF Announces
    <3>4. x.kind = "delete"
      BY <1>2, <1>5, <1>7, <3>2, <3>3, IdleServerReq DEF Announces
    <3>5. CASE s \in heard
      BY <1>4, <1>10, <2>2, <2>6, <3>1, <3>4, <3>5
    <3>6. CASE s \notin heard
      <4>1. Announces(req[r], v) /\ v \notin crossed /\ v \notin lost[s]
        BY <1>1, <1>2, <1>3, <3>1, <3>4, <3>6 DEF Announces
      <4>2. Hidden(s, v) \/ v \in list[s].early \/ DeletedSilently(v)
        BY <2>1, <2>6, <4>1 DEF GhostHasCause
      <4>3. told'[s] = told[s]
        BY <1>10, <3>6
      <4>4. Hidden(s, v) => Hidden(s, v)'
        BY <2>2, <2>6, <4>3 DEF Hidden
      <4> QED
        BY <2>3, <2>6, <4>2, <4>4
    <3> QED
      BY <3>5, <3>6
  <2> QED
    BY <2>5, <2>6
<1>22. NoUpdateMissed'
  <2> SUFFICES ASSUME NEW s \in Session, NEW w \in Live, list[s].open, w \notin lost'[s],
                      NEW n \in ChangesOf(w), history[n].kind = "info"
               PROVE  \/ n <= list[s].seen \/ n \in silent
                      \/ \E i \in DOMAIN told'[s] : told'[s][i].server = w /\ told'[s][i].row >= n
                      \/ \E q \in Request : req'[q].server = w /\ req'[q].no = n
    BY <1>3 DEF NoUpdateMissed, ChangesOf, Live, About
  <2>1. CASE w \in lost[s]
    <3>1. w = v /\ s \in heard /\ x.kind = "info" /\ x.alone
      BY <1>11, <2>1 DEF Live
    <3>2. x.row = rows[v] /\ n <= x.row
      BY <1>1, <1>2, <3>1, ServerFacts DEF ServerInv, ServerReqOK, RowsCurrent
    <3>3. PICK k \in DOMAIN told'[s] : told'[s][k] = e
      BY <1>10, <3>1 DEF Gains
    <3> QED
      BY <1>4, <3>1, <3>2, <3>3
  <2>2. CASE w \notin lost[s]
    <3>1. \/ n <= list[s].seen \/ n \in silent
          \/ \E i \in DOMAIN told[s] : told[s][i].server = w /\ told[s][i].row >= n
          \/ \E q \in Request : req[q].server = w /\ req[q].no = n
      BY <2>2 DEF ServerInv, NoUpdateMissed, About
    <3>2. (\E i \in DOMAIN told[s] : told[s][i].server = w /\ told[s][i].row >= n)
            => \E i \in DOMAIN told'[s] : told'[s][i].server = w /\ told'[s][i].row >= n
      BY <1>10 DEF Gains
    <3>3. ASSUME x.server = w, x.no = n
          PROVE  n <= list[s].seen \/ \E i \in DOMAIN told'[s] : told'[s][i].server = w /\ told'[s][i].row >= n
      <4>1. n # 0 /\ n \in Nat /\ x.row \in Nat
        BY <1>1, <1>2, ServerFacts
      <4>2. x.kind = "info" /\ x.no <= x.row
        BY <1>2, <3>3, <4>1 DEF ServerReqOK
      <4>3. CASE s \in heard
        <5>1. PICK k \in DOMAIN told'[s] : told'[s][k] = e
          BY <1>10, <4>3 DEF Gains
        <5> QED
          BY <1>1, <1>4, <3>3, <4>1, <4>2, <5>1
      <4>4. CASE s \notin heard
        <5>1. ~x.reach
          BY <1>1, <1>11, <3>3, <4>4
        <5> QED
          BY <1>2, <3>3, <4>2, <5>1 DEF ServerReqOK
      <4> QED
        BY <4>3, <4>4
    <3> QED
      BY <1>1, <1>7, <3>1, <3>2, <3>3
  <2> QED
    BY <2>1, <2>2
<1>23. AnnouncedDeletionHappens'
  <2> SUFFICES ASSUME NEW s \in Session, NEW w \in Server, NEW k \in DOMAIN told'[s],
                      told'[s][k].kind = "delete", told'[s][k].server = w
               PROVE  rows[w] = 0 \/ w \in broken \/ \E q \in Request : req'[q].server = w /\ req'[q].at = "delete"
    BY <1>3 DEF AnnouncedDeletionHappens, Told, About
  <2>1. CASE told'[s][k] = e
    BY <1>4, <1>5, <1>7, <2>1
  <2>2. CASE told'[s][k] # e
    <3>1. Told(s, "delete", w)
      BY <1>10, <2>2 DEF Told, Gains
    <3>2. rows[w] = 0 \/ w \in broken \/ \E q \in Request : req[q].server = w /\ req[q].at = "delete"
      BY <3>1 DEF ServerInv, AnnouncedDeletionHappens, About
    <3> QED
      BY <1>1, <1>2, <1>7, <3>2
  <2> QED
    BY <2>1, <2>2
<1> QED
  BY <1>12, <1>13, <1>15, <1>17, <1>18, <1>20, <1>21, <1>22, <1>23 DEF ServerInv

LEMMA ServerInit == ASSUME Init PROVE ServerInv
<1>1. history = <<>> /\ DOMAIN history = {} /\ Len(history) = 0 /\ <<>> \in Seq(Change)
      /\ <<>> \in Seq(Event) /\ 0 <= MaxChanges
  BY EmptySeq, BoundAssumption DEF Init
<1>2. Idle \in ServerReq /\ NoList \in ServerPage /\ NoList.page = {} /\ NoList.open = FALSE
  BY <1>1 DEF Idle, ServerReq, Kind, NoList, ServerPage
<1>3. ServerTypes
  BY <1>1, <1>2 DEF Init, ServerTypes
<1>4. RowsCurrent /\ CrossingsKnown
  BY IdleServerReq, NoServerAssumption DEF Init, RowsCurrent, CrossingsKnown
<1>5. \A r \in Request : ServerReqOK(req[r])
  BY <1>3, IdleIsServerReq DEF Init
<1>6. \A s \in Session : list[s] = NoList /\ DOMAIN told[s] = {}
  BY DEF Init
<1>7. \A s \in Session : ServerPageOK(s)
  BY <1>2, <1>6 DEF ServerPageOK
<1>8. \A s \in Session, v \in Server : LastIsPresent(s, v) /\ GhostHasCause(s, v)
  BY <1>2, <1>6 DEF LastIsPresent, GhostHasCause
<1>9. NoUpdateMissed /\ AnnouncedDeletionHappens
  BY <1>2, <1>6 DEF NoUpdateMissed, AnnouncedDeletionHappens, Told
<1> QED
  BY <1>3, <1>4, <1>5, <1>7, <1>8, <1>9 DEF ServerInv

LEMMA ServerNext == ASSUME ServerInv, [Next]_vars PROVE ServerInv'
<1>1. CASE Next
  BY <1>1, TabsKeep, CreateServerKeeps, OwnerRequestKeeps, UpdateServerKeeps, ReadServerKeeps,
     GetMemberIdsKeeps, MembersFailKeeps, ServerEmitKeeps, DeleteServerKeeps, DeleteAccountKeeps,
     ServerFailKeeps DEF Next
<1>2. CASE UNCHANGED vars
  <2>1. UNCHANGED <<rows, account, history, req, connected, list, told, lost, silent, crossed, broken>>
    BY <1>2 DEF vars
  <2>2. ServerTypes' /\ RowsCurrent' /\ CrossingsKnown'
    BY <2>1, AccountStays DEF ServerInv, ServerTypes, RowsCurrent, CrossingsKnown, ChangesOf, ServerReq, ServerPage
  <2>3. \A r \in Request : ServerReqOK(req[r])'
    BY <2>1 DEF ServerInv, ServerReqOK, ChangesOf, Live, NoneIn, EventsOf
  <2>4. \A t \in Session : ServerPageOK(t)'
    BY <2>1 DEF ServerInv, ServerPageOK, ChangesOf
  <2>5. \A t \in Session, w \in Server : LastIsPresent(t, w)'
    BY <2>1 DEF ServerInv, LastIsPresent, LastIn, EventsOf
  <2>6. \A t \in Session, w \in Server : GhostHasCause(t, w)'
    BY <2>1, AccountStays DEF ServerInv, GhostHasCause, Announces, Hidden, DeletedSilently, NoneIn, LastIn, EventsOf, Unlisted, ChangesOf
  <2>7. NoUpdateMissed' /\ AnnouncedDeletionHappens'
    BY <2>1 DEF ServerInv, NoUpdateMissed, AnnouncedDeletionHappens, ChangesOf, Live, About, Told
  <2> QED
    BY <2>2, <2>3, <2>4, <2>5, <2>6, <2>7 DEF ServerInv
<1> QED
  BY <1>1, <1>2

(***************************************************************************)
(* ServerList: the properties                                              *)
(***************************************************************************)
LEMMA ServerViews ==
  ASSUME ServerTypes, NEW s \in Session, NEW v \in Server
  PROVE  /\ \A x : LastIn(told[s], EventsOf(v), x) => View(s, v) = IF x.kind = "info" THEN x.row ELSE 0
         /\ NoneIn(told[s], EventsOf(v)) =>
              \/ Unlisted(s, v) /\ View(s, v) = 0
              \/ \E e \in list[s].page : e.server = v /\ View(s, v) = e.row
<1>1. PICK T : T = told[s] /\ T \in Seq(Event)
  BY ServerFacts
<1>2. Len(T) \in Nat /\ DOMAIN T = 1..Len(T) /\ \A i \in DOMAIN T : T[i] \in Event
  BY <1>1, LenProperties, ElementOfSeq
<1>3. \A i \in DOMAIN T : T[i] \in EventsOf(v) <=> T[i].server = v
  BY <1>2 DEF EventsOf
<1> DEFINE about == {i \in DOMAIN T : T[i].server = v}
           at == CHOOSE i \in about : \A j \in about : j <= i
<1>4. View(s, v) = IF about # {} THEN (IF T[at].kind = "info" THEN T[at].row ELSE 0)
                   ELSE IF \E e \in list[s].page : e.server = v
                        THEN (CHOOSE e \in list[s].page : e.server = v).row
                        ELSE 0
  BY <1>1 DEF View
<1>5. ASSUME NEW x, LastIn(T, EventsOf(v), x)
      PROVE  View(s, v) = IF x.kind = "info" THEN x.row ELSE 0
  <2>1. PICK i \in DOMAIN T : x \in EventsOf(v) /\ T[i] = x /\ \A j \in DOMAIN T : T[j] \in EventsOf(v) => j <= i
    BY <1>5 DEF LastIn
  <2>2. i \in about /\ \A j \in about : j <= i
    BY <1>3, <2>1
  <2>3. at \in about /\ \A j \in about : j <= at
    BY <2>2
  <2>4. i <= at /\ at <= i /\ i \in Nat /\ at \in Nat
    BY <1>2, <2>2, <2>3
  <2>5. at = i
    BY <2>4
  <2> QED
    BY <1>4, <2>1, <2>2, <2>5
<1>6. ASSUME NoneIn(T, EventsOf(v))
      PROVE  \/ Unlisted(s, v) /\ View(s, v) = 0
             \/ \E e \in list[s].page : e.server = v /\ View(s, v) = e.row
  <2>1. about = {}
    BY <1>3, <1>6 DEF NoneIn
  <2> QED
    BY <1>4, <2>1 DEF Unlisted
<1> QED
  BY <1>1, <1>5, <1>6

LEMMA ServerInvSuffices ==
  ASSUME ServerInv
  PROVE  TypeOK /\ NoGhostServer /\ ListConverges
<1>1. TypeOK
  BY DEF ServerInv, ServerTypes, TypeOK, ServerReq, ServerPage
<1>2. ServerTypes
  BY DEF ServerInv
<1>3. ASSUME NEW s \in Session, NEW v \in Server, Hidden(s, v) PROVE View(s, v) = 0
  <2>1. CASE NoneIn(told[s], EventsOf(v)) /\ Unlisted(s, v)
    BY <1>2, <2>1, ServerViews DEF Unlisted
  <2>2. CASE \E x : LastIn(told[s], EventsOf(v), x) /\ x.kind = "delete"
    <3>1. PICK x : LastIn(told[s], EventsOf(v), x) /\ x.kind = "delete"
      BY <2>2
    <3> QED
      BY <1>2, <3>1, ServerViews
  <2> QED
    BY <1>3, <2>1, <2>2 DEF Hidden
<1>4. NoGhostServer
  <2> SUFFICES ASSUME NEW s \in Session, NEW v \in Server, list[s].open, rows[v] = 0, View(s, v) # 0, v \notin crossed,
                      v \notin lost[s], ~WithAccount(v)
               PROVE  v \in list[s].early \/ \E n \in ChangesOf(v) \cap silent : history[n].kind = "delete"
    BY DEF NoGhostServer, Settled
  <2>1. GhostHasCause(s, v) /\ ~Hidden(s, v)
    BY <1>3 DEF ServerInv
  <2> QED
    BY <2>1 DEF GhostHasCause, DeletedSilently
<1>5. ListConverges
  <2> SUFFICES ASSUME NEW s \in Session, NEW v \in Live, list[s].open, Settled(v), v \notin lost[s],
                      rows[v] \notin silent, View(s, v) # 0
               PROVE  View(s, v) = rows[v]
    BY DEF ListConverges
  <2>1. PICK n : n = rows[v]
    OBVIOUS
  <2>2. /\ v \in Server /\ v \notin crossed /\ n # 0 /\ n \in Nat /\ n \in ChangesOf(v) /\ n \notin silent
        /\ history[n].kind # "delete" /\ history[n].kind \in Kind
        /\ \A k \in ChangesOf(v) : k <= n
        /\ history[n].kind = "create" => \A k \in ChangesOf(v) : n <= k
    BY <1>2, <2>1, ServerFacts DEF ServerInv, RowsCurrent, Settled, Live, Change
  <2>3. \A r \in Request : req[r].no # n /\ req[r].server # v
    BY <2>2, BusyRequests DEF Settled, About
  <2>4. CASE NoneIn(told[s], EventsOf(v))
    <3>1. PICK e \in list[s].page : e.server = v /\ View(s, v) = e.row
      BY <1>2, <2>2, <2>4, ServerViews
    <3>2. /\ e.row \in ChangesOf(v) /\ e.row <= list[s].seen
          /\ n <= list[s].seen => n <= e.row
      BY <2>2, <3>1 DEF ServerInv, ServerPageOK
    <3>3. e.row \in Nat /\ list[s].seen \in Nat /\ e.row <= n
      BY <1>2, <2>2, <3>2, ServerFacts
    <3>4. CASE n <= list[s].seen
      BY <2>1, <2>2, <3>1, <3>2, <3>3, <3>4
    <3>5. CASE ~(n <= list[s].seen)
      <4>1. history[n].kind # "create"
        BY <2>2, <3>2, <3>3, <3>5
      <4>2. history[n].kind = "info"
        BY <2>2, <4>1 DEF Kind
      <4>3. \/ n <= list[s].seen \/ n \in silent
            \/ \E i \in DOMAIN told[s] : told[s][i].server = v
            \/ \E r \in Request : req[r].server = v
        BY <2>2, <4>2 DEF ServerInv, NoUpdateMissed, About
      <4>4. PICK i \in DOMAIN told[s] : told[s][i].server = v
        BY <2>2, <2>3, <3>5, <4>3
      <4>5. told[s][i] \in Event
        BY <1>2, ServerFacts, ElementOfSeq, LenProperties
      <4> QED
        BY <2>4, <4>4, <4>5 DEF NoneIn, EventsOf
    <3> QED
      BY <3>4, <3>5
  <2>5. CASE ~NoneIn(told[s], EventsOf(v))
    <3>1. told[s] \in Seq(Event)
      BY <1>2, ServerFacts
    <3>2. PICK x : LastIn(told[s], EventsOf(v), x)
      BY <2>5, <3>1, OneIsLast
    <3>3. View(s, v) = IF x.kind = "info" THEN x.row ELSE 0
      BY <1>2, <2>2, <3>2, ServerViews
    <3>4. LastIsPresent(s, v)
      BY <2>2 DEF ServerInv
    <3> QED
      BY <2>1, <2>2, <2>3, <3>2, <3>3, <3>4 DEF LastIsPresent
  <2> QED
    BY <2>4, <2>5
<1> QED
  BY <1>1, <1>4, <1>5

(***************************************************************************)
(* ChannelList: the inductive invariant                                    *)
(***************************************************************************)
ChannelReq ==
  [at : {"idle", "read", "emit", "subscribe", "answer"}, server : Home \cup {NoServer},
   channel : Channel \cup {NoChannel}, no : 0..Len(channelHistory), row : 0..Len(channelHistory),
   session : Tab \cup {NoTab}, page : Channels!Page, seen : 0..Len(channelHistory),
   gap : SUBSET Channel, alone : BOOLEAN]

OpenList ==
  [server : Home \cup {NoServer}, page : Channels!Page, seen : 0..Len(channelHistory),
   gap : SUBSET Channel, alone : BOOLEAN]

(* The changes to channel c that made the row it has, or had when its      *)
(* server went: the last one, but for a deletion.                          *)
LastMade(c) ==
  {n \in Channels!ChangesOf(c) :
     channelHistory[n].kind # "delete" /\ \A m \in Channels!ChangesOf(c) : m <= n}

RowOf(made) == IF made = {} THEN 0 ELSE CHOOSE n \in made : TRUE

(* The rows as the history has them, which knows nothing of cascades.      *)
LastRows == [c \in Channel |-> RowOf(LastMade(c))]

TableTypes ==
  /\ channelRows \in [Channel -> 0..Len(channelHistory)]
  /\ LastRows \in [Channel -> 0..Len(channelHistory)] /\ servers \subseteq Home
  /\ channelHistory \in Seq(Channels!Change) /\ Len(channelHistory) <= MaxChannelChanges
  /\ channelReq \in [Request -> ChannelReq]
  /\ channelSilent \subseteq DOMAIN channelHistory /\ channelCrossed \subseteq Channel

TabTypes ==
  /\ room \in [Tab -> Home \cup {NoServer}]
  /\ opened \in [Tab -> OpenList]
  /\ channelTold \in [Tab -> Seq(Channels!Event)] /\ channelLost \in [Tab -> SUBSET Channel]

(* A channel stays in its server, and its row is that of its last change.  *)
ChannelsCurrent ==
  \A c \in Channel :
    /\ \A n, m \in Channels!ChangesOf(c) : channelHistory[n].server = channelHistory[m].server
    /\ LastRows[c] # 0 =>
         LastRows[c] \in Channels!ChangesOf(c) /\ \A n \in Channels!ChangesOf(c) : n <= LastRows[c]

MadeIn(c, v) == \E n \in Channels!ChangesOf(c) : channelHistory[n].server = v

(* The rows of the channels whose server is there, and no others.          *)
RowsRemain ==
  \A c \in Channel :
    channelRows[c] = IF \E v \in servers : MadeIn(c, v) THEN LastRows[c] ELSE 0

Pending(c, n) == \E r \in Request : channelReq[r].channel = c /\ channelReq[r].no = n
EventsFor(c) == {e \in Channels!Event : e.channel = c}

(* A request by itself: it is about a channel or for a session.            *)
ChannelReqOK(x) ==
  /\ x.at = "idle" => x = Channels!Idle
  /\ x.at \in {"read", "emit"} =>
       /\ x.channel \in Channel /\ x.session = NoTab /\ MadeIn(x.channel, x.server)
       /\ x.no # 0 => x.no \in Channels!ChangesOf(x.channel)
  /\ x.at \in {"subscribe", "answer"} => x.session \in Tab /\ x.channel = NoChannel /\ x.no = 0
  /\ x.at = "emit" =>
       /\ x.row = 0 \/ x.no <= x.row
       /\ x.alone => x.row = LastRows[x.channel]

(* Requests that overlap know it, and so does the channel.                 *)
ChannelCrossings ==
  /\ \A q \in Request :
       channelReq[q].channel \in Channel /\ ~channelReq[q].alone => channelReq[q].channel \in channelCrossed
  /\ \A q, r \in Request :
       q # r /\ channelReq[q].channel \in Channel /\ channelReq[q].channel = channelReq[r].channel
         => ~channelReq[q].alone
  /\ \A q, r \in Request :
       q # r /\ channelReq[q].session \in Tab /\ channelReq[q].session = channelReq[r].session
         => ~channelReq[q].alone

(* List p, with the events T after it, has heard of all changes but those  *)
(* to the channels in L.                                                   *)
Heard(p, T, L) ==
  \A c \in Channel : MadeIn(c, p.server) => \A n \in Channels!ChangesOf(c) :
    \/ n <= p.seen \/ n \in channelSilent \/ c \in p.gap \/ c \in L
    \/ \E i \in DOMAIN T : T[i].channel = c /\ (T[i].row >= n \/ T[i].row = 0)
    \/ Pending(c, n)

(* A list shows the present rows of the channels that have not changed     *)
(* since it was read.                                                      *)
ListIsPresent(p) ==
  /\ p.seen \in 0..Len(channelHistory)
  /\ \A c \in Channel :
       MadeIn(c, p.server) /\ (\A n \in Channels!ChangesOf(c) : n <= p.seen) =>
         {e \in p.page : e.channel = c} =
           IF LastRows[c] = 0 THEN {} ELSE {[channel |-> c, row |-> LastRows[c]]}

(* The last event about a channel tells its row, if no requests crossed.   *)
LastTells(T, c) ==
  c \notin channelCrossed =>
    \A x \in Channels!Event : LastIn(T, EventsFor(c), x) =>
      \/ x.row = LastRows[c]
      \/ \E n \in Channels!ChangesOf(c) : n \in channelSilent \/ Pending(c, n)

(* With the server of a list go its channels, and nobody is told.          *)
Gathered(p) == p.server \in servers => Heard(p, <<>>, {}) /\ ListIsPresent(p)

Adds(p, T, L) ==
  /\ ListIsPresent(p) /\ Heard(p, T, L)
  /\ \A c \in Channel : MadeIn(c, p.server) /\ c \notin L => LastTells(T, c)

Follows(s, p) ==
  /\ room[s] = p.server
  /\ p.server \in servers => \A T \in {channelTold[s]}, L \in {channelLost[s]} : Adds(p, T, L)

(* What holds of the list a session shows holds of the one it will be      *)
(* answered, too.                                                          *)
ListsFollow ==
  /\ \A s \in Tab : \A p \in {opened[s]} : p.server # NoServer /\ p.alone => Follows(s, p)
  /\ \A q \in Request : \A p \in {channelReq[q]} :
       /\ p.at = "subscribe" => Gathered(p)
       /\ p.at = "answer" /\ p.alone => Follows(p.session, p)

ChannelInv ==
  /\ TableTypes /\ TabTypes /\ ChannelsCurrent /\ RowsRemain /\ ChannelCrossings
  /\ \A q \in Request : \A x \in {channelReq[q]} : ChannelReqOK(x)
  /\ ListsFollow

(***************************************************************************)
(* ChannelList: lemmas                                                     *)
(***************************************************************************)
LEMMA ChannelFacts ==
  ASSUME TableTypes
  PROVE  /\ Len(channelHistory) \in Nat /\ DOMAIN channelHistory = 1..Len(channelHistory)
         /\ \A n \in DOMAIN channelHistory : n \in Nat /\ n # 0 /\ channelHistory[n] \in Channels!Change
         /\ \A c \in Channel : LastRows[c] \in Nat /\ (c \in Channels!Live <=> channelRows[c] # 0)
         /\ \A c : /\ Channels!ChangesOf(c) \subseteq DOMAIN channelHistory
                   /\ \A n \in Channels!ChangesOf(c) : channelHistory[n].channel = c
         /\ \A q \in Request : channelReq[q] \in ChannelReq
<1>1. /\ Len(channelHistory) \in Nat /\ DOMAIN channelHistory = 1..Len(channelHistory)
      /\ \A n \in DOMAIN channelHistory : channelHistory[n] \in Channels!Change
  BY LenProperties, ElementOfSeq DEF TableTypes
<1>2. \A c \in Channel : LastRows[c] \in 0..Len(channelHistory)
  BY DEF TableTypes
<1>3. \A q \in Request : channelReq[q] \in ChannelReq
  BY DEF TableTypes
<1> QED
  BY <1>1, <1>2, <1>3 DEF Channels!Live, Channels!ChangesOf

LEMMA LastRowsStay ==
  ASSUME UNCHANGED channelHistory
  PROVE  UNCHANGED LastRows
<1>1. \A c \in Channel : LastMade(c)' = LastMade(c)
  BY DEF LastMade, Channels!ChangesOf
<1>2. \A c \in Channel : RowOf(LastMade(c)') = RowOf(LastMade(c))
  BY <1>1
<1> QED
  BY <1>2 DEF LastRows

LEMMA IdleChannelReq ==
  /\ Channels!Idle.at = "idle" /\ Channels!Idle.server = NoServer /\ Channels!Idle.channel = NoChannel
  /\ Channels!Idle.no = 0 /\ Channels!Idle.row = 0 /\ Channels!Idle.session = NoTab /\ Channels!Idle.page = {}
  /\ Channels!Idle.seen = 0 /\ Channels!Idle.gap = {} /\ Channels!Idle.alone = TRUE
BY DEF Channels!Idle

LEMMA IdleIsChannelReq ==
  ASSUME TableTypes
  PROVE  Channels!Idle \in ChannelReq /\ ChannelReqOK(Channels!Idle)
<1>1. Len(channelHistory) \in Nat
  BY ChannelFacts
<1>2. Channels!Idle \in ChannelReq
  BY <1>1 DEF Channels!Idle, ChannelReq, Channels!Page
<1> QED
  BY <1>2, IdleChannelReq DEF ChannelReqOK

(* A request at work is about a channel or for a session.                  *)
LEMMA ChannelRequests ==
  ASSUME ChannelInv, NEW q \in Request
  PROVE  /\ channelReq[q] \in ChannelReq /\ ChannelReqOK(channelReq[q])
         /\ channelReq[q].channel \in Channel <=> channelReq[q].at \in {"read", "emit"}
         /\ channelReq[q].session \in Tab <=> channelReq[q].at \in {"subscribe", "answer"}
         /\ channelReq[q].no # 0 => channelReq[q].channel \in Channel
<1>1. channelReq[q] \in ChannelReq /\ ChannelReqOK(channelReq[q])
  BY ChannelFacts DEF ChannelInv
<1> QED
  BY <1>1, IdleChannelReq, ZeroAssumption DEF ChannelReqOK, ChannelReq

LEMMA ServersOfChannels ==
  ASSUME ChannelInv, NEW c \in Channel
  PROVE  /\ \A v : c \in Channels!ChannelsOf(v) <=> MadeIn(c, v)
         /\ \A v, w : MadeIn(c, v) /\ MadeIn(c, w) => v = w
         /\ Channels!ChangesOf(c) # {} => MadeIn(c, Channels!ServerOf(c))
         /\ \A v : MadeIn(c, v) => v \in Home
<1>1. \A n, m \in Channels!ChangesOf(c) : channelHistory[n].server = channelHistory[m].server
  BY DEF ChannelInv, ChannelsCurrent
<1>2. Channels!ChangesOf(c) # {} => \E n \in Channels!ChangesOf(c) : Channels!ServerOf(c) = channelHistory[n].server
  BY DEF Channels!ServerOf
<1>3. \A n \in Channels!ChangesOf(c) : channelHistory[n].server \in Home
  BY ChannelFacts DEF ChannelInv, Channels!Change
<1> QED
  BY <1>1, <1>2, <1>3 DEF MadeIn, Channels!ChannelsOf

(* Change k is committed to channel c of server v.                         *)
Commits(c, k, v) ==
  /\ Len(channelHistory') = k /\ k = Len(channelHistory) + 1 /\ channelHistory'[k].server = v
  /\ \A n \in DOMAIN channelHistory : channelHistory'[n] = channelHistory[n]
  /\ \A d, n : n \in Channels!ChangesOf(d)' <=> n \in Channels!ChangesOf(d) \/ (n = k /\ d = c)
  /\ Channels!ChangesOf(c) = {} \/ MadeIn(c, v)
  /\ \A d \in Channel : d # c => LastRows'[d] = LastRows[d]

TablesMove ==
  /\ servers' \subseteq servers
  /\ \/ UNCHANGED <<channelHistory, LastRows>>
     \/ \E c, k, v : c \in Channel /\ Commits(c, k, v) /\ Pending(c, k)'

NothingForgotten ==
  /\ channelSilent \subseteq channelSilent'
  /\ \A c \in Channel : \A n : n # 0 /\ Pending(c, n) => Pending(c, n)' \/ n \in channelSilent'

(* The types that grow with the history.                                   *)
Grown(k) ==
  /\ k \in Nat /\ k # 0 /\ k <= MaxChannelChanges
  /\ channelHistory' \in Seq(Channels!Change) /\ DOMAIN channelHistory' = 1..k
  /\ LastRows' \in [Channel -> 0..k] /\ channelRows' \in [Channel -> 0..k]
  /\ ChannelReq \subseteq ChannelReq' /\ OpenList \subseteq OpenList'

(* Change k of this kind leaves channel c of server v with row p.          *)
Changes(kind, c, v, k, p) ==
  /\ c \in Channel /\ v \in servers /\ kind \in {"create", "modify", "delete"}
  /\ Channels!ChangesOf(c) = {} \/ MadeIn(c, v)
  /\ Channels!Commit(kind, c, v) /\ k = Len(channelHistory') /\ p = IF kind = "delete" THEN 0 ELSE k
  /\ channelRows' = [channelRows EXCEPT ![c] = p] /\ UNCHANGED servers

LEMMA ChannelCommits ==
  ASSUME ChannelInv, NEW kind, NEW c, NEW v, NEW k, NEW p, Changes(kind, c, v, k, p)
  PROVE  Commits(c, k, v) /\ Grown(k) /\ LastRows'[c] = p
<1>1. PICK h : h = [kind |-> kind, channel |-> c, server |-> v]
  OBVIOUS
<1>2. h \in Channels!Change /\ h.channel = c /\ h.server = v /\ h.kind = kind
  BY <1>1 DEF Channels!Change, Changes, ChannelInv, TableTypes
<1>3. /\ channelHistory \in Seq(Channels!Change) /\ channelHistory' = Append(channelHistory, h)
      /\ Len(channelHistory) < MaxChannelChanges /\ k = Len(channelHistory')
  BY <1>1 DEF Channels!Commit, ChannelInv, TableTypes, Changes
<1>4. /\ Len(channelHistory) \in Nat /\ DOMAIN channelHistory = 1..Len(channelHistory)
      /\ MaxChannelChanges \in Nat
  BY <1>3, LenProperties, ChannelBoundAssumption
<1>5. /\ channelHistory' \in Seq(Channels!Change) /\ Len(channelHistory') = Len(channelHistory) + 1
      /\ \A n \in 1..Len(channelHistory) : channelHistory'[n] = channelHistory[n]
      /\ channelHistory'[Len(channelHistory) + 1] = h
  BY <1>2, <1>3, AppendProperties
<1>6. DOMAIN channelHistory' = 1..(Len(channelHistory) + 1)
  BY <1>5, LenProperties
<1>7. /\ k = Len(channelHistory) + 1 /\ k \in Nat /\ k # 0 /\ k <= MaxChannelChanges
      /\ channelHistory'[k].channel = c /\ channelHistory'[k].server = v
  BY <1>2, <1>3, <1>4, <1>5
<1>8. ASSUME NEW d, NEW n
      PROVE  n \in Channels!ChangesOf(d)' <=> n \in Channels!ChangesOf(d) \/ (n = k /\ d = c)
  <2>1. n \in DOMAIN channelHistory' <=> n \in DOMAIN channelHistory \/ n = k
    BY <1>4, <1>6, <1>7
  <2>2. n \in DOMAIN channelHistory => channelHistory'[n] = channelHistory[n] /\ n # k
    BY <1>4, <1>5, <1>7
  <2> QED
    BY <1>7, <2>1, <2>2 DEF Channels!ChangesOf
<1>9. /\ LastRows \in [Channel -> 0..Len(channelHistory)] /\ channelRows \in [Channel -> 0..Len(channelHistory)]
      /\ c \in Channel /\ p \in {0, k} /\ (p = 0 <=> kind = "delete")
  BY <1>7 DEF ChannelInv, TableTypes, Changes
<1>10. /\ LastRows' \in [Channel -> 0..k] /\ channelRows' \in [Channel -> 0..k] /\ LastRows'[c] = p
       /\ \A d \in Channel : d # c => LastRows'[d] = LastRows[d]
  <2>1. ASSUME NEW d \in Channel, d # c PROVE LastMade(d)' = LastMade(d)
    <3>1. Channels!ChangesOf(d)' = Channels!ChangesOf(d)
      BY <1>8, <2>1
    <3>2. \A n \in Channels!ChangesOf(d) : channelHistory'[n] = channelHistory[n]
      BY <1>4, <1>5 DEF Channels!ChangesOf
    <3> QED
      BY <3>1, <3>2 DEF LastMade
  <2>2. LastMade(c)' = IF kind = "delete" THEN {} ELSE {k}
    <3>1. \A n \in Channels!ChangesOf(c) : n \in Nat /\ n < k
      BY <1>4, <1>7 DEF Channels!ChangesOf
    <3>2. k \in Channels!ChangesOf(c)' /\ channelHistory'[k].kind = kind
      BY <1>2, <1>5, <1>7, <1>8
    <3>3. \A n \in Channels!ChangesOf(c)' : n <= k
      BY <1>7, <1>8, <3>1
    <3>4. \A n \in Channels!ChangesOf(c)' : n # k => ~(k <= n)
      BY <1>7, <1>8, <3>1
    <3> QED
      BY <3>2, <3>3, <3>4 DEF LastMade
  <2>3. LastRows'[c] = p
    <3>1. CASE kind = "delete"
      <4>1. RowOf(LastMade(c)') = 0 /\ p = 0
        BY <1>9, <2>2, <3>1 DEF RowOf
      <4> QED
        BY <1>9, <4>1 DEF LastRows
    <3>2. CASE kind # "delete"
      <4>1. LastMade(c)' = {k} /\ p = k
        BY <1>9, <2>2, <3>2
      <4>2. RowOf(LastMade(c)') = p
        BY <4>1 DEF RowOf
      <4> QED
        BY <1>9, <4>2 DEF LastRows
    <3> QED
      BY <3>1, <3>2
  <2>4. ASSUME NEW d \in Channel, d # c PROVE LastRows'[d] = LastRows[d]
    <3>1. RowOf(LastMade(d)') = RowOf(LastMade(d))
      BY <2>1, <2>4
    <3> QED
      BY <3>1 DEF LastRows
  <2>5. \A d \in Channel : LastRows'[d] \in 0..k
    BY <1>4, <1>7, <1>9, <2>3, <2>4
  <2>6. LastRows' \in [Channel -> 0..k]
    BY <2>5 DEF LastRows
  <2>7. channelRows' \in [Channel -> 0..k]
    BY <1>4, <1>7, <1>9 DEF Changes
  <2> QED
    BY <2>3, <2>4, <2>6, <2>7
<1>11. Commits(c, k, v)
  BY <1>4, <1>5, <1>7, <1>8, <1>10 DEF Commits, Changes
<1>12. 0..Len(channelHistory) \subseteq 0..Len(channelHistory')
  BY <1>4, <1>5
<1>13. ChannelReq \subseteq ChannelReq' /\ OpenList \subseteq OpenList'
  BY <1>12 DEF ChannelReq, OpenList
<1> QED
  BY <1>5, <1>6, <1>7, <1>10, <1>11, <1>13 DEF Grown

(* What a list has heard of, and what it shows, stays.                     *)
LEMMA GatheredStays ==
  ASSUME ChannelInv, TablesMove, NothingForgotten, NEW p, NEW T, NEW L
  PROVE  /\ Heard(p, T, L) => Heard(p, T, L)'
         /\ ListIsPresent(p) => ListIsPresent(p)'
<1>1. /\ Len(channelHistory) \in Nat /\ DOMAIN channelHistory = 1..Len(channelHistory)
      /\ \A c : Channels!ChangesOf(c) \subseteq DOMAIN channelHistory
      /\ \A n \in DOMAIN channelHistory : n \in Nat /\ n # 0
  BY ChannelFacts DEF ChannelInv
<1>2. \A c \in Channel : \A n : n # 0 /\ Pending(c, n) => Pending(c, n)' \/ n \in channelSilent'
  BY DEF NothingForgotten
<1>3. channelSilent \subseteq channelSilent'
  BY DEF NothingForgotten
<1>4. CASE UNCHANGED <<channelHistory, LastRows>>
  <2>1. \A c, v : MadeIn(c, v)' <=> MadeIn(c, v)
    BY <1>4 DEF MadeIn, Channels!ChangesOf
  <2>2. \A c : Channels!ChangesOf(c)' = Channels!ChangesOf(c)
    BY <1>4 DEF Channels!ChangesOf
  <2>3. Heard(p, T, L) => Heard(p, T, L)'
    BY <1>1, <1>2, <1>3, <2>1, <2>2 DEF Heard
  <2>4. ListIsPresent(p) => ListIsPresent(p)'
    BY <1>4, <2>1, <2>2 DEF ListIsPresent
  <2> QED
    BY <2>3, <2>4
<1>5. CASE \E c, k, v : c \in Channel /\ Commits(c, k, v) /\ Pending(c, k)'
  <2>1. PICK c, k, v : c \in Channel /\ Commits(c, k, v) /\ Pending(c, k)'
    BY <1>5
  <2>2. /\ \A d, n : n \in Channels!ChangesOf(d)' <=> n \in Channels!ChangesOf(d) \/ (n = k /\ d = c)
        /\ k = Len(channelHistory) + 1 /\ Len(channelHistory') = k /\ channelHistory'[k].server = v
        /\ \A n \in DOMAIN channelHistory : channelHistory'[n] = channelHistory[n]
        /\ \A d \in Channel : d # c => LastRows'[d] = LastRows[d]
        /\ Channels!ChangesOf(c) = {} \/ MadeIn(c, v)
    BY <2>1 DEF Commits
  <2>3. ASSUME NEW d, NEW w, MadeIn(d, w)', Channels!ChangesOf(d) # {} \/ d # c PROVE MadeIn(d, w)
    <3>1. PICK n \in Channels!ChangesOf(d)' : channelHistory'[n].server = w
      BY <2>3 DEF MadeIn
    <3>2. CASE n \in Channels!ChangesOf(d)
      BY <1>1, <2>2, <3>1, <3>2 DEF MadeIn
    <3>3. CASE n \notin Channels!ChangesOf(d)
      BY <2>2, <2>3, <3>1, <3>3
    <3> QED
      BY <3>2, <3>3
  <2>4. ASSUME Heard(p, T, L) PROVE Heard(p, T, L)'
    <3> SUFFICES ASSUME NEW d \in Channel, MadeIn(d, p.server)', NEW n \in Channels!ChangesOf(d)'
                 PROVE  \/ n <= p.seen \/ n \in channelSilent' \/ d \in p.gap \/ d \in L
                        \/ \E i \in DOMAIN T : T[i].channel = d /\ (T[i].row >= n \/ T[i].row = 0)
                        \/ Pending(d, n)'
      BY DEF Heard
    <3>1. CASE n = k /\ d = c
      BY <2>1, <3>1
    <3>2. CASE n \in Channels!ChangesOf(d)
      <4>1. MadeIn(d, p.server)
        BY <2>3, <3>2
      <4>2. n # 0
        BY <1>1, <3>2
      <4> QED
        BY <1>2, <1>3, <2>4, <3>2, <4>1, <4>2 DEF Heard
    <3> QED
      BY <2>2, <3>1, <3>2
  <2>5. ASSUME ListIsPresent(p) PROVE ListIsPresent(p)'
    <3>1. p.seen \in 0..Len(channelHistory')
      BY <1>1, <2>2, <2>5 DEF ListIsPresent
    <3>2. ASSUME NEW d \in Channel, MadeIn(d, p.server)', \A n \in Channels!ChangesOf(d)' : n <= p.seen
          PROVE  {e \in p.page : e.channel = d} =
                   IF LastRows'[d] = 0 THEN {} ELSE {[channel |-> d, row |-> LastRows'[d]]}
      <4>1. d # c
        BY <1>1, <2>2, <2>5, <3>2 DEF ListIsPresent
      <4>2. MadeIn(d, p.server) /\ \A n \in Channels!ChangesOf(d) : n <= p.seen
        BY <2>2, <2>3, <3>2, <4>1
      <4> QED
        BY <2>2, <2>5, <4>1, <4>2 DEF ListIsPresent
    <3> QED
      BY <3>1, <3>2 DEF ListIsPresent
  <2> QED
    BY <2>4, <2>5
<1> QED
  BY <1>4, <1>5 DEF TablesMove

LEMMA FollowsStays ==
  ASSUME ChannelInv, TablesMove, NothingForgotten, channelCrossed \subseteq channelCrossed',
         NEW s, NEW p, channelTold'[s] = channelTold[s], channelLost'[s] = channelLost[s],
         room'[s] = room[s], Follows(s, p)
  PROVE  Follows(s, p)'
<1>1. PICK T, L : T = channelTold[s] /\ L = channelLost[s]
  OBVIOUS
<1> SUFFICES ASSUME p.server \in servers' PROVE Adds(p, T, L)'
  BY <1>1 DEF Follows
<1>2. /\ ListIsPresent(p) /\ Heard(p, T, L)
      /\ \A c \in Channel : MadeIn(c, p.server) /\ c \notin L => LastTells(T, c)
  BY <1>1 DEF Follows, Adds, TablesMove
<1>3. Heard(p, T, L)' /\ ListIsPresent(p)'
  BY <1>2, GatheredStays
<1>4. /\ Len(channelHistory) \in Nat /\ DOMAIN channelHistory = 1..Len(channelHistory)
      /\ \A c : Channels!ChangesOf(c) \subseteq DOMAIN channelHistory
      /\ \A n \in DOMAIN channelHistory : n \in Nat /\ n # 0
  BY ChannelFacts DEF ChannelInv
<1>5. ASSUME NEW c \in Channel, MadeIn(c, p.server)', c \notin L PROVE LastTells(T, c)'
  <2> SUFFICES ASSUME c \notin channelCrossed', NEW x \in Channels!Event, LastIn(T, EventsFor(c), x)
               PROVE  \/ x.row = LastRows'[c]
                      \/ \E n \in Channels!ChangesOf(c)' : n \in channelSilent' \/ Pending(c, n)'
    BY DEF LastTells, LastIn, EventsFor, Channels!Event
  <2>1. CASE UNCHANGED <<channelHistory, LastRows>>
    <3>1. MadeIn(c, p.server) /\ Channels!ChangesOf(c)' = Channels!ChangesOf(c)
      BY <1>5, <2>1 DEF MadeIn, Channels!ChangesOf
    <3>2. LastTells(T, c)
      BY <1>2, <1>5, <3>1
    <3>3. x.row = LastRows[c] \/ \E n \in Channels!ChangesOf(c) : n \in channelSilent \/ Pending(c, n)
      BY <3>2 DEF LastTells
    <3> QED
      BY <1>4, <2>1, <3>1, <3>3 DEF NothingForgotten
  <2>2. CASE \E d, k, v : d \in Channel /\ Commits(d, k, v) /\ Pending(d, k)'
    <3>1. PICK d, k, v : d \in Channel /\ Commits(d, k, v) /\ Pending(d, k)'
      BY <2>2
    <3>2. /\ \A b, n : n \in Channels!ChangesOf(b)' <=> n \in Channels!ChangesOf(b) \/ (n = k /\ b = d)
          /\ \A n \in DOMAIN channelHistory : channelHistory'[n] = channelHistory[n]
          /\ \A b \in Channel : b # d => LastRows'[b] = LastRows[b]
      BY <3>1 DEF Commits
    <3>3. CASE c = d
      BY <3>1, <3>2, <3>3
    <3>4. CASE c # d
      <4>1. MadeIn(c, p.server)
        BY <1>4, <1>5, <3>2, <3>4 DEF MadeIn
      <4>2. LastTells(T, c)
        BY <1>2, <1>5, <4>1
      <4>3. x.row = LastRows[c] \/ \E n \in Channels!ChangesOf(c) : n \in channelSilent \/ Pending(c, n)
        BY <4>2 DEF LastTells
      <4> QED
        BY <1>4, <3>2, <3>4, <4>3 DEF NothingForgotten
    <3> QED
      BY <3>3, <3>4
  <2> QED
    BY <2>1, <2>2 DEF TablesMove
<1> QED
  BY <1>3, <1>5 DEF Adds

(* Two requests or lists that show the same.                               *)
SameList(p, x) == p.server = x.server /\ p.page = x.page /\ p.seen = x.seen /\ p.gap = x.gap

LEMMA SameListFollows ==
  ASSUME NEW p, NEW x, SameList(p, x), NEW s
  PROVE  /\ Gathered(x) => Gathered(p)
         /\ Gathered(x)' => Gathered(p)'
         /\ Follows(s, x) => Follows(s, p)
         /\ Follows(s, x)' => Follows(s, p)'
<1>1. \A T, L : Heard(x, T, L) => Heard(p, T, L)
  BY DEF SameList, Heard
<1>2. \A T, L : Heard(x, T, L)' => Heard(p, T, L)'
  BY DEF SameList, Heard
<1>3. ListIsPresent(x) => ListIsPresent(p)
  BY DEF SameList, ListIsPresent
<1>4. ListIsPresent(x)' => ListIsPresent(p)'
  BY DEF SameList, ListIsPresent
<1> QED
  BY <1>1, <1>2, <1>3, <1>4 DEF SameList, Gathered, Follows, Adds

(* Request r becomes y; the others stay, but those in others are no longer *)
(* alone.                                                                  *)
Turns(r, y, others) ==
  /\ channelReq' \in [Request -> ChannelReq'] /\ channelReq'[r] = y
  /\ \A q \in Request : q # r =>
       channelReq'[q] = IF q \in others THEN [channelReq[q] EXCEPT !.alone = FALSE] ELSE channelReq[q]

(* About the same channel, or for the same session.                        *)
Meets(x, y) ==
  \/ x.channel \in Channel /\ x.channel = y.channel
  \/ x.session \in Tab /\ x.session = y.session

(* Those others are what y crosses, and all that the channel's row is      *)
(* changed for.                                                            *)
Crosses(r, y, others) ==
  /\ y.channel \in Channel /\ ~y.alone => y.channel \in channelCrossed'
  /\ \A q \in Request : q # r =>
       /\ q \in others => /\ channelReq[q].at # "idle"
                          /\ channelReq[q].channel \in Channel => channelReq[q].channel \in channelCrossed'
       /\ Meets(channelReq[q], y) => ~y.alone /\ (q \in others \/ ~channelReq[q].alone)
       /\ channelReq[q].channel \in Channel =>
            q \in others \/ LastRows'[channelReq[q].channel] = LastRows[channelReq[q].channel]

Remembered(r, y) ==
  \/ channelReq[r].no = 0 \/ channelReq[r].no \in channelSilent'
  \/ y.channel = channelReq[r].channel /\ y.no = channelReq[r].no

LEMMA OthersBeside ==
  ASSUME ChannelInv, NEW r \in Request, NEW y, NEW others, Turns(r, y, others),
         NEW q \in Request, q # r
  PROVE  /\ channelReq'[q].at = channelReq[q].at /\ channelReq'[q].channel = channelReq[q].channel
         /\ channelReq'[q].session = channelReq[q].session /\ channelReq'[q].no = channelReq[q].no
         /\ channelReq'[q].row = channelReq[q].row /\ SameList(channelReq'[q], channelReq[q])
         /\ channelReq'[q].alone = (channelReq[q].alone /\ q \notin others)
<1>1. PICK x, z : x = channelReq[q] /\ z = channelReq'[q]
  OBVIOUS
<1>2. x \in ChannelReq /\ z = IF q \in others THEN [x EXCEPT !.alone = FALSE] ELSE x
  BY <1>1, ChannelRequests DEF Turns
<1>3. /\ z.at = x.at /\ z.channel = x.channel /\ z.session = x.session /\ z.no = x.no /\ z.row = x.row
      /\ z.server = x.server /\ z.page = x.page /\ z.seen = x.seen /\ z.gap = x.gap
      /\ z.alone = (x.alone /\ q \notin others)
  <2>1. CASE q \in others
    BY <1>2, <2>1 DEF ChannelReq
  <2>2. CASE q \notin others
    BY <1>2, <2>2 DEF ChannelReq
  <2> QED
    BY <2>1, <2>2
<1> QED
  BY <1>1, <1>3 DEF SameList

LEMMA TurnsForgetNothing ==
  ASSUME ChannelInv, NEW r \in Request, NEW y, NEW others, Turns(r, y, others),
         Remembered(r, y), channelSilent \subseteq channelSilent'
  PROVE  NothingForgotten
<1> SUFFICES ASSUME NEW c \in Channel, NEW n, n # 0, NEW q \in Request,
                    channelReq[q].channel = c, channelReq[q].no = n
             PROVE  n \in channelSilent' \/ \E p \in Request : channelReq'[p].channel = c /\ channelReq'[p].no = n
  BY DEF NothingForgotten, Pending
<1>1. CASE q = r
  BY <1>1 DEF Remembered, Turns
<1>2. CASE q # r
  BY <1>2, OthersBeside
<1> QED
  BY <1>1, <1>2

LEMMA TurnKeeps ==
  ASSUME ChannelInv, NEW r \in Request, NEW y, NEW others, Turns(r, y, others), Crosses(r, y, others),
         TablesMove, channelCrossed \subseteq channelCrossed', ChannelReqOK(y)'
  PROVE  ChannelCrossings' /\ \A q \in Request : \A x \in {channelReq'[q]} : ChannelReqOK(x)'
<1>1. \A c, n : n \in Channels!ChangesOf(c) => n \in Channels!ChangesOf(c)'
  BY DEF TablesMove, Commits, Channels!ChangesOf
<1>2. \A c, v : MadeIn(c, v) => MadeIn(c, v)'
  <2>1. \A c, n : n \in Channels!ChangesOf(c) => channelHistory'[n] = channelHistory[n]
    BY ChannelFacts DEF TablesMove, Commits, ChannelInv
  <2> QED
    BY <1>1, <2>1 DEF MadeIn
<1>3. ASSUME NEW q \in Request, q # r, NEW z, z = channelReq'[q] PROVE ChannelReqOK(z)'
  <2>1. PICK x : x = channelReq[q]
    OBVIOUS
  <2>2. /\ x \in ChannelReq /\ ChannelReqOK(x)
        /\ x.channel \in Channel <=> x.at \in {"read", "emit"}
    BY <2>1, ChannelRequests
  <2>3. /\ z.at = x.at /\ z.channel = x.channel /\ z.session = x.session /\ z.no = x.no /\ z.row = x.row
        /\ z.server = x.server /\ z.alone = (x.alone /\ q \notin others)
    BY <1>3, <2>1, OthersBeside DEF SameList
  <2>4. z.at = "idle" => z = Channels!Idle
    BY <1>3, <2>1, <2>2, <2>3 DEF ChannelReqOK, Turns, Crosses
  <2>5. z.at = "emit" /\ z.alone => z.row = LastRows'[z.channel]
    BY <1>3, <2>1, <2>2, <2>3 DEF ChannelReqOK, Crosses
  <2> QED
    BY <1>1, <1>2, <2>2, <2>3, <2>4, <2>5 DEF ChannelReqOK
<1>4. \A q \in Request : \A x \in {channelReq'[q]} : ChannelReqOK(x)'
  BY <1>3 DEF Turns
<1>5. ASSUME NEW q \in Request, channelReq'[q].channel \in Channel, ~channelReq'[q].alone
      PROVE  channelReq'[q].channel \in channelCrossed'
  <2>1. CASE q = r
    BY <1>5, <2>1 DEF Turns, Crosses
  <2>2. CASE q # r
    BY <1>5, <2>2, OthersBeside DEF ChannelInv, ChannelCrossings, Crosses
  <2> QED
    BY <2>1, <2>2
<1>6. ASSUME NEW q \in Request, NEW p \in Request, q # p,
             \/ channelReq'[q].channel \in Channel /\ channelReq'[q].channel = channelReq'[p].channel
             \/ channelReq'[q].session \in Tab /\ channelReq'[q].session = channelReq'[p].session
      PROVE  ~channelReq'[q].alone
  <2>1. /\ channelReq'[r] = y
        /\ \A t \in Request : t # r =>
             /\ channelReq'[t].channel = channelReq[t].channel /\ channelReq'[t].session = channelReq[t].session
             /\ channelReq'[t].alone = (channelReq[t].alone /\ t \notin others)
    BY OthersBeside DEF Turns
  <2>2. \A t \in Request : t # r /\ Meets(channelReq[t], y) =>
          ~y.alone /\ (t \in others \/ ~channelReq[t].alone)
    BY DEF Crosses
  <2>3. CASE q = r
    BY <1>6, <2>1, <2>2, <2>3 DEF Meets
  <2>4. CASE q # r /\ p = r
    BY <1>6, <2>1, <2>2, <2>4 DEF Meets
  <2>5. CASE q # r /\ p # r
    <3>1. ~channelReq[q].alone
      BY <1>6, <2>1, <2>5 DEF ChannelInv, ChannelCrossings
    <3> QED
      BY <2>1, <2>5, <3>1
  <2> QED
    BY <2>3, <2>4, <2>5
<1> QED
  BY <1>4, <1>5, <1>6 DEF ChannelCrossings

(* The tabs rest.                                                          *)
LEMMA ListsStay ==
  ASSUME ChannelInv, NEW r \in Request, NEW y, NEW others, Turns(r, y, others),
         TablesMove, NothingForgotten, channelCrossed \subseteq channelCrossed',
         UNCHANGED <<room, opened, channelTold, channelLost>>,
         y.at # "answer", y.at = "subscribe" => Gathered(y)'
  PROVE  ListsFollow'
<1>1. ASSUME NEW s \in Tab, NEW p \in {opened'[s]}, p.server # NoServer, p.alone PROVE Follows(s, p)'
  BY <1>1, FollowsStays DEF ChannelInv, ListsFollow
<1>2. ASSUME NEW q \in Request, NEW p \in {channelReq'[q]}
      PROVE  (p.at = "subscribe" => Gathered(p)') /\ (p.at = "answer" /\ p.alone => Follows(p.session, p)')
  <2>1. CASE q = r
    BY <1>2, <2>1 DEF Turns
  <2>2. CASE q # r
    <3>1. PICK x : x = channelReq[q]
      OBVIOUS
    <3>2. p.at = x.at /\ p.session = x.session /\ SameList(p, x) /\ (p.alone => x.alone)
      BY <2>2, <3>1, OthersBeside
    <3>3. x.at = "subscribe" => Gathered(x)'
      BY <3>1, GatheredStays DEF ChannelInv, ListsFollow, Gathered, TablesMove
    <3>4. x.at = "answer" /\ x.alone => Follows(x.session, x)'
      <4>1. x.at = "answer" /\ x.alone => Follows(x.session, x) /\ x.session \in Tab
        BY <3>1, ChannelRequests DEF ChannelInv, ListsFollow
      <4> QED
        BY <4>1, FollowsStays
    <3> QED
      BY <3>2, <3>3, <3>4, SameListFollows
  <2> QED
    BY <2>1, <2>2
<1> QED
  BY <1>1, <1>2 DEF ListsFollow

(***************************************************************************)
(* ChannelList: the actions                                                *)
(***************************************************************************)
LEMMA RequestTurns ==
  ASSUME ChannelInv, NEW r \in Request, NEW y, y \in ChannelReq', ChannelReq \subseteq ChannelReq',
         channelReq' = [channelReq EXCEPT ![r] = y]
  PROVE  Turns(r, y, {})
BY DEF ChannelInv, TableTypes, Turns

LEMMA BeginTurns ==
  ASSUME ChannelInv, NEW r \in Request, NEW x, NEW others, Channels!Begin(r, x, others),
         NEW y, y = [x EXCEPT !.alone = others = {}], y \in ChannelReq', ChannelReq \subseteq ChannelReq'
  PROVE  Turns(r, y, others)
<1>1. /\ \A q \in Request : q = r => channelReq'[q] = y
      /\ \A q \in Request : q # r =>
           channelReq'[q] = [channelReq[q] EXCEPT !.alone = channelReq[q].alone /\ q \notin others]
      /\ channelReq' = [q \in Request |-> channelReq'[q]]
  BY DEF Channels!Begin
<1>2. ASSUME NEW q \in Request, q # r
      PROVE  /\ channelReq'[q] \in ChannelReq
             /\ channelReq'[q] = IF q \in others THEN [channelReq[q] EXCEPT !.alone = FALSE] ELSE channelReq[q]
  <2>1. PICK z : z = channelReq[q] /\ z \in ChannelReq
    BY ChannelRequests
  <2>2. [z EXCEPT !.alone = z.alone] = z /\ [z EXCEPT !.alone = FALSE] \in ChannelReq
    BY <2>1 DEF ChannelReq
  <2>3. CASE q \in others
    <3>1. (z.alone /\ q \notin others) = FALSE
      BY <2>3
    <3> QED
      BY <1>1, <1>2, <2>1, <2>2, <2>3, <3>1
  <2>4. CASE q \notin others
    <3>1. (z.alone /\ q \notin others) = z.alone
      BY <2>1, <2>4 DEF ChannelReq
    <3> QED
      BY <1>1, <1>2, <2>1, <2>2, <2>4, <3>1
  <2> QED
    BY <2>3, <2>4
<1>3. channelReq' \in [Request -> ChannelReq']
  BY <1>1, <1>2
<1> QED
  BY <1>1, <1>2, <1>3 DEF Turns

(* Request r commits change k to channel c, which has row p then, and goes *)
(* on as y.                                                                *)
LEMMA ChannelCommitKeeps ==
  ASSUME ChannelInv, NEW r \in Request, NEW kind, NEW c, NEW v, NEW k, NEW p, Changes(kind, c, v, k, p),
         NEW x, NEW others, channelReq[r] = Channels!Idle,
         Channels!Begin(r, x, others), others = Channels!About(c),
         x \in ChannelReq', x.at \in {"read", "emit"}, x.server = v, x.channel = c, x.no = k,
         x.session = NoTab, x.at = "emit" => x.row = p,
         channelCrossed' = IF others = {} THEN channelCrossed ELSE channelCrossed \cup {c},
         UNCHANGED <<room, opened, channelTold, channelLost, channelSilent>>
  PROVE  ChannelInv'
<1>1. /\ Commits(c, k, v) /\ k \in Nat /\ k # 0 /\ k <= MaxChannelChanges /\ LastRows'[c] = p
      /\ channelHistory' \in Seq(Channels!Change) /\ DOMAIN channelHistory' = 1..k
      /\ LastRows' \in [Channel -> 0..k] /\ channelRows' \in [Channel -> 0..k]
      /\ ChannelReq \subseteq ChannelReq' /\ OpenList \subseteq OpenList'
  <2>1. Commits(c, k, v) /\ Grown(k) /\ LastRows'[c] = p
    BY ChannelCommits
  <2> QED
    BY <2>1 DEF Grown
<1>2. /\ c \in Channel /\ v \in servers /\ p \in {0, k} /\ UNCHANGED servers
      /\ channelRows' = [channelRows EXCEPT ![c] = p]
      /\ Channels!ChangesOf(c) = {} \/ MadeIn(c, v)
  BY DEF Changes
<1>3. /\ k = Len(channelHistory) + 1 /\ Len(channelHistory') = k /\ channelHistory'[k].server = v
      /\ \A n \in DOMAIN channelHistory : channelHistory'[n] = channelHistory[n]
      /\ \A d, n : n \in Channels!ChangesOf(d)' <=> n \in Channels!ChangesOf(d) \/ (n = k /\ d = c)
      /\ \A d \in Channel : d # c => LastRows'[d] = LastRows[d]
  BY <1>1 DEF Commits
<1>4. /\ Len(channelHistory) \in Nat /\ DOMAIN channelHistory = 1..Len(channelHistory)
      /\ \A n \in DOMAIN channelHistory : n \in Nat /\ n # 0
      /\ \A d : Channels!ChangesOf(d) \subseteq DOMAIN channelHistory
  BY ChannelFacts DEF ChannelInv
<1>5. PICK y : y = [x EXCEPT !.alone = others = {}]
  OBVIOUS
<1>6. /\ y \in ChannelReq' /\ y.at = x.at /\ y.server = v /\ y.channel = c /\ y.no = k /\ y.row = x.row
      /\ y.session = NoTab /\ y.alone = (others = {})
  BY <1>5 DEF ChannelReq
<1>7. Turns(r, y, others)
  BY <1>1, <1>5, <1>6, BeginTurns
<1>8. Pending(c, k)' /\ TablesMove
  <2>1. Pending(c, k)'
    BY <1>6, <1>7 DEF Pending, Turns
  <2> QED
    BY <1>1, <1>2, <2>1 DEF TablesMove
<1>9. NothingForgotten /\ channelCrossed \subseteq channelCrossed'
  <2>1. Remembered(r, y)
    BY IdleChannelReq DEF Remembered
  <2> QED
    BY <1>7, <2>1, TurnsForgetNothing
<1>10. Crosses(r, y, others)
  <2>1. y.channel \in Channel /\ ~y.alone => y.channel \in channelCrossed'
    BY <1>6
  <2>2. ASSUME NEW q \in Request, q # r
        PROVE  /\ q \in others => /\ channelReq[q].at # "idle"
                                  /\ channelReq[q].channel \in Channel => channelReq[q].channel \in channelCrossed'
               /\ Meets(channelReq[q], y) => ~y.alone /\ (q \in others \/ ~channelReq[q].alone)
               /\ channelReq[q].channel \in Channel =>
                    q \in others \/ LastRows'[channelReq[q].channel] = LastRows[channelReq[q].channel]
    <3>1. q \in others <=> channelReq[q].channel = c
      BY DEF Channels!About
    <3>2. q \in others => channelReq[q].at # "idle" /\ c \in channelCrossed'
      BY <1>2, <3>1, ChannelRequests
    <3>3. Meets(channelReq[q], y) => q \in others
      BY <1>6, <3>1, ZeroAssumption DEF Meets
    <3> QED
      BY <1>3, <1>6, <3>1, <3>2, <3>3
  <2> QED
    BY <2>1, <2>2 DEF Crosses
<1>11. ChannelReqOK(y)'
  <2>1. MadeIn(c, v)' /\ k \in Channels!ChangesOf(c)'
    BY <1>3 DEF MadeIn
  <2>2. y.at = "emit" => y.row = LastRows'[c] /\ (y.row = 0 \/ y.no <= y.row)
    BY <1>1, <1>2, <1>6
  <2>3. y.at \in {"read", "emit"}
    BY <1>6
  <2> QED
    BY <1>2, <1>6, <2>1, <2>2, <2>3 DEF ChannelReqOK
<1>12. ChannelCrossings' /\ \A q \in Request : \A z \in {channelReq'[q]} : ChannelReqOK(z)'
  BY <1>7, <1>8, <1>9, <1>10, <1>11, TurnKeeps
<1>13. ListsFollow'
  BY <1>6, <1>7, <1>8, <1>9, ListsStay
<1>14. TableTypes' /\ TabTypes'
  <2>1. channelSilent' \subseteq DOMAIN channelHistory'
    BY <1>1, <1>3, <1>4 DEF ChannelInv, TableTypes
  <2>2. opened' \in [Tab -> OpenList']
    BY <1>1 DEF ChannelInv, TabTypes
  <2>3. channelCrossed' \subseteq Channel
    BY <1>2 DEF ChannelInv, TableTypes
  <2>4. channelReq' \in [Request -> ChannelReq']
    BY <1>7 DEF Turns
  <2>5. TableTypes'
    BY <1>1, <1>2, <1>3, <2>1, <2>3, <2>4 DEF TableTypes, ChannelInv
  <2> QED
    BY <2>2, <2>5 DEF ChannelInv, TabTypes
<1>15. ChannelsCurrent'
  <2>1. ASSUME NEW d \in Channel, NEW n \in Channels!ChangesOf(d)', NEW m \in Channels!ChangesOf(d)'
        PROVE  channelHistory'[n].server = channelHistory'[m].server
    <3>1. \A j \in Channels!ChangesOf(c)' : channelHistory'[j].server = v
      <4>1. ASSUME NEW j \in Channels!ChangesOf(c) PROVE channelHistory'[j].server = v
        <5>1. MadeIn(c, v) /\ MadeIn(c, channelHistory[j].server)
          BY <1>2, <4>1 DEF MadeIn
        <5>2. channelHistory[j].server = v
          BY <1>2, <5>1, ServersOfChannels
        <5> QED
          BY <1>3, <1>4, <5>2
      <4> QED
        BY <1>3, <4>1
    <3>2. CASE d = c
      BY <2>1, <3>1, <3>2
    <3>3. CASE d # c
      BY <1>3, <1>4, <2>1, <3>3 DEF ChannelInv, ChannelsCurrent
    <3> QED
      BY <3>2, <3>3
  <2>2. ASSUME NEW d \in Channel, LastRows'[d] # 0
        PROVE  /\ LastRows'[d] \in Channels!ChangesOf(d)'
               /\ \A n \in Channels!ChangesOf(d)' : n <= LastRows'[d]
    <3>1. CASE d = c
      BY <1>1, <1>2, <1>3, <1>4, <2>2, <3>1
    <3>2. CASE d # c
      BY <1>3, <2>2, <3>2 DEF ChannelInv, ChannelsCurrent
    <3> QED
      BY <3>1, <3>2
  <2> QED
    BY <2>1, <2>2 DEF ChannelsCurrent
<1>16. RowsRemain'
  <2> SUFFICES ASSUME NEW d \in Channel
               PROVE  channelRows'[d] = IF \E w \in servers : MadeIn(d, w)' THEN LastRows'[d] ELSE 0
    BY <1>2 DEF RowsRemain
  <2>1. CASE d = c
    <3>1. MadeIn(c, v)' /\ channelRows'[c] = p
      BY <1>2, <1>3 DEF MadeIn, ChannelInv, TableTypes
    <3> QED
      BY <1>1, <1>2, <2>1, <3>1
  <2>2. CASE d # c
    <3>1. \A w : MadeIn(d, w)' <=> MadeIn(d, w)
      BY <1>3, <1>4, <2>2 DEF MadeIn
    <3>2. channelRows'[d] = channelRows[d] /\ LastRows'[d] = LastRows[d]
      BY <1>2, <1>3, <2>2 DEF ChannelInv, TableTypes
    <3> QED
      BY <3>1, <3>2 DEF ChannelInv, RowsRemain
  <2> QED
    BY <2>1, <2>2
<1> QED
  BY <1>12, <1>13, <1>14, <1>15, <1>16 DEF ChannelInv

LEMMA TablesRest ==
  ASSUME UNCHANGED <<channelHistory, channelRows, servers>>
  PROVE  (ChannelsCurrent => ChannelsCurrent') /\ (RowsRemain => RowsRemain')
<1>1. \A c : Channels!ChangesOf(c)' = Channels!ChangesOf(c)
  BY DEF Channels!ChangesOf
<1>2. LastRows' = LastRows /\ \A c, v : MadeIn(c, v)' <=> MadeIn(c, v)
  BY <1>1, LastRowsStay DEF MadeIn
<1>3. ChannelsCurrent => ChannelsCurrent'
  BY <1>1, <1>2 DEF ChannelsCurrent
<1>4. RowsRemain => RowsRemain'
  BY <1>2 DEF RowsRemain
<1> QED
  BY <1>3, <1>4

(* No change is committed and the tabs rest: r goes on, or begins, as y.   *)
LEMMA ChannelTurnKeeps ==
  ASSUME ChannelInv, NEW r \in Request, NEW y, NEW others, Turns(r, y, others), Crosses(r, y, others),
         Remembered(r, y), ChannelReqOK(y), y.at # "answer", y.at = "subscribe" => Gathered(y)',
         channelSilent \subseteq channelSilent', channelSilent' \subseteq DOMAIN channelHistory,
         channelCrossed \subseteq channelCrossed', channelCrossed' \subseteq Channel,
         UNCHANGED <<channelHistory, channelRows, servers, room, opened, channelTold, channelLost>>
  PROVE  ChannelInv'
<1>1. TablesMove /\ NothingForgotten
  BY TurnsForgetNothing, LastRowsStay DEF TablesMove
<1>2. ChannelReqOK(y)'
  BY LastRowsStay DEF ChannelReqOK, MadeIn, Channels!ChangesOf
<1>3. ChannelCrossings' /\ \A q \in Request : \A z \in {channelReq'[q]} : ChannelReqOK(z)'
  BY <1>1, <1>2, TurnKeeps
<1>4. ListsFollow'
  BY <1>1, ListsStay
<1>5. TableTypes' /\ TabTypes'
  BY LastRowsStay DEF ChannelInv, TableTypes, TabTypes, Turns, OpenList
<1>6. ChannelsCurrent' /\ RowsRemain'
  BY TablesRest DEF ChannelInv
<1> QED
  BY <1>3, <1>4, <1>5, <1>6 DEF ChannelInv

LEMMA SameReqType ==
  ASSUME UNCHANGED channelHistory
  PROVE  ChannelReq' = ChannelReq /\ OpenList' = OpenList
BY DEF ChannelReq, OpenList

(* A request that goes on keeps what it crosses.                           *)
LEMMA GoesOnCrosses ==
  ASSUME ChannelInv, NEW r \in Request, NEW y,
         UNCHANGED LastRows, channelCrossed \subseteq channelCrossed',
         y = Channels!Idle \/ /\ y.channel = channelReq[r].channel /\ y.session = channelReq[r].session
                              /\ y.alone = channelReq[r].alone
  PROVE  Crosses(r, y, {})
<1>1. CASE y = Channels!Idle
  BY <1>1, IdleChannelReq, ZeroAssumption DEF Crosses, Meets
<1>2. CASE y # Channels!Idle
  <2>1. y.channel \in Channel /\ ~y.alone => y.channel \in channelCrossed'
    BY <1>2 DEF ChannelInv, ChannelCrossings
  <2>2. ASSUME NEW q \in Request, q # r, Meets(channelReq[q], y) PROVE ~y.alone /\ ~channelReq[q].alone
    BY <1>2, <2>2 DEF ChannelInv, ChannelCrossings, Meets
  <2> QED
    BY <2>1, <2>2 DEF Crosses
<1> QED
  BY <1>1, <1>2

LEMMA CreateChannelKeeps ==
  ASSUME ChannelInv, NEW r \in Request, NEW v \in Home, NEW c \in Channel, Channels!CreateChannel(r, v, c)
  PROVE  ChannelInv'
<1>1. PICK k, x : /\ k = Len(channelHistory')
                  /\ x = [Channels!Idle EXCEPT !.at = "emit", !.server = v, !.channel = c, !.no = k, !.row = k]
  OBVIOUS
<1>2. /\ channelReq[r] = Channels!Idle /\ Channels!ChangesOf(c) = {} /\ Channels!Commit("create", c, v)
      /\ channelRows' = [channelRows EXCEPT ![c] = k] /\ Channels!Begin(r, x, {}) /\ v \in servers
      /\ UNCHANGED <<servers, room, opened, channelTold, channelLost, channelSilent, channelCrossed>>
  BY <1>1 DEF Channels!CreateChannel
<1>3. Channels!About(c) = {}
  <2>1. ASSUME NEW q \in Request, channelReq[q].channel = c PROVE FALSE
    BY <1>2, <2>1, ChannelRequests DEF ChannelReqOK, MadeIn
  <2> QED
    BY <2>1 DEF Channels!About
<1>4. Changes("create", c, v, k, k)
  BY <1>1, <1>2 DEF Changes
<1>5. k \in Nat /\ ChannelReq \subseteq ChannelReq'
  BY <1>4, ChannelCommits DEF Grown
<1>6. /\ x \in ChannelReq' /\ x.at = "emit" /\ x.server = v /\ x.channel = c /\ x.no = k /\ x.session = NoTab
      /\ x.row = k
  <2>1. PICK i : i = Channels!Idle /\ i \in ChannelReq /\ i.session = NoTab /\ i.row = 0
    BY IdleIsChannelReq, IdleChannelReq DEF ChannelInv
  <2>2. x = [i EXCEPT !.at = "emit", !.server = v, !.channel = c, !.no = k, !.row = k]
    BY <1>1, <2>1
  <2>3. i \in ChannelReq' /\ k \in 0..Len(channelHistory')
    BY <1>1, <1>5, <2>1
  <2> QED
    BY <2>1, <2>2, <2>3 DEF ChannelReq
<1> QED
  BY <1>2, <1>3, <1>4, <1>6, ChannelCommitKeeps

LEMMA LiveChannel ==
  ASSUME ChannelInv, NEW c \in Channels!Live
  PROVE  /\ c \in Channel /\ MadeIn(c, Channels!ServerOf(c)) /\ Channels!ServerOf(c) \in servers
         /\ channelRows[c] = LastRows[c] /\ LastRows[c] # 0
<1>1. c \in Channel /\ channelRows[c] # 0
  BY DEF Channels!Live
<1>2. PICK v \in servers : MadeIn(c, v) /\ channelRows[c] = LastRows[c]
  BY <1>1 DEF ChannelInv, RowsRemain
<1>3. MadeIn(c, Channels!ServerOf(c)) /\ Channels!ServerOf(c) = v
  BY <1>1, <1>2, ServersOfChannels DEF MadeIn
<1> QED
  BY <1>1, <1>2, <1>3

LEMMA DeleteChannelKeeps ==
  ASSUME ChannelInv, NEW r \in Request, NEW c \in Channel, Channels!DeleteChannel(r, c)
  PROVE  ChannelInv'
<1>1. PICK k, v, x : /\ k = Len(channelHistory') /\ v = Channels!ServerOf(c)
                     /\ x = [Channels!Idle EXCEPT !.at = "emit", !.server = v, !.channel = c, !.no = k]
  OBVIOUS
<1>2. /\ channelReq[r] = Channels!Idle /\ c \in Channels!Live /\ Channels!Commit("delete", c, v)
      /\ channelRows' = [channelRows EXCEPT ![c] = 0] /\ Channels!Begin(r, x, Channels!About(c))
      /\ channelCrossed' = IF Channels!About(c) = {} THEN channelCrossed ELSE channelCrossed \cup {c}
      /\ UNCHANGED <<servers, room, opened, channelTold, channelLost, channelSilent>>
  BY <1>1 DEF Channels!DeleteChannel, Channels!Crossing
<1>3. MadeIn(c, v) /\ v \in servers /\ v \in Home /\ c \in Channel
  BY <1>1, <1>2, LiveChannel DEF ChannelInv, TableTypes
<1>4. Changes("delete", c, v, k, 0)
  BY <1>1, <1>2, <1>3 DEF Changes
<1>5. k \in Nat /\ ChannelReq \subseteq ChannelReq'
  BY <1>4, ChannelCommits DEF Grown
<1>6. /\ x \in ChannelReq' /\ x.at = "emit" /\ x.server = v /\ x.channel = c /\ x.no = k /\ x.session = NoTab
      /\ x.row = 0
  <2>1. PICK i : i = Channels!Idle /\ i \in ChannelReq /\ i.session = NoTab /\ i.row = 0
    BY IdleIsChannelReq, IdleChannelReq DEF ChannelInv
  <2>2. x = [i EXCEPT !.at = "emit", !.server = v, !.channel = c, !.no = k]
    BY <1>1, <2>1
  <2>3. i \in ChannelReq' /\ k \in 0..Len(channelHistory')
    BY <1>1, <1>5, <2>1
  <2> QED
    BY <1>3, <2>1, <2>2, <2>3 DEF ChannelReq
<1> QED
  BY <1>2, <1>3, <1>4, <1>6, ChannelCommitKeeps

LEMMA UpdateChannelKeeps ==
  ASSUME ChannelInv, NEW r \in Request, NEW c \in Channel, Channels!UpdateChannel(r, c)
  PROVE  ChannelInv'
<1>1. PICK k, v, x, w : /\ k = Len(channelHistory') /\ v = Channels!ServerOf(c)
                        /\ x = [Channels!Idle EXCEPT !.at = "read", !.server = v, !.channel = c]
                        /\ w = [x EXCEPT !.no = k]
  OBVIOUS
<1>2. /\ channelReq[r] = Channels!Idle /\ c \in Channels!Live
      /\ \/ /\ Channels!Commit("modify", c, v) /\ channelRows' = [channelRows EXCEPT ![c] = k]
            /\ Channels!Begin(r, w, Channels!About(c))
         \/ Channels!Begin(r, x, Channels!About(c)) /\ UNCHANGED <<channelRows, channelHistory>>
      /\ channelCrossed' = IF Channels!About(c) = {} THEN channelCrossed ELSE channelCrossed \cup {c}
      /\ UNCHANGED <<servers, room, opened, channelTold, channelLost, channelSilent>>
  BY <1>1 DEF Channels!UpdateChannel, Channels!Crossing
<1>3. MadeIn(c, v) /\ v \in servers /\ v \in Home /\ c \in Channel
  BY <1>1, <1>2, LiveChannel DEF ChannelInv, TableTypes
<1>4. CASE Channels!Commit("modify", c, v) /\ channelRows' = [channelRows EXCEPT ![c] = k]
           /\ Channels!Begin(r, w, Channels!About(c))
  <2>1. Changes("modify", c, v, k, k)
    BY <1>1, <1>2, <1>3, <1>4 DEF Changes
  <2>2. k \in Nat /\ ChannelReq \subseteq ChannelReq'
    BY <2>1, ChannelCommits DEF Grown
  <2>3. PICK i : i = Channels!Idle /\ i \in ChannelReq /\ i.session = NoTab /\ i.row = 0
    BY IdleIsChannelReq, IdleChannelReq DEF ChannelInv
  <2>4. /\ w \in ChannelReq' /\ w.at = "read" /\ w.server = v /\ w.channel = c /\ w.no = k /\ w.session = NoTab
    <3>1. x = [i EXCEPT !.at = "read", !.server = v, !.channel = c]
      BY <1>1, <2>3
    <3>2. i \in ChannelReq' /\ k \in 0..Len(channelHistory')
      BY <1>1, <2>2, <2>3
    <3>3. x \in ChannelReq' /\ x.at = "read" /\ x.server = v /\ x.channel = c /\ x.session = NoTab
      BY <1>3, <2>3, <3>1, <3>2 DEF ChannelReq
    <3> QED
      BY <1>1, <3>2, <3>3 DEF ChannelReq
  <2> QED
    BY <1>2, <1>4, <2>1, <2>4, ChannelCommitKeeps
<1>5. CASE Channels!Begin(r, x, Channels!About(c)) /\ UNCHANGED <<channelRows, channelHistory>>
  <2>1. PICK others, y : others = Channels!About(c) /\ y = [x EXCEPT !.alone = others = {}]
    OBVIOUS
  <2>2. Channels!Idle \in ChannelReq
    BY IdleIsChannelReq DEF ChannelInv
  <2>3. /\ y \in ChannelReq /\ y.at = "read" /\ y.server = v /\ y.channel = c /\ y.no = 0 /\ y.session = NoTab
        /\ y.alone = (others = {})
    BY <1>1, <1>3, <2>1, <2>2 DEF ChannelReq, Channels!Idle
  <2>4. Turns(r, y, others)
    BY <1>5, <2>1, <2>3, BeginTurns, SameReqType
  <2>5. Crosses(r, y, others)
    <3>1. y.channel \in Channel /\ ~y.alone => y.channel \in channelCrossed'
      <4>1. channelCrossed' = IF others = {} THEN channelCrossed ELSE channelCrossed \cup {c}
        BY <1>2, <2>1
      <4> QED
        BY <2>3, <4>1
    <3>2. ASSUME NEW q \in Request, q # r
          PROVE  /\ q \in others => channelReq[q].at # "idle" /\ channelReq[q].channel \in channelCrossed'
                 /\ Meets(channelReq[q], y) => q \in others
      <4>1. q \in others <=> channelReq[q].channel = c
        BY <2>1 DEF Channels!About
      <4>2. q \in others => channelReq[q].at # "idle" /\ c \in channelCrossed'
        BY <1>2, <2>1, <4>1, ChannelRequests
      <4> QED
        BY <2>3, <4>1, <4>2, ZeroAssumption DEF Meets
    <3>3. \A q \in Request : q # r /\ q \in others => ~y.alone
      BY <2>3
    <3> QED
      BY <1>5, <3>1, <3>2, <3>3, LastRowsStay DEF Crosses
  <2>6. ChannelReqOK(y) /\ Remembered(r, y)
    BY <1>2, <1>3, <2>3, IdleChannelReq DEF ChannelReqOK, Remembered
  <2>7. channelCrossed \subseteq channelCrossed' /\ channelCrossed' \subseteq Channel
        /\ channelSilent' \subseteq DOMAIN channelHistory
    BY <1>2 DEF ChannelInv, TableTypes
  <2> QED
    BY <1>2, <1>5, <2>3, <2>4, <2>5, <2>6, <2>7, ChannelTurnKeeps
<1> QED
  BY <1>2, <1>4, <1>5

LEMMA GetChannelsKeeps ==
  ASSUME ChannelInv, NEW r \in Request, NEW s \in Tab, NEW v \in Home, Channels!GetChannels(r, s, v)
  PROVE  ChannelInv'
<1>1. PICK others, page, x, y :
        /\ others = Channels!Of(s)
        /\ page = {[channel |-> c, row |-> channelRows[c]] : c \in Channels!Live \cap Channels!ChannelsOf(v)}
        /\ x = [Channels!Idle EXCEPT !.at = "subscribe", !.server = v, !.session = s,
                                     !.seen = Len(channelHistory), !.page = page]
        /\ y = [x EXCEPT !.alone = others = {}]
  OBVIOUS
<1>2. /\ channelReq[r] = Channels!Idle /\ Channels!Begin(r, x, others)
      /\ UNCHANGED <<channelRows, servers, channelHistory, room, opened, channelTold, channelLost,
                     channelSilent, channelCrossed>>
  BY <1>1 DEF Channels!GetChannels
<1>3. /\ TableTypes /\ Len(channelHistory) \in Nat /\ Len(channelHistory) <= MaxChannelChanges
      /\ MaxChannelChanges \in Nat
      /\ \A c \in Channel : channelRows[c] \in 0..Len(channelHistory) /\ (c \in Channels!Live <=> channelRows[c] # 0)
  BY ChannelFacts, ChannelBoundAssumption DEF ChannelInv, TableTypes
<1>4. page \in Channels!Page
  <2>1. ASSUME NEW c \in Channels!Live PROVE c \in Channel /\ channelRows[c] \in 1..MaxChannelChanges
    <3>1. c \in Channel
      BY DEF Channels!Live
    <3> QED
      BY <1>3, <3>1
  <2> QED
    BY <1>1, <2>1 DEF Channels!Page
<1>5. /\ y \in ChannelReq /\ y.at = "subscribe" /\ y.server = v /\ y.session = s /\ y.page = page /\ y.no = 0
      /\ y.channel = NoChannel /\ y.seen = Len(channelHistory) /\ y.alone = (others = {})
  <2>1. PICK i : i = Channels!Idle /\ i \in ChannelReq /\ i.channel = NoChannel /\ i.no = 0
    BY <1>3, IdleIsChannelReq, IdleChannelReq
  <2>2. x = [i EXCEPT !.at = "subscribe", !.server = v, !.session = s, !.seen = Len(channelHistory), !.page = page]
    BY <1>1, <2>1
  <2>3. Len(channelHistory) \in 0..Len(channelHistory)
    BY <1>3
  <2>4. /\ x \in ChannelReq /\ x.at = "subscribe" /\ x.server = v /\ x.session = s /\ x.page = page /\ x.no = 0
        /\ x.channel = NoChannel /\ x.seen = Len(channelHistory)
    BY <1>4, <2>1, <2>2, <2>3 DEF ChannelReq
  <2> QED
    BY <1>1, <2>4 DEF ChannelReq
<1>6. Turns(r, y, others)
  BY <1>1, <1>2, <1>5, BeginTurns, SameReqType
<1>7. Crosses(r, y, others)
  <2>1. ASSUME NEW q \in Request, q # r
        PROVE  /\ q \in others => channelReq[q].at # "idle" /\ channelReq[q].channel \notin Channel
               /\ Meets(channelReq[q], y) => q \in others
    <3>1. q \in others <=> channelReq[q].session = s
      BY <1>1 DEF Channels!Of
    <3>2. q \in others => channelReq[q].at \in {"subscribe", "answer"}
      BY <3>1, ChannelRequests
    <3>3. channelReq[q].channel \in Channel <=> channelReq[q].at \in {"read", "emit"}
      BY ChannelRequests
    <3> QED
      BY <1>5, <3>1, <3>2, <3>3, ZeroAssumption DEF Meets
  <2>2. \A q \in Request : q # r /\ q \in others => ~y.alone
    BY <1>5
  <2> QED
    BY <1>2, <1>5, <2>1, <2>2, ZeroAssumption, LastRowsStay DEF Crosses
<1>8. ChannelReqOK(y) /\ Remembered(r, y)
  BY <1>2, <1>5, IdleChannelReq DEF ChannelReqOK, Remembered
<1>9. Gathered(y)
  <2> SUFFICES ASSUME v \in servers PROVE Heard(y, <<>>, {}) /\ ListIsPresent(y)
    BY <1>5 DEF Gathered
  <2>1. Heard(y, <<>>, {})
    BY <1>3, <1>5, ChannelFacts DEF Heard
  <2>2. ASSUME NEW c \in Channel, MadeIn(c, v)
        PROVE  {e \in page : e.channel = c} =
                 IF LastRows[c] = 0 THEN {} ELSE {[channel |-> c, row |-> LastRows[c]]}
    <3>1. c \in Channels!ChannelsOf(v)
      BY <2>2, ServersOfChannels
    <3>2. channelRows[c] = LastRows[c]
      BY <2>2 DEF ChannelInv, RowsRemain
    <3> QED
      BY <1>1, <1>3, <3>1, <3>2
  <2> QED
    BY <1>3, <1>5, <2>1, <2>2 DEF ListIsPresent
<1>10. Gathered(y)'
  <2>1. TablesMove /\ NothingForgotten
    BY <1>2, <1>6, <1>8, TurnsForgetNothing, LastRowsStay DEF TablesMove
  <2> QED
    BY <1>2, <1>9, <2>1, GatheredStays DEF Gathered
<1>11. channelSilent' \subseteq DOMAIN channelHistory /\ channelCrossed' \subseteq Channel
  BY <1>2 DEF ChannelInv, TableTypes
<1> QED
  BY <1>2, <1>5, <1>6, <1>7, <1>8, <1>10, <1>11, ChannelTurnKeeps

LEMMA ReadChannelKeeps ==
  ASSUME ChannelInv, NEW r \in Request, Channels!ReadChannel(r)
  PROVE  ChannelInv'
<1>1. PICK x, c, y : x = channelReq[r] /\ c = x.channel
                     /\ y = [x EXCEPT !.at = "emit", !.row = channelRows[c]]
  OBVIOUS
<1>2. /\ x.at = "read" /\ c \in Channels!Live /\ channelReq' = [channelReq EXCEPT ![r] = y]
      /\ UNCHANGED <<channelRows, servers, channelHistory, room, opened, channelTold, channelLost,
                     channelSilent, channelCrossed>>
  BY <1>1 DEF Channels!ReadChannel
<1>3. /\ x \in ChannelReq /\ ChannelReqOK(x) /\ c \in Channel /\ LastRows[c] # 0
      /\ LastRows[c] \in 0..Len(channelHistory) /\ channelRows[c] = LastRows[c]
  BY <1>1, <1>2, ChannelRequests, LiveChannel DEF ChannelInv, TableTypes
<1>4. /\ y \in ChannelReq /\ y.at = "emit" /\ y.row = LastRows[c] /\ y.channel = c /\ y.session = x.session
      /\ y.no = x.no /\ y.server = x.server /\ y.alone = x.alone
  BY <1>1, <1>3 DEF ChannelReq
<1>5. ChannelReqOK(y)
  <2>1. x.no # 0 => x.no <= LastRows[c]
    BY <1>1, <1>2, <1>3 DEF ChannelReqOK, ChannelInv, ChannelsCurrent
  <2>2. x.no = 0 => x.no <= LastRows[c]
    BY <1>3, ChannelFacts DEF ChannelInv
  <2> QED
    BY <1>1, <1>2, <1>3, <1>4, <2>1, <2>2 DEF ChannelReqOK
<1>6. Turns(r, y, {})
  BY <1>2, <1>4, RequestTurns, SameReqType
<1>7. Crosses(r, y, {}) /\ Remembered(r, y)
  BY <1>1, <1>2, <1>4, GoesOnCrosses, LastRowsStay DEF Remembered
<1>8. channelSilent' \subseteq DOMAIN channelHistory /\ channelCrossed' \subseteq Channel
  BY <1>2 DEF ChannelInv, TableTypes
<1> QED
  BY <1>2, <1>4, <1>5, <1>6, <1>7, <1>8, ChannelTurnKeeps

LEMMA ChannelFailKeeps ==
  ASSUME ChannelInv, NEW r \in Request, Channels!Fail(r)
  PROVE  ChannelInv'
<1>1. PICK x, y : x = channelReq[r] /\ y = Channels!Idle
  OBVIOUS
<1>2. /\ channelReq' = [channelReq EXCEPT ![r] = y] /\ channelSilent' = channelSilent \cup ({x.no} \ {0})
      /\ x.at \in {"read", "subscribe"}
      /\ UNCHANGED <<channelRows, servers, channelHistory, room, opened, channelTold, channelLost,
                     channelCrossed>>
  BY <1>1 DEF Channels!Fail, Channels!Answer
<1>3. /\ x \in ChannelReq /\ ChannelReqOK(x) /\ y \in ChannelReq /\ ChannelReqOK(y) /\ y.at = "idle"
  BY <1>1, ChannelRequests, IdleIsChannelReq, IdleChannelReq DEF ChannelInv
<1>4. Turns(r, y, {})
  BY <1>2, <1>3, RequestTurns, SameReqType
<1>5. Crosses(r, y, {}) /\ Remembered(r, y)
  BY <1>1, <1>2, GoesOnCrosses, LastRowsStay DEF Remembered
<1>6. channelSilent' \subseteq DOMAIN channelHistory /\ channelCrossed' \subseteq Channel
      /\ channelSilent \subseteq channelSilent'
  <2>1. x.no = 0 \/ x.no \in DOMAIN channelHistory
    BY <1>2, <1>3, ChannelFacts DEF ChannelReqOK, ChannelInv
  <2> QED
    BY <1>2, <2>1 DEF ChannelInv, TableTypes
<1> QED
  BY <1>2, <1>3, <1>4, <1>5, <1>6, ChannelTurnKeeps

(* The tab of request r's session moves: it shows no list, or the one of r.*)
LEMMA TabTurnKeeps ==
  ASSUME ChannelInv, NEW r \in Request, NEW x, x = channelReq[r], x.at \in {"subscribe", "answer"},
         NEW y, Turns(r, y, {}), y \in ChannelReq, ChannelReqOK(y), y.at \in {"idle", "answer"},
         y.at = "idle" => y = Channels!Idle,
         y.at = "answer" => y.session = x.session /\ y.channel = x.channel /\ y.alone = x.alone,
         \A s \in Tab : s # x.session =>
           /\ opened'[s] = opened[s] /\ channelTold'[s] = channelTold[s]
           /\ channelLost'[s] = channelLost[s] /\ room'[s] = room[s],
         TabTypes',
         \A p \in {opened'[x.session]} : p.server # NoServer /\ p.alone => Follows(x.session, p)',
         y.at = "answer" /\ y.alone => Follows(y.session, y)',
         UNCHANGED <<channelHistory, channelRows, servers, channelSilent, channelCrossed>>
  PROVE  ChannelInv'
<1>1. ChannelReqOK(x) /\ x.session \in Tab /\ x.channel = NoChannel /\ x.no = 0
  BY ChannelRequests DEF ChannelReqOK
<1>2. Crosses(r, y, {}) /\ Remembered(r, y)
  BY <1>1, GoesOnCrosses, LastRowsStay DEF Remembered
<1>3. TablesMove /\ NothingForgotten
  BY <1>2, TurnsForgetNothing, LastRowsStay DEF TablesMove
<1>4. ChannelReqOK(y)'
  BY LastRowsStay DEF ChannelReqOK, MadeIn, Channels!ChangesOf
<1>5. ChannelCrossings' /\ \A q \in Request : \A z \in {channelReq'[q]} : ChannelReqOK(z)'
  BY <1>2, <1>3, <1>4, TurnKeeps
<1>6. ASSUME NEW s \in Tab, NEW p \in {opened'[s]}, p.server # NoServer, p.alone PROVE Follows(s, p)'
  <2>1. CASE s = x.session
    BY <1>6, <2>1
  <2>2. CASE s # x.session
    <3>1. /\ p = opened[s] /\ channelTold'[s] = channelTold[s] /\ channelLost'[s] = channelLost[s]
          /\ room'[s] = room[s]
      BY <1>6, <2>2
    <3>2. Follows(s, p)
      BY <1>6, <3>1 DEF ChannelInv, ListsFollow
    <3> QED
      BY <1>3, <3>1, <3>2, FollowsStays
  <2> QED
    BY <2>1, <2>2
<1>7. ASSUME NEW q \in Request, NEW p \in {channelReq'[q]}
      PROVE  (p.at = "subscribe" => Gathered(p)') /\ (p.at = "answer" /\ p.alone => Follows(p.session, p)')
  <2>1. CASE q = r
    BY <1>7, <2>1 DEF Turns
  <2>2. CASE q # r
    <3>1. p = channelReq[q]
      BY <1>7, <2>2 DEF Turns
    <3>2. p.at = "subscribe" => Gathered(p)'
      BY <1>3, <3>1, GatheredStays DEF ChannelInv, ListsFollow, Gathered, TablesMove
    <3>3. ASSUME p.at = "answer", p.alone PROVE Follows(p.session, p)'
      <4>1. Follows(p.session, p) /\ p.session \in Tab
        BY <3>1, <3>3, ChannelRequests DEF ChannelInv, ListsFollow
      <4>2. p.session # x.session
        BY <1>1, <2>2, <3>1, <3>3 DEF ChannelInv, ChannelCrossings
      <4> QED
        BY <1>3, <4>1, <4>2, FollowsStays
    <3> QED
      BY <3>2, <3>3
  <2> QED
    BY <2>1, <2>2
<1>8. ListsFollow'
  BY <1>6, <1>7 DEF ListsFollow
<1>9. TableTypes' /\ ChannelsCurrent' /\ RowsRemain'
  BY LastRowsStay, TablesRest DEF ChannelInv, TableTypes, Turns
<1> QED
  BY <1>5, <1>8, <1>9 DEF ChannelInv

LEMMA SetServerKeeps ==
  ASSUME ChannelInv, NEW r \in Request, Channels!SetServer(r)
  PROVE  ChannelInv'
<1>1. PICK x, y, s : x = channelReq[r] /\ y = [x EXCEPT !.at = "answer"] /\ s = x.session
  OBVIOUS
<1>2. /\ x.at = "subscribe" /\ channelReq' = [channelReq EXCEPT ![r] = y]
      /\ room' = [room EXCEPT ![s] = x.server] /\ opened' = [opened EXCEPT ![s] = Channels!NotOpen]
      /\ channelTold' = [channelTold EXCEPT ![s] = <<>>] /\ channelLost' = [channelLost EXCEPT ![s] = {}]
      /\ UNCHANGED <<channelHistory, channelRows, servers, channelSilent, channelCrossed>>
  BY <1>1 DEF Channels!SetServer
<1>3. /\ x \in ChannelReq /\ ChannelReqOK(x) /\ s \in Tab /\ x.server \in Home \cup {NoServer}
  BY <1>1, <1>2, ChannelRequests DEF ChannelReqOK, ChannelReq
<1>4. /\ y \in ChannelReq /\ y.at = "answer" /\ y.session = s /\ y.channel = x.channel /\ y.no = x.no
      /\ y.alone = x.alone /\ y.server = x.server /\ SameList(y, x)
  BY <1>1, <1>3 DEF ChannelReq, SameList
<1>5. ChannelReqOK(y)
  BY <1>1, <1>2, <1>3, <1>4 DEF ChannelReqOK
<1>6. Turns(r, y, {})
  BY <1>2, <1>4, RequestTurns, SameReqType
<1>7. /\ room'[s] = x.server /\ channelTold'[s] = <<>> /\ channelLost'[s] = {} /\ opened'[s] = Channels!NotOpen
      /\ \A t \in Tab : t # s =>
           /\ opened'[t] = opened[t] /\ channelTold'[t] = channelTold[t]
           /\ channelLost'[t] = channelLost[t] /\ room'[t] = room[t]
  BY <1>2, <1>3 DEF ChannelInv, TabTypes
<1>8. TabTypes'
  <2>1. Channels!NotOpen \in OpenList /\ OpenList' = OpenList
    <3>1. Len(channelHistory) \in Nat
      BY ChannelFacts DEF ChannelInv
    <3> QED
      BY <1>2, <3>1, SameReqType DEF Channels!NotOpen, OpenList, Channels!Page
  <2>2. <<>> \in Seq(Channels!Event)
    BY EmptySeq
  <2> QED
    BY <1>2, <1>3, <2>1, <2>2 DEF ChannelInv, TabTypes
<1>9. Follows(s, y)'
  <2>1. Gathered(x)'
    <3>1. Gathered(x)
      BY <1>1, <1>2 DEF ChannelInv, ListsFollow
    <3>2. TablesMove /\ NothingForgotten
      <4>1. Remembered(r, y)
        BY <1>1, <1>4 DEF Remembered
      <4> QED
        BY <1>2, <1>6, <4>1, TurnsForgetNothing, LastRowsStay DEF TablesMove
    <3> QED
      BY <1>2, <3>1, <3>2, GatheredStays DEF Gathered
  <2>2. \A c : LastTells(<<>>, c)'
    BY EmptySeq DEF LastTells, LastIn
  <2>3. x.server \in servers' => Heard(x, <<>>, {})' /\ ListIsPresent(x)'
    BY <2>1 DEF Gathered
  <2>4. x.server \in servers' => Adds(x, <<>>, {})'
    BY <2>2, <2>3 DEF Adds
  <2>5. Follows(s, x)'
    BY <1>7, <2>4 DEF Follows
  <2> QED
    BY <1>4, <2>5, SameListFollows
<1>10. \A p \in {opened'[x.session]} : p.server # NoServer /\ p.alone => Follows(x.session, p)'
  BY <1>1, <1>7 DEF Channels!NotOpen
<1>11. y.at = "answer" /\ y.alone => Follows(y.session, y)'
  BY <1>4, <1>9
<1>12. \A t \in Tab : t # x.session =>
         /\ opened'[t] = opened[t] /\ channelTold'[t] = channelTold[t]
         /\ channelLost'[t] = channelLost[t] /\ room'[t] = room[t]
  BY <1>1, <1>7
<1>13. /\ x = channelReq[r] /\ x.at \in {"subscribe", "answer"} /\ y \in ChannelReq /\ y.at \in {"idle", "answer"}
       /\ y.at = "idle" => y = Channels!Idle
       /\ y.at = "answer" => y.session = x.session /\ y.channel = x.channel /\ y.alone = x.alone
       /\ UNCHANGED <<channelHistory, channelRows, servers, channelSilent, channelCrossed>>
  BY <1>1, <1>2, <1>4
<1> QED
  BY <1>5, <1>6, <1>8, <1>10, <1>11, <1>12, <1>13, TabTurnKeeps

LEMMA AnswerChannelsKeeps ==
  ASSUME ChannelInv, NEW r \in Request, Channels!AnswerChannels(r)
  PROVE  ChannelInv'
<1>1. PICK x, y, s, l :
        /\ x = channelReq[r] /\ y = Channels!Idle /\ s = x.session
        /\ l = [server |-> x.server, page |-> x.page, seen |-> x.seen, gap |-> x.gap, alone |-> x.alone]
  OBVIOUS
<1>2. /\ x.at = "answer" /\ channelReq' = [channelReq EXCEPT ![r] = y] /\ opened' = [opened EXCEPT ![s] = l]
      /\ UNCHANGED <<channelHistory, channelRows, servers, channelSilent, channelCrossed, room, channelTold,
                     channelLost>>
  BY <1>1 DEF Channels!AnswerChannels, Channels!Answer
<1>3. /\ x \in ChannelReq /\ ChannelReqOK(x) /\ s \in Tab /\ y \in ChannelReq /\ ChannelReqOK(y) /\ y.at = "idle"
  BY <1>1, <1>2, ChannelRequests, IdleIsChannelReq, IdleChannelReq DEF ChannelReqOK, ChannelInv
<1>4. l \in OpenList /\ SameList(l, x) /\ l.alone = x.alone
  BY <1>1, <1>3 DEF OpenList, ChannelReq, SameList
<1>5. Turns(r, y, {})
  BY <1>2, <1>3, RequestTurns, SameReqType
<1>6. /\ opened'[s] = l /\ \A t \in Tab : t # s => opened'[t] = opened[t]
  BY <1>2, <1>3 DEF ChannelInv, TabTypes
<1>7. TabTypes'
  BY <1>2, <1>4, SameReqType DEF ChannelInv, TabTypes
<1>8. l.alone => Follows(s, l)'
  <2>1. x.alone => Follows(s, x)
    BY <1>1, <1>2 DEF ChannelInv, ListsFollow
  <2>2. TablesMove /\ NothingForgotten
    <3>1. Remembered(r, y)
      BY <1>1, <1>2, <1>3 DEF Remembered, ChannelReqOK
    <3> QED
      BY <1>2, <1>5, <3>1, TurnsForgetNothing, LastRowsStay DEF TablesMove
  <2>3. x.alone => Follows(s, x)'
    BY <1>2, <2>1, <2>2, FollowsStays
  <2> QED
    BY <1>4, <2>3, SameListFollows
<1>9. \A p \in {opened'[x.session]} : p.server # NoServer /\ p.alone => Follows(x.session, p)'
  BY <1>1, <1>6, <1>8
<1> QED
  BY <1>1, <1>2, <1>3, <1>5, <1>6, <1>7, <1>9, TabTurnKeeps

LEMMA ListsRest ==
  ASSUME ChannelInv, TablesMove, NothingForgotten,
         UNCHANGED <<channelReq, room, opened, channelTold, channelLost, channelCrossed>>
  PROVE  ListsFollow'
<1>1. ASSUME NEW s \in Tab, NEW p \in {opened'[s]}, p.server # NoServer, p.alone PROVE Follows(s, p)'
  BY <1>1, FollowsStays DEF ChannelInv, ListsFollow
<1>2. ASSUME NEW q \in Request, NEW p \in {channelReq'[q]}
      PROVE  (p.at = "subscribe" => Gathered(p)') /\ (p.at = "answer" /\ p.alone => Follows(p.session, p)')
  <2>1. p.at = "subscribe" => Gathered(p)'
    BY <1>2, GatheredStays DEF ChannelInv, ListsFollow, Gathered, TablesMove
  <2>2. p.at = "answer" /\ p.alone => Follows(p.session, p) /\ p.session \in Tab
    BY <1>2, ChannelRequests DEF ChannelInv, ListsFollow
  <2>3. p.at = "answer" /\ p.alone => Follows(p.session, p)'
    BY <2>2, FollowsStays
  <2> QED
    BY <2>1, <2>3
<1> QED
  BY <1>1, <1>2 DEF ListsFollow

(***************************************************************************)
(* ChannelList: EmitToRoom                                                 *)
(***************************************************************************)
LEMMA ChannelTell == \A T, e : Channels!Tell(T, e) = Tell(T, e)
BY DEF Channels!Tell, Tell

LEMMA EmitToRoomKeeps ==
  ASSUME ChannelInv, NEW r \in Request, NEW full \in SUBSET Tab, Channels!EmitToRoom(r, full)
  PROVE  ChannelInv'
<1>1. PICK x, c, e :
        x = channelReq[r] /\ c = x.channel /\ e = [channel |-> c, row |-> x.row]
  OBVIOUS
<1>2. /\ x.at = "emit"
      /\ channelTold' = [s \in Tab |->
           IF room[s] = x.server /\ s \notin full THEN Tell(channelTold[s], e) ELSE channelTold[s]]
      /\ channelLost' = [s \in Tab |->
           IF room[s] = x.server /\ s \in full THEN channelLost[s] \cup {c}
           ELSE IF room[s] = x.server /\ x.alone THEN channelLost[s] \ {c}
           ELSE channelLost[s]]
      /\ channelReq' = [q \in Request |->
           IF q = r THEN Channels!Idle
           ELSE IF channelReq[q].at = "subscribe" THEN [channelReq[q] EXCEPT !.gap = channelReq[q].gap \cup {c}]
           ELSE channelReq[q]]
      /\ channelCrossed' = IF x.alone /\ x.row # 0 THEN channelCrossed \ {c} ELSE channelCrossed
      /\ UNCHANGED <<channelRows, servers, channelHistory, room, opened, channelSilent>>
  BY <1>1, ChannelTell DEF Channels!EmitToRoom
<1>3. /\ x \in ChannelReq /\ c \in Channel /\ x.session = NoTab /\ MadeIn(c, x.server)
      /\ x.no # 0 => x.no \in Channels!ChangesOf(c)
      /\ x.row = 0 \/ x.no <= x.row
      /\ x.alone => x.row = LastRows[c]
  BY <1>1, <1>2, ChannelRequests DEF ChannelReqOK
<1>4. e \in Channels!Event /\ e.channel = c /\ e.row = x.row
  <2>1. Len(channelHistory) \in Nat /\ Len(channelHistory) <= MaxChannelChanges /\ MaxChannelChanges \in Nat
        /\ x.row \in 0..Len(channelHistory)
    BY <1>3, ChannelFacts, ChannelBoundAssumption DEF ChannelInv, TableTypes, ChannelReq
  <2> QED
    BY <1>1, <1>3, <2>1 DEF Channels!Event
<1>5. channelReq'[r] = Channels!Idle /\ Channels!Idle \in ChannelReq /\ ChannelReqOK(Channels!Idle)
  BY <1>2, IdleIsChannelReq DEF ChannelInv
<1>6. ASSUME NEW q \in Request, q # r, NEW z, z = channelReq[q], NEW p, p = channelReq'[q]
      PROVE  /\ z \in ChannelReq /\ ChannelReqOK(z) /\ p \in ChannelReq
             /\ p.at = z.at /\ p.channel = z.channel /\ p.session = z.session /\ p.no = z.no
             /\ p.alone = z.alone /\ p.server = z.server /\ p.page = z.page /\ p.seen = z.seen
             /\ z.at # "subscribe" => p = z
             /\ z.at = "subscribe" => p.gap = z.gap \cup {c}
  <2>1. z \in ChannelReq /\ ChannelReqOK(z)
    BY <1>6, ChannelRequests
  <2>2. p = IF z.at = "subscribe" THEN [z EXCEPT !.gap = z.gap \cup {c}] ELSE z
    BY <1>2, <1>6
  <2>3. CASE z.at = "subscribe"
    <3>1. p = [z EXCEPT !.gap = z.gap \cup {c}]
      BY <2>2, <2>3
    <3> QED
      BY <1>3, <2>1, <2>3, <3>1 DEF ChannelReq
  <2>4. CASE z.at # "subscribe"
    BY <2>1, <2>2, <2>4
  <2> QED
    BY <2>3, <2>4
<1>7. channelCrossed' \subseteq channelCrossed /\ channelCrossed \subseteq channelCrossed' \cup {c}
      /\ (c \notin channelCrossed' => x.alone)
      /\ (~x.alone => channelCrossed' = channelCrossed)
  BY <1>1, <1>2, <1>3 DEF ChannelInv, ChannelCrossings
<1>8. /\ \A d : Channels!ChangesOf(d)' = Channels!ChangesOf(d) /\ \A v : MadeIn(d, v)' <=> MadeIn(d, v)
      /\ LastRows' = LastRows
  BY <1>2, LastRowsStay DEF MadeIn, Channels!ChangesOf
<1>9. ASSUME NEW d, NEW n, n # 0, Pending(d, n) PROVE (d = c /\ n = x.no) \/ Pending(d, n)'
  <2>1. PICK q \in Request : channelReq[q].channel = d /\ channelReq[q].no = n
    BY <1>9 DEF Pending
  <2> QED
    BY <1>1, <1>6, <2>1 DEF Pending
<1>10. ASSUME NEW s \in Tab
       PROVE  /\ channelTold[s] \in Seq(Channels!Event) /\ channelTold'[s] \in Seq(Channels!Event)
              /\ channelTold'[s] = channelTold[s] \/ Gains(channelTold[s], e, channelTold'[s])
              /\ room[s] = x.server /\ s \notin full =>
                   /\ Gains(channelTold[s], e, channelTold'[s])
                   /\ \A y : LastIn(channelTold'[s], EventsFor(c), y) => y = e
              /\ \A d : d # c =>
                   \A y : LastIn(channelTold'[s], EventsFor(d), y) => LastIn(channelTold[s], EventsFor(d), y)
  <2>1. channelTold[s] \in Seq(Channels!Event)
    BY DEF ChannelInv, TabTypes
  <2>2. CASE room[s] = x.server /\ s \notin full
    <3>1. PICK T, U : T = channelTold[s] /\ U = channelTold'[s] /\ U = Tell(T, e) /\ T \in Seq(Channels!Event)
      BY <1>2, <2>1, <2>2
    <3>2. U \in Seq(Channels!Event) /\ Gains(T, e, U)
      BY <1>4, <3>1, TellFacts
    <3>3. LastIn(U, EventsFor(c), e)
      <4>1. e \in EventsFor(c)
        BY <1>4 DEF EventsFor
      <4> QED
        BY <1>4, <3>1, <4>1, TellLast
    <3>4. \A y : LastIn(U, EventsFor(c), y) => y = e
      BY <3>2, <3>3, OneIsLast
    <3>5. ASSUME NEW d, d # c, NEW y, LastIn(U, EventsFor(d), y) PROVE LastIn(T, EventsFor(d), y)
      <4>1. e \notin EventsFor(d)
        BY <1>4, <3>5 DEF EventsFor
      <4> QED
        BY <1>4, <3>1, <3>5, <4>1, TellKeepsLast
    <3> QED
      BY <3>1, <3>2, <3>4, <3>5
  <2>3. CASE ~(room[s] = x.server /\ s \notin full)
    <3>1. channelTold'[s] = channelTold[s]
      BY <1>2, <2>3
    <3> QED
      BY <2>1, <2>3, <3>1
  <2> QED
    BY <2>2, <2>3
(* A list that was answered, or will be.                                   *)
<1>11. ASSUME NEW s \in Tab, NEW p, Follows(s, p) PROVE Follows(s, p)'
  <2>1. PICK T, U, L, M :
          T = channelTold[s] /\ U = channelTold'[s] /\ L = channelLost[s] /\ M = channelLost'[s]
    OBVIOUS
  <2> SUFFICES ASSUME p.server \in servers PROVE Adds(p, U, M)'
    BY <1>2, <1>11, <2>1 DEF Follows
  <2>2. /\ room[s] = p.server /\ ListIsPresent(p) /\ Heard(p, T, L)
        /\ \A d \in Channel : MadeIn(d, p.server) /\ d \notin L => LastTells(T, d)
    BY <1>11, <2>1 DEF Follows, Adds
  <2>3. /\ MadeIn(c, p.server) => room[s] = x.server
        /\ M = IF room[s] = x.server /\ s \in full THEN L \cup {c}
               ELSE IF room[s] = x.server /\ x.alone THEN L \ {c} ELSE L
    BY <1>2, <1>3, <2>1, <2>2, ServersOfChannels
  <2>4. Heard(p, U, M)'
    <3> SUFFICES ASSUME NEW d \in Channel, MadeIn(d, p.server), NEW n \in Channels!ChangesOf(d), d \notin M
                 PROVE  \/ n <= p.seen \/ n \in channelSilent \/ d \in p.gap
                        \/ \E i \in DOMAIN U : U[i].channel = d /\ (U[i].row >= n \/ U[i].row = 0)
                        \/ Pending(d, n)'
      BY <1>2, <1>8 DEF Heard
    <3>1. n # 0
      BY ChannelFacts DEF ChannelInv
    <3>2. \/ n <= p.seen \/ n \in channelSilent \/ d \in p.gap \/ d \in L
          \/ \E i \in DOMAIN T : T[i].channel = d /\ (T[i].row >= n \/ T[i].row = 0)
          \/ Pending(d, n)
      BY <2>2 DEF Heard
    <3>3. CASE \E i \in DOMAIN T : T[i].channel = d /\ (T[i].row >= n \/ T[i].row = 0)
      <4>1. U = T \/ Gains(T, e, U)
        BY <1>10, <2>1
      <4> QED
        BY <3>3, <4>1 DEF Gains
    <3>4. CASE d = c /\ (n = x.no \/ d \in L)
      <4>1. room[s] = x.server /\ s \notin full /\ (d \in L => x.alone)
        BY <2>3, <3>4
      <4>2. Gains(T, e, U)
        BY <1>10, <2>1, <4>1
      <4>3. PICK i \in DOMAIN U : U[i] = e
        BY <4>2 DEF Gains
      <4>4. e.row = 0 \/ e.row >= n
        <5>1. x.row \in Nat /\ n \in Nat
          BY <1>3, ChannelFacts DEF ChannelInv, ChannelReq
        <5>2. CASE n = x.no
          BY <1>3, <1>4, <5>1, <5>2
        <5>3. CASE d \in L
          <6>1. x.row = LastRows[c] /\ n \in Channels!ChangesOf(c)
            BY <1>3, <3>4, <4>1, <5>3
          <6>2. x.row = 0 \/ n <= x.row
            BY <1>3, <6>1 DEF ChannelInv, ChannelsCurrent
          <6> QED
            BY <1>4, <5>1, <6>2
        <5> QED
          BY <3>4, <5>2, <5>3
      <4> QED
        BY <1>4, <3>4, <4>3, <4>4
    <3>5. d \in L => d = c
      BY <2>3
    <3> QED
      BY <1>9, <3>1, <3>2, <3>3, <3>4, <3>5
  <2>5. ListIsPresent(p)'
    BY <1>2, <1>8, <2>2 DEF ListIsPresent
  <2>6. ASSUME NEW d \in Channel, MadeIn(d, p.server), d \notin M PROVE LastTells(U, d)'
    <3> SUFFICES ASSUME d \notin channelCrossed', NEW y \in Channels!Event, LastIn(U, EventsFor(d), y)
                 PROVE  \/ y.row = LastRows[d]
                        \/ \E n \in Channels!ChangesOf(d) : n \in channelSilent \/ Pending(d, n)'
      BY <1>2, <1>8 DEF LastTells, LastIn, EventsFor, Channels!Event
    <3>1. CASE d = c
      <4>1. room[s] = x.server /\ s \notin full
        BY <2>3, <2>6, <3>1
      <4>2. y = e
        BY <1>10, <2>1, <3>1, <4>1
      <4> QED
        BY <1>3, <1>4, <1>7, <3>1, <4>2
    <3>2. CASE d # c
      <4>1. d \notin channelCrossed /\ LastIn(T, EventsFor(d), y) /\ d \notin L
        BY <1>7, <1>10, <2>1, <2>3, <2>6, <3>2
      <4>2. LastTells(T, d)
        BY <2>2, <2>6, <4>1
      <4>3. y.row = LastRows[d] \/ \E n \in Channels!ChangesOf(d) : n \in channelSilent \/ Pending(d, n)
        BY <4>1, <4>2 DEF LastTells
      <4>4. \A n \in Channels!ChangesOf(d) : n # 0
        BY ChannelFacts DEF ChannelInv
      <4> QED
        BY <1>9, <3>2, <4>3, <4>4
    <3> QED
      BY <3>1, <3>2
  <2> QED
    BY <1>8, <2>4, <2>5, <2>6 DEF Adds
(* A list that was read and whose session has not been moved yet.          *)
<1>12. ASSUME NEW z, Gathered(z), NEW p, p.server = z.server, p.page = z.page, p.seen = z.seen,
              p.gap = z.gap \cup {c}
       PROVE  Gathered(p)'
  <2> SUFFICES ASSUME z.server \in servers PROVE Heard(p, <<>>, {})' /\ ListIsPresent(p)'
    BY <1>2, <1>12 DEF Gathered
  <2>1. Heard(z, <<>>, {}) /\ ListIsPresent(z)
    BY <1>12 DEF Gathered
  <2>2. Heard(p, <<>>, {})'
    <3> SUFFICES ASSUME NEW d \in Channel, MadeIn(d, p.server), NEW n \in Channels!ChangesOf(d)
                 PROVE  n <= p.seen \/ n \in channelSilent \/ d \in p.gap \/ Pending(d, n)'
      BY <1>2, <1>8 DEF Heard
    <3>1. n # 0
      BY ChannelFacts DEF ChannelInv
    <3>2. n <= z.seen \/ n \in channelSilent \/ d \in z.gap \/ Pending(d, n)
      BY <1>12, <2>1, EmptySeq DEF Heard
    <3> QED
      BY <1>9, <1>12, <3>1, <3>2
  <2>3. ListIsPresent(p)'
    BY <1>2, <1>8, <1>12, <2>1 DEF ListIsPresent
  <2> QED
    BY <2>2, <2>3
<1>13. ListsFollow'
  <2>1. ASSUME NEW s \in Tab, NEW p \in {opened'[s]}, p.server # NoServer, p.alone PROVE Follows(s, p)'
    BY <1>2, <1>11, <2>1 DEF ChannelInv, ListsFollow
  <2>2. ASSUME NEW q \in Request, NEW p \in {channelReq'[q]}
        PROVE  (p.at = "subscribe" => Gathered(p)') /\ (p.at = "answer" /\ p.alone => Follows(p.session, p)')
    <3>1. CASE q = r
      BY <1>5, <2>2, <3>1, IdleChannelReq
    <3>2. CASE q # r
      <4>1. PICK z : z = channelReq[q]
        OBVIOUS
      <4>2. z.at = "subscribe" => Gathered(z)
        BY <4>1 DEF ChannelInv, ListsFollow
      <4>3. z.at = "answer" /\ z.alone => Follows(z.session, z) /\ z.session \in Tab
        BY <4>1, ChannelRequests DEF ChannelInv, ListsFollow
      <4>4. /\ p.at = z.at /\ p.server = z.server /\ p.page = z.page /\ p.seen = z.seen
            /\ z.at # "subscribe" => p = z
            /\ z.at = "subscribe" => p.gap = z.gap \cup {c}
        BY <1>6, <2>2, <3>2, <4>1
      <4> QED
        BY <1>11, <1>12, <4>2, <4>3, <4>4
    <3> QED
      BY <3>1, <3>2
  <2> QED
    BY <2>1, <2>2 DEF ListsFollow
<1>14. \A q \in Request : \A p \in {channelReq'[q]} : ChannelReqOK(p)'
  <2>1. ASSUME NEW p, ChannelReqOK(p) PROVE ChannelReqOK(p)'
    BY <1>2, <1>8, <2>1 DEF ChannelReqOK
  <2>2. ASSUME NEW q \in Request, NEW p \in {channelReq'[q]} PROVE ChannelReqOK(p)
    <3>1. CASE q = r
      BY <1>5, <2>2, <3>1
    <3>2. CASE q # r
      <4>1. PICK z : z = channelReq[q]
        OBVIOUS
      <4>2. /\ ChannelReqOK(z) /\ p.at = z.at /\ p.channel = z.channel /\ p.session = z.session /\ p.no = z.no
            /\ z.at # "subscribe" => p = z
        BY <1>6, <2>2, <3>2, <4>1
      <4> QED
        BY <4>2 DEF ChannelReqOK
    <3> QED
      BY <3>1, <3>2
  <2> QED
    BY <2>1, <2>2
<1>15. ChannelCrossings'
  <2>1. ASSUME NEW q \in Request
        PROVE  /\ q # r => /\ channelReq'[q].channel = channelReq[q].channel
                           /\ channelReq'[q].session = channelReq[q].session
                           /\ channelReq'[q].alone = channelReq[q].alone
               /\ q = r => channelReq'[q].channel = NoChannel /\ channelReq'[q].session = NoTab
    BY <1>5, <1>6, IdleChannelReq
  <2>2. ASSUME NEW q \in Request, channelReq'[q].channel \in Channel, ~channelReq'[q].alone
        PROVE  channelReq'[q].channel \in channelCrossed'
    <3>1. q # r /\ channelReq[q].channel \in channelCrossed
      BY <2>1, <2>2, ZeroAssumption DEF ChannelInv, ChannelCrossings
    <3>2. CASE channelReq[q].channel = c
      <4>1. ~x.alone
        BY <1>1, <1>3, <3>1, <3>2 DEF ChannelInv, ChannelCrossings
      <4> QED
        BY <1>7, <2>1, <3>1, <4>1
    <3>3. CASE channelReq[q].channel # c
      BY <1>7, <2>1, <3>1, <3>3
    <3> QED
      BY <3>2, <3>3
  <2>3. ASSUME NEW q \in Request, NEW t \in Request, q # t,
               \/ channelReq'[q].channel \in Channel /\ channelReq'[q].channel = channelReq'[t].channel
               \/ channelReq'[q].session \in Tab /\ channelReq'[q].session = channelReq'[t].session
        PROVE  ~channelReq'[q].alone
    <3>1. q # r /\ t # r
      BY <2>1, <2>3, ZeroAssumption
    <3> QED
      BY <2>1, <2>3, <3>1 DEF ChannelInv, ChannelCrossings
  <2> QED
    BY <2>2, <2>3 DEF ChannelCrossings
<1>16. TableTypes' /\ TabTypes'
  <2>1. channelReq' \in [Request -> ChannelReq]
    <3>1. \A q \in Request : channelReq'[q] \in ChannelReq
      BY <1>5, <1>6
    <3> QED
      BY <1>2, <3>1
  <2>2. channelTold' \in [Tab -> Seq(Channels!Event)]
    <3>1. \A s \in Tab : channelTold'[s] \in Seq(Channels!Event)
      BY <1>10
    <3> QED
      BY <1>2, <3>1
  <2>3. ChannelReq' = ChannelReq /\ OpenList' = OpenList
    BY <1>2, SameReqType
  <2>4. channelCrossed' \subseteq Channel
    BY <1>7 DEF ChannelInv, TableTypes
  <2>5. channelLost' \in [Tab -> SUBSET Channel]
    BY <1>2, <1>3 DEF ChannelInv, TabTypes
  <2> QED
    BY <1>2, <1>8, <2>1, <2>2, <2>3, <2>4, <2>5 DEF ChannelInv, TableTypes, TabTypes
<1>17. ChannelsCurrent' /\ RowsRemain'
  BY <1>2, TablesRest DEF ChannelInv
<1> QED
  BY <1>13, <1>14, <1>15, <1>16, <1>17 DEF ChannelInv

(* Servers go, and the rows of their channels with them.                   *)
LEMMA CascadeDeleteKeeps ==
  ASSUME ChannelInv, NEW V \in SUBSET Home, Channels!CascadeDelete(V)
  PROVE  ChannelInv'
<1>1. /\ servers' = servers \ V
      /\ channelRows' = [c \in Channel |->
           IF \E v \in V : c \in Channels!ChannelsOf(v) THEN 0 ELSE channelRows[c]]
      /\ UNCHANGED <<channelHistory, channelReq, room, opened, channelTold, channelLost,
                     channelSilent, channelCrossed>>
  BY DEF Channels!CascadeDelete
<1>2. /\ \A d : Channels!ChangesOf(d)' = Channels!ChangesOf(d) /\ \A v : MadeIn(d, v)' <=> MadeIn(d, v)
      /\ LastRows' = LastRows
  BY <1>1, LastRowsStay DEF MadeIn, Channels!ChangesOf
<1>3. TableTypes' /\ TabTypes'
  <2>1. 0 \in 0..Len(channelHistory)
    BY ChannelFacts DEF ChannelInv
  <2>2. channelRows' \in [Channel -> 0..Len(channelHistory)]
    BY <1>1, <2>1 DEF ChannelInv, TableTypes
  <2> QED
    BY <1>1, <1>2, <2>2, SameReqType DEF ChannelInv, TableTypes, TabTypes
<1>4. ChannelsCurrent' /\ ChannelCrossings' /\ \A q \in Request : \A x \in {channelReq'[q]} : ChannelReqOK(x)'
  BY <1>1, <1>2 DEF ChannelInv, ChannelsCurrent, ChannelCrossings, ChannelReqOK
<1>5. RowsRemain'
  <2>1. ASSUME NEW c \in Channel
        PROVE  channelRows'[c] = IF \E v \in servers \ V : MadeIn(c, v) THEN LastRows[c] ELSE 0
    <3>1. \A v : c \in Channels!ChannelsOf(v) <=> MadeIn(c, v)
      BY ServersOfChannels
    <3>2. \A v, w : MadeIn(c, v) /\ MadeIn(c, w) => v = w
      BY ServersOfChannels
    <3>3. channelRows[c] = IF \E v \in servers : MadeIn(c, v) THEN LastRows[c] ELSE 0
      BY DEF ChannelInv, RowsRemain
    <3> QED
      BY <1>1, <3>1, <3>2, <3>3
  <2> QED
    BY <1>1, <1>2, <2>1 DEF RowsRemain
<1>6. ListsFollow'
  <2>1. TablesMove /\ NothingForgotten
    BY <1>1, <1>2 DEF TablesMove, NothingForgotten, Pending
  <2> QED
    BY <1>1, <2>1, ListsRest
<1> QED
  BY <1>3, <1>4, <1>5, <1>6 DEF ChannelInv

LEMMA ChannelInit == ASSUME Channels!Init PROVE ChannelInv
<1>1. channelHistory = <<>> /\ DOMAIN channelHistory = {} /\ Len(channelHistory) = 0
      /\ <<>> \in Seq(Channels!Change) /\ <<>> \in Seq(Channels!Event) /\ 0 <= MaxChannelChanges
  BY EmptySeq, ChannelBoundAssumption DEF Channels!Init
<1>2. Channels!Idle \in ChannelReq /\ Channels!NotOpen \in OpenList /\ Channels!NotOpen.server = NoServer
  BY <1>1 DEF Channels!Idle, ChannelReq, Channels!Page, Channels!NotOpen, OpenList
<1>3. \A c : Channels!ChangesOf(c) = {}
  BY <1>1 DEF Channels!ChangesOf
<1>4. LastRows = [c \in Channel |-> 0]
  <2>1. \A c \in Channel : RowOf(LastMade(c)) = 0
    BY <1>3 DEF LastMade, RowOf
  <2> QED
    BY <2>1 DEF LastRows
<1>5. TableTypes /\ TabTypes
  BY <1>1, <1>2, <1>4 DEF Channels!Init, TableTypes, TabTypes
<1>6. ChannelsCurrent /\ RowsRemain
  BY <1>5, <1>3, <1>4 DEF Channels!Init, ChannelsCurrent, RowsRemain, MadeIn
<1>7. \A q \in Request : channelReq[q] = Channels!Idle
  BY DEF Channels!Init
<1>8. ChannelCrossings
  BY <1>7, IdleChannelReq, ZeroAssumption DEF ChannelCrossings
<1>9. \A q \in Request : \A x \in {channelReq[q]} : ChannelReqOK(x)
  BY <1>5, <1>7, IdleIsChannelReq
<1>10. ListsFollow
  BY <1>2, <1>7, IdleChannelReq DEF Channels!Init, ListsFollow
<1> QED
  BY <1>5, <1>6, <1>8, <1>9, <1>10 DEF ChannelInv

LEMMA ChannelNext == ASSUME ChannelInv, [Channels!Next]_(Channels!vars) PROVE ChannelInv'
<1>1. CASE Channels!Next
  BY <1>1, CreateChannelKeeps, GetChannelsKeeps, UpdateChannelKeeps, DeleteChannelKeeps, ReadChannelKeeps,
     EmitToRoomKeeps, ChannelFailKeeps, SetServerKeeps, AnswerChannelsKeeps, CascadeDeleteKeeps
     DEF Channels!Next
<1>2. CASE UNCHANGED Channels!vars
  <2>1. UNCHANGED <<channelRows, servers, channelHistory, channelReq, room, opened, channelTold,
                    channelLost, channelSilent, channelCrossed>>
    BY <1>2 DEF Channels!vars
  <2>2. LastRows' = LastRows
    BY <2>1, LastRowsStay
  <2>3. TableTypes' /\ TabTypes' /\ ChannelCrossings'
    BY <2>1, <2>2 DEF ChannelInv, TableTypes, TabTypes, ChannelCrossings, ChannelReq, OpenList
  <2>4. ChannelsCurrent' /\ RowsRemain'
    BY <2>1, TablesRest DEF ChannelInv
  <2>5. \A q \in Request : \A x \in {channelReq'[q]} : ChannelReqOK(x)'
    BY <2>1, <2>2 DEF ChannelInv, ChannelReqOK, MadeIn, Channels!ChangesOf
  <2>6. TablesMove /\ NothingForgotten
    BY <2>1, <2>2 DEF TablesMove, NothingForgotten, Pending
  <2>7. ListsFollow'
    BY <2>1, <2>6, ListsRest
  <2> QED
    BY <2>3, <2>4, <2>5, <2>7 DEF ChannelInv
<1> QED
  BY <1>1, <1>2

(***************************************************************************)
(* ChannelList: the properties                                             *)
(***************************************************************************)
LEMMA ChannelInvSuffices ==
  ASSUME ChannelInv
  PROVE  Channels!TypeOK /\ Channels!RoomMatchesList /\ Channels!OnlyTheGapIsMissed /\ Channels!ListConverges
<1>1. Channels!TypeOK
  <2>1. \A c \in Channel : \A n \in Channels!ChangesOf(c) : channelHistory[n].server = Channels!ServerOf(c)
    BY DEF ChannelInv, ChannelsCurrent, Channels!ServerOf
  <2> QED
    BY <2>1 DEF ChannelInv, TableTypes, TabTypes, Channels!TypeOK, ChannelReq, OpenList
<1>2. ASSUME NEW s \in Tab, opened[s].server # NoServer, opened[s].alone PROVE Follows(s, opened[s])
  BY <1>2 DEF ChannelInv, ListsFollow
<1>3. Channels!RoomMatchesList
  BY <1>2 DEF Channels!RoomMatchesList, Follows
<1>4. servers \subseteq Home /\ \A v \in servers : v # NoServer
  BY ZeroAssumption DEF ChannelInv, TableTypes
<1>5. ASSUME NEW s \in Tab, opened[s].server \in servers, opened[s].alone,
             NEW c \in Channels!ChannelsOf(opened[s].server), NEW n \in Channels!ChangesOf(c)
      PROVE  \/ n <= opened[s].seen \/ n \in channelSilent \/ c \in opened[s].gap \/ c \in channelLost[s]
             \/ \E i \in DOMAIN channelTold[s] :
                  channelTold[s][i].channel = c /\ (channelTold[s][i].row >= n \/ channelTold[s][i].row = 0)
             \/ \E r \in Channels!About(c) : channelReq[r].no = n
  <2>1. c \in Channel /\ MadeIn(c, opened[s].server)
    BY <1>5, ServersOfChannels DEF Channels!ChannelsOf
  <2>2. Heard(opened[s], channelTold[s], channelLost[s])
    BY <1>2, <1>5, <1>4 DEF Follows, Adds
  <2> QED
    BY <2>1, <2>2 DEF Heard, Pending, Channels!About
<1>6. Channels!OnlyTheGapIsMissed
  BY <1>5 DEF Channels!OnlyTheGapIsMissed
<1>7. ASSUME NEW s \in Tab, opened[s].server \in servers, opened[s].alone,
             NEW c \in Channels!ChannelsOf(opened[s].server), Channels!About(c) = {}, c \notin channelCrossed,
             c \notin opened[s].gap \cup channelLost[s], Channels!ChangesOf(c) \cap channelSilent = {}
      PROVE  Channels!View(s, c) = channelRows[c]
  <2>1. PICK T : T = channelTold[s] /\ T \in Seq(Channels!Event)
    BY DEF ChannelInv, TabTypes
  <2>2. Len(T) \in Nat /\ DOMAIN T = 1..Len(T) /\ \A i \in DOMAIN T : T[i] \in Channels!Event
    BY <2>1, LenProperties, ElementOfSeq
  <2>3. \A i \in DOMAIN T : T[i] \in EventsFor(c) <=> T[i].channel = c
    BY <2>2 DEF EventsFor
  <2>4. c \in Channel /\ MadeIn(c, opened[s].server) /\ Adds(opened[s], T, channelLost[s])
    BY <1>2, <1>7, <1>4, <2>1, ServersOfChannels DEF Channels!ChannelsOf, Follows
  <2>5. channelRows[c] = LastRows[c]
    BY <1>7, <2>4 DEF ChannelInv, RowsRemain
  <2>6. \A n \in Channels!ChangesOf(c) : n \notin channelSilent /\ ~Pending(c, n)
    BY <1>7 DEF Pending, Channels!About
  <2> DEFINE about == {i \in DOMAIN T : T[i].channel = c}
             at == CHOOSE i \in about : \A j \in about : j <= i
             listed == {e \in opened[s].page : e.channel = c}
  <2>7. Channels!View(s, c) = IF about # {} THEN T[at].row
                              ELSE IF listed # {} THEN (CHOOSE e \in listed : TRUE).row ELSE 0
    BY <2>1 DEF Channels!View
  <2>8. CASE about = {}
    <3>1. \A n \in Channels!ChangesOf(c) : n <= opened[s].seen
      BY <1>5, <1>7, <2>1, <2>6, <2>8
    <3>2. listed = IF LastRows[c] = 0 THEN {} ELSE {[channel |-> c, row |-> LastRows[c]]}
      BY <2>4, <3>1 DEF Adds, ListIsPresent
    <3>3. CASE LastRows[c] = 0
      BY <2>7, <2>8, <2>5, <3>2, <3>3
    <3>4. CASE LastRows[c] # 0
      <4>1. PICK l : l = [channel |-> c, row |-> LastRows[c]]
        OBVIOUS
      <4>2. listed = {l} /\ l.row = LastRows[c]
        BY <3>2, <3>4, <4>1
      <4> HIDE DEF listed
      <4> QED
        BY <2>7, <2>8, <2>5, <4>2
    <3> QED
      BY <3>3, <3>4
  <2>9. CASE about # {}
    <3>1. ~NoneIn(T, EventsFor(c))
      BY <2>3, <2>9 DEF NoneIn
    <3>2. PICK y : LastIn(T, EventsFor(c), y)
      BY <2>1, <3>1, OneIsLast
    <3>3. PICK i \in DOMAIN T : y \in EventsFor(c) /\ T[i] = y /\ \A j \in DOMAIN T : T[j] \in EventsFor(c) => j <= i
      BY <3>2 DEF LastIn
    <3>4. i \in about /\ \A j \in about : j <= i
      BY <2>3, <3>3
    <3>5. at \in about /\ \A j \in about : j <= at
      BY <3>4
    <3>6. i <= at /\ at <= i /\ i \in Nat /\ at \in Nat
      BY <2>2, <3>4, <3>5
    <3>7. at = i
      BY <3>6
    <3>8. LastTells(T, c)
      BY <1>7, <2>4 DEF Adds
    <3>9. y.row = LastRows[c]
      BY <1>7, <2>2, <2>6, <3>2, <3>3, <3>8 DEF LastTells
    <3> QED
      BY <2>7, <2>9, <2>5, <3>3, <3>7, <3>9
  <2> QED
    BY <2>8, <2>9
<1>8. Channels!ListConverges
  BY <1>7 DEF Channels!ListConverges
<1> QED
  BY <1>1, <1>3, <1>6, <1>8

(***************************************************************************)
(* The theorems                                                            *)
(***************************************************************************)
LEMMA SideBySideSteps == SideBySide => Spec /\ Channels!Spec
<1>1. Start => Init /\ Channels!Init
  BY DEF Start
<1>2. ASSUME [\/ ChannelsRest /\ Next
              \/ ServersRest /\ Channels!Next]_<<vars, channelVars>>
      PROVE  [Next]_vars /\ [Channels!Next]_(Channels!vars)
  BY <1>2 DEF ChannelsRest, ServersRest, channelVars, Channels!vars
<1> QED
  BY <1>1, <1>2, PTL DEF SideBySide, Spec, Channels!Spec

(* The invariant that the proofs about ServerList rest on.                 *)
THEOREM ServerInvariance == Spec => []ServerInv
BY ServerInit, ServerNext, PTL DEF Spec

(* The invariant that the proofs about ChannelList rest on.                *)
THEOREM ChannelInvariance == Channels!Spec => []ChannelInv
BY ChannelInit, ChannelNext, PTL DEF Channels!Spec

LEMMA ServerInvFollows == ASSUME ServerInv PROVE ServersFollowed
BY ServerInvSuffices DEF ServerInv, ServersFollowed

LEMMA ChannelInvFollows == ASSUME ChannelInv PROVE ChannelsFollowed
BY ChannelInvSuffices DEF ChannelsFollowed

LEMMA ListInvsConverge == ASSUME ServerInv, ChannelInv PROVE ListsConverge
BY ServerInvSuffices, ChannelInvSuffices DEF ListsConverge

(* A tab with a list of servers misses no update but where its bus was     *)
(* full, is told of deletions that happen, and goes on showing a deleted   *)
(* server only if its announcement failed, came before the tab read its    *)
(* list, was overtaken or found the bus full, or if the server went with   *)
(* the account of its owner.                                               *)
THEOREM ServersFollowedHolds == SideBySide => []ServersFollowed
BY ServerInvFollows, ServerInvariance, SideBySideSteps, PTL

(* A tab that has asked for the channels of one server alone is in the room*)
(* of that server and, as long as the server is there, hears of every      *)
(* announced change to its channels, but for those in the gap between its  *)
(* list and its subscription and those that found its bus full.            *)
THEOREM ChannelsFollowedHolds == SideBySide => []ChannelsFollowed
BY ChannelInvFollows, ChannelInvariance, SideBySideSteps, PTL

(* A tab that shows a server, or a channel of the server it has open, shows*)
(* its present row, unless requests for it overlapped, the last change was *)
(* not announced or found the bus full, or the server is gone without a    *)
(* word to the tabs that look at its channels.                             *)
THEOREM ListsConvergeHolds == SideBySide => []ListsConverge
BY ListInvsConverge, ServerInvariance, ChannelInvariance, SideBySideSteps, PTL
=============================================================================
