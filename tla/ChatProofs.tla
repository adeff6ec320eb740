----------------------------- MODULE ChatProofs -----------------------------
(***************************************************************************)
(* Proofs about a channel seen from a session: the changes of messages and *)
(* their events (ChatLog) and the pages it scrolls through (Paging), for   *)
(* any number of requests, sessions, messages and texts, any length of the *)
(* history and any size of a page.  First what the two need about sets of  *)
(* numbers, then for each its inductive invariant, one lemma for an action *)
(* or a few that are alike, and the lemmas Init and Next; the theorems come*)
(* last and carry the results to the composition of MCChat.                *)
(***************************************************************************)
EXTENDS MCChat, SequenceTheorems, FiniteSetTheorems, WellFoundedInduction, TLAPS

(***************************************************************************)
(* A set of numbers has a least element and, if bounded, a greatest one.   *)
(***************************************************************************)
LEMMA LessThan ==
  \E R : IsWellFoundedOn(R, Nat) /\ \A x, y \in Nat : y < x => <<y, x>> \in R
<1>1. \A x, y \in Nat : y < x => <<y, x>> \in OpToRel(<, Nat)
  BY DEF OpToRel
<1> QED
  BY <1>1, NatLessThanWellFounded, Zenon

LEMMA Least ==
  ASSUME NEW T \in SUBSET Nat, T # {}
  PROVE  \E x \in T : \A y \in T : x <= y
<1>1. PICK R : IsWellFoundedOn(R, Nat) /\ \A x, y \in Nat : y < x => <<y, x>> \in R
  BY LessThan
<1>2. PICK x \in T : \A y \in T : ~(<<y, x>> \in R)
  BY <1>1, WFMin
<1>3. ASSUME NEW y \in T PROVE x <= y
  <2>1. x \in Nat /\ y \in Nat /\ ~(y < x)
    BY <1>1, <1>2
  <2> QED
    BY <2>1
<1> QED
  BY <1>3

LEMMA Greatest ==
  ASSUME NEW n \in Nat, NEW T \in SUBSET (0..n), T # {}
  PROVE  \E x \in T : \A y \in T : y <= x
<1> DEFINE D == {n - x : x \in T}
<1>1. D \in SUBSET Nat /\ D # {}
  OBVIOUS
<1>2. PICK d \in D : \A e \in D : d <= e
  BY <1>1, Least
<1>3. PICK x \in T : d = n - x
  OBVIOUS
<1>4. ASSUME NEW y \in T PROVE y <= x
  <2>1. n - y \in D
    OBVIOUS
  <2> QED
    BY <1>2, <1>3, <2>1
<1> QED
  BY <1>4

(***************************************************************************)
(* ChatLog: the inductive invariant                                        *)
(***************************************************************************)
LogReq ==
  [at : {"idle", "tx", "ready", "emit", "attachments", "subscribe"},
   id : MessageId \cup {NoMessage}, text : Text \cup {NoText}, files : BOOLEAN,
   no : 0..Len(history), todo : SUBSET listening, session : Session \cup {NoSession},
   page : SUBSET Entry, seen : 0..Len(history), gap : SUBSET DOMAIN history]

Opened == [page : SUBSET Entry, seen : 0..Len(history), gap : SUBSET DOMAIN history,
           open : BOOLEAN]

LogTypes ==
  /\ messages \in [MessageId -> Row \cup {NoRow}]
  /\ attachments \subseteq Live
  /\ history \in Seq(Change)
  /\ req \in [Request -> LogReq]
  /\ listening \subseteq Session
  /\ opened \in [Session -> Opened]
  /\ told \in [Session -> Seq(DOMAIN history)]
  /\ dropped \in [Session -> SUBSET DOMAIN history]
  /\ silent \subseteq DOMAIN history

(* The table is what the last change to each message left, and no change   *)
(* takes attachments from a message that stays.                            *)
TableCurrent ==
  \A n \in DOMAIN history : \A m \in history[n].ids :
    (\A k \in ChangesOf(m) : k <= n) => messages[m].text = history[n].text

FilesAttached == \A m \in Live : messages[m].files => m \in attachments

(* A page that covers every change to a message shows what the table says. *)
PageCurrent(page, seen) ==
  \A m \in MessageId :
    (\A n \in ChangesOf(m) : n <= seen) =>
      /\ \A e \in page : e.id = m => m \in Live /\ e.text = messages[m].text
      /\ m \in Live => \E e \in page : e.id = m

DeletedSince(m, seen) ==
  \E n \in ChangesOf(m) : n > seen /\ history[n].kind \in {"delete", "cascade"}
Whole(page, seen) == \A e \in page : e.files /\ ~e.attached => DeletedSince(e.id, seen)
ToBeWhole(page, seen) ==
  \A e \in page : e.files => e.id \in attachments \/ DeletedSince(e.id, seen)

(* Nothing is missed while a page is under way, but for the gap.           *)
Covered(seen, gap) ==
  \A n \in DOMAIN history :
    \/ n <= seen \/ n \in gap \cup silent \/ history[n].kind = "cascade"
    \/ \E q \in Request : req[q].no = n /\ req[q].at = "ready"

(* What was committed while change no was in progress knows it.            *)
CrossedSince(no, until) ==
  \A k \in DOMAIN history :
    k > no /\ k <= until /\ history[k].ids \cap history[no].ids # {} => ~history[k].alone

LogReqOK(x) ==
  /\ x.no # 0 <=> x.at \in {"ready", "emit"}
  /\ x.at # "emit" => x.todo = {}
  /\ x.at = "tx" => x.id \in MessageId /\ x.text \in Text
  /\ x.no # 0 => CrossedSince(x.no, Len(history))
  /\ x.at \in {"attachments", "subscribe"} =>
       x.session \in Session /\ PageCurrent(x.page, x.seen) /\ Covered(x.seen, x.gap)
  /\ x.at = "attachments" => ToBeWhole(x.page, x.seen)
  /\ x.at = "subscribe" => Whole(x.page, x.seen)

(* The events on a bus are in the order of the changes, but for those that *)
(* were committed while an earlier one was in progress.                    *)
InOrder(s) ==
  \A i, j \in DOMAIN told[s] :
    i < j /\ told[s][i] > told[s][j] /\ history[told[s][i]].ids \cap history[told[s][j]].ids # {}
      => ~history[told[s][i]].alone

SessionOK(s) ==
  /\ opened[s].open => s \in listening /\ PageCurrent(opened[s].page, opened[s].seen)
  /\ Whole(opened[s].page, opened[s].seen)
  /\ InOrder(s)
  /\ \A i \in DOMAIN told[s] : CrossedSince(told[s][i], opened[s].seen)

LogInv ==
  /\ LogTypes /\ TableCurrent /\ FilesAttached
  /\ \A r \in Request : LogReqOK(req[r])
  /\ \A s \in Session : SessionOK(s)
  /\ OnlyTheGapIsMissed

(***************************************************************************)
(* ChatLog: lemmas                                                         *)
(***************************************************************************)
LEMMA HistoryFacts ==
  ASSUME LogTypes
  PROVE  /\ Len(history) \in Nat /\ DOMAIN history = 1..Len(history)
         /\ \A n \in DOMAIN history : n \in Nat /\ n # 0 /\ history[n] \in Change
BY LenProperties, ElementOfSeq DEF LogTypes

LEMMA ToldFacts ==
  ASSUME LogTypes, NEW s \in Session
  PROVE  /\ Len(told[s]) \in Nat /\ DOMAIN told[s] = 1..Len(told[s])
         /\ \A i \in DOMAIN told[s] : told[s][i] \in DOMAIN history
<1>1. told[s] \in Seq(DOMAIN history)
  BY DEF LogTypes
<1> QED
  BY <1>1, LenProperties, ElementOfSeq

LEMMA IdleLogReq ==
  ASSUME LogTypes PROVE Idle \in LogReq /\ LogReqOK(Idle) /\ Idle.no = 0 /\ Idle.todo = {}
                        /\ Idle.at = "idle"
BY HistoryFacts DEF Idle, LogReq, LogReqOK

(* Requests end or go on, none with a new change, and may leave a change   *)
(* untold.                                                                 *)
LEMMA LogReqMoves ==
  ASSUME LogInv, NEW r \in Request, NEW y,
         req' \in [Request -> LogReq], req'[r] = y, LogReqOK(y),
         \A q \in Request : q # r => req'[q] = req[q],
         y.no \in {0, req[r].no},
         req[r].no # 0 /\ y.no = 0 => req[r].no \in silent' \/ (req[r].at = "emit" /\ req[r].todo = {}),
         y.no # 0 => y.at = req[r].at /\ y.todo = req[r].todo,
         silent \subseteq silent', silent' \subseteq DOMAIN history,
         UNCHANGED <<messages, attachments, history, listening, opened, told, dropped>>
  PROVE  LogInv'
<1>1. LogTypes' /\ TableCurrent' /\ FilesAttached'
  BY DEF LogInv, LogTypes, TableCurrent, FilesAttached, LogReq, Opened, Live, ChangesOf
<1>2. ASSUME NEW n \in DOMAIN history, NEW q \in Request, req[q].no = n
      PROVE  \/ req'[q].no = n /\ req'[q].at = req[q].at /\ req'[q].todo = req[q].todo
             \/ n \in silent' \/ (req[q].at = "emit" /\ req[q].todo = {})
  BY <1>2, HistoryFacts DEF LogInv
<1>3. ASSUME NEW seen, NEW gap, Covered(seen, gap) PROVE Covered(seen, gap)'
  BY <1>2, <1>3 DEF Covered
<1>4. ASSUME NEW x, LogReqOK(x) PROVE LogReqOK(x)'
  <2>1. PageCurrent(x.page, x.seen) => PageCurrent(x.page, x.seen)'
    BY DEF PageCurrent, ChangesOf, Live
  <2>2. ToBeWhole(x.page, x.seen) => ToBeWhole(x.page, x.seen)'
    BY DEF ToBeWhole, DeletedSince, ChangesOf
  <2>3. Whole(x.page, x.seen) => Whole(x.page, x.seen)'
    BY DEF Whole, DeletedSince, ChangesOf
  <2>4. CrossedSince(x.no, Len(history)) => CrossedSince(x.no, Len(history))'
    BY DEF CrossedSince
  <2> QED
    BY <1>3, <1>4, <2>1, <2>2, <2>3, <2>4 DEF LogReqOK
<1>5. \A q \in Request : LogReqOK(req[q])'
  BY <1>4 DEF LogInv
<1>6. \A s \in Session : SessionOK(s)'
  BY DEF LogInv, SessionOK, PageCurrent, Whole, DeletedSince, InOrder, CrossedSince, ChangesOf, Live
<1>7. OnlyTheGapIsMissed'
  BY <1>2, HistoryFacts DEF LogInv, OnlyTheGapIsMissed, StillToTell, LogReqOK
<1> QED
  BY <1>1, <1>5, <1>6, <1>7 DEF LogInv

LEMMA LogRequestsKeep ==
  ASSUME LogInv, NEW r \in Request,
         \/ \E m \in MessageId, text \in Text, files \in BOOLEAN : CreateMessage(r, m, text, files)
         \/ Fail(r) \/ EndEmit(r)
  PROVE  LogInv'
<1>1. LogTypes /\ LogReqOK(req[r]) /\ req[r] \in LogReq
  BY DEF LogInv, LogTypes
<1>2. CASE \E m \in MessageId, text \in Text, files \in BOOLEAN : CreateMessage(r, m, text, files)
  <2> PICK m \in MessageId, text \in Text, files \in BOOLEAN : CreateMessage(r, m, text, files)
    BY <1>2
  <2> DEFINE y == [Idle EXCEPT !.at = "tx", !.id = m, !.text = text, !.files = files]
  <2>1. y \in LogReq /\ y.no = 0 /\ y.todo = {} /\ y.at = "tx" /\ y.id = m /\ y.text = text
    BY <1>1, IdleLogReq DEF LogReq, Idle
  <2>2. LogReqOK(y)
    BY <2>1 DEF LogReqOK
  <2>3. req' = [req EXCEPT ![r] = y] /\ silent' = silent /\ req[r].no = 0
        /\ UNCHANGED <<messages, attachments, history, listening, opened, told, dropped>>
    BY IdleLogReq, <1>1 DEF CreateMessage
  <2> HIDE DEF y
  <2>4. req' \in [Request -> LogReq] /\ req'[r] = y /\ \A q \in Request : q # r => req'[q] = req[q]
    BY <1>1, <2>1, <2>3 DEF LogTypes
  <2>5. silent \subseteq DOMAIN history
    BY <1>1 DEF LogTypes
  <2> QED
    BY <2>1, <2>2, <2>3, <2>4, <2>5, LogReqMoves
<1>3. CASE Fail(r) \/ EndEmit(r)
  <2>1. req' = [req EXCEPT ![r] = Idle]
        /\ UNCHANGED <<messages, attachments, history, listening, opened, told, dropped>>
    BY <1>3 DEF Fail, EndEmit, Answer
  <2>2. req' \in [Request -> LogReq] /\ req'[r] = Idle /\ \A q \in Request : q # r => req'[q] = req[q]
    BY <1>1, <2>1, IdleLogReq DEF LogTypes
  <2>3. silent \subseteq DOMAIN history /\ req[r].no \in 0..Len(history)
    BY <1>1 DEF LogTypes, LogReq
  <2>4. silent \subseteq silent' /\ silent' \subseteq DOMAIN history
    BY <1>1, <1>3, <2>3, HistoryFacts DEF Fail, EndEmit
  <2>5. req[r].no # 0 => req[r].no \in silent' \/ (req[r].at = "emit" /\ req[r].todo = {})
    BY <1>3 DEF Fail, EndEmit
  <2> QED
    BY <1>1, <2>1, <2>2, <2>4, <2>5, IdleLogReq, LogReqMoves
<1> QED
  BY <1>2, <1>3

LEMMA PagesKeep ==
  ASSUME LogInv, NEW r \in Request,
         (\E s \in Session : GetMessages(r, s)) \/ GetAttachments(r)
  PROVE  LogInv'
<1>1. LogTypes /\ LogReqOK(req[r]) /\ req[r] \in LogReq /\ silent \subseteq DOMAIN history
  BY DEF LogInv, LogTypes
<1>2. CASE \E s \in Session : GetMessages(r, s)
  <2> PICK s \in Session : GetMessages(r, s)
    BY <1>2
  <2> DEFINE f(m) == [id |-> m, text |-> messages[m].text, files |-> messages[m].files,
                      attached |-> FALSE]
             page == {f(m) : m \in Live}
             y == [Idle EXCEPT !.at = "attachments", !.session = s, !.seen = Len(history),
                               !.page = page]
  <2>1. \A m \in Live : m \in MessageId /\ messages[m] \in Row
    BY <1>1 DEF LogTypes, Live
  <2>2. page \subseteq Entry
    <3>1. ASSUME NEW m \in Live PROVE f(m) \in Entry
      BY <2>1 DEF Entry, Row
    <3> QED
      BY <3>1
  <2>3. \A e \in page : e.id \in Live /\ e.text = messages[e.id].text /\ e.files = messages[e.id].files
    OBVIOUS
  <2>4. \A m \in Live : \E e \in page : e.id = m
    <3>1. \A m \in Live : f(m) \in page /\ f(m).id = m
      OBVIOUS
    <3> QED
      BY <3>1
  <2> HIDE DEF page
  <2>5. y \in LogReq /\ y.no = 0 /\ y.todo = {} /\ y.at = "attachments" /\ y.session = s
        /\ y.seen = Len(history) /\ y.page = page /\ y.gap = {}
    <3>1. Len(history) \in 0..Len(history) /\ Idle \in LogReq /\ Idle.no = 0 /\ Idle.todo = {}
          /\ Idle.gap = {}
      BY <1>1, IdleLogReq, HistoryFacts DEF Idle
    <3> QED
      BY <2>2, <3>1 DEF LogReq
  <2>6. PageCurrent(page, Len(history))
    BY <2>3, <2>4 DEF PageCurrent
  <2>7. Covered(Len(history), {})
    BY <1>1, HistoryFacts DEF Covered
  <2>8. ToBeWhole(page, Len(history))
    BY <2>3 DEF ToBeWhole, LogInv, FilesAttached
  <2>9. req' = [req EXCEPT ![r] = y] /\ silent' = silent /\ req[r].no = 0
        /\ UNCHANGED <<messages, attachments, history, listening, opened, told, dropped>>
    BY IdleLogReq, <1>1 DEF GetMessages, page
  <2> HIDE DEF y
  <2>10. LogReqOK(y)
    BY <2>5, <2>6, <2>7, <2>8 DEF LogReqOK
  <2>11. req' \in [Request -> LogReq] /\ req'[r] = y /\ \A q \in Request : q # r => req'[q] = req[q]
    BY <1>1, <2>5, <2>9 DEF LogTypes
  <2> QED
    BY <1>1, <2>5, <2>9, <2>10, <2>11, LogReqMoves
<1>3. CASE GetAttachments(r)
  <2> DEFINE x == req[r]
             f(e) == [e EXCEPT !.attached = e.files /\ e.id \in attachments]
             page == {f(e) : e \in x.page}
             y == [x EXCEPT !.at = "subscribe", !.page = page]
  <2>1. x.at = "attachments" /\ x.page \subseteq Entry
    BY <1>1, <1>3 DEF GetAttachments, LogReq
  <2>2. \A e \in x.page : f(e) \in Entry
    BY <2>1 DEF Entry
  <2>3. page \subseteq Entry
    BY <2>2
  <2>4. \A g \in page : \E e \in x.page : g.id = e.id /\ g.text = e.text /\ g.files = e.files
                                        /\ g.attached = (e.files /\ e.id \in attachments)
    BY <2>1 DEF Entry
  <2>5. \A e \in x.page : \E g \in page : g.id = e.id
    <3>1. \A e \in x.page : f(e) \in page /\ f(e).id = e.id
      BY <2>1 DEF Entry
    <3> QED
      BY <3>1
  <2> HIDE DEF page
  <2>6. y \in LogReq /\ y.no = x.no /\ y.todo = x.todo /\ y.at = "subscribe" /\ y.session = x.session
        /\ y.seen = x.seen /\ y.page = page /\ y.gap = x.gap
    BY <1>1, <2>3 DEF LogReq
  <2>7. x.session \in Session /\ PageCurrent(x.page, x.seen) /\ Covered(x.seen, x.gap)
        /\ ToBeWhole(x.page, x.seen) /\ x.no = 0 /\ x.todo = {}
    BY <1>1, <2>1 DEF LogReqOK
  <2>8. PageCurrent(page, x.seen)
    BY <2>4, <2>5, <2>7 DEF PageCurrent
  <2>9. Whole(page, x.seen)
    BY <2>4, <2>7 DEF Whole, ToBeWhole
  <2>10. req' = [req EXCEPT ![r] = y] /\ silent' = silent
        /\ UNCHANGED <<messages, attachments, history, listening, opened, told, dropped>>
    <3>1. req' = [req EXCEPT ![r].at = "subscribe", ![r].page = page]
      BY <1>3 DEF GetAttachments, page
    <3>2. req' = [req EXCEPT ![r] = y]
      BY <1>1, <3>1 DEF LogTypes
    <3> QED
      BY <1>3, <3>2 DEF GetAttachments
  <2> HIDE DEF y
  <2>11. LogReqOK(y)
    BY <2>6, <2>7, <2>8, <2>9 DEF LogReqOK
  <2>12. req' \in [Request -> LogReq] /\ req'[r] = y /\ \A q \in Request : q # r => req'[q] = req[q]
    BY <1>1, <2>6, <2>10 DEF LogTypes
  <2> QED
    BY <1>1, <2>6, <2>7, <2>10, <2>11, <2>12, LogReqMoves
<1> QED
  BY <1>2, <1>3

(* Request x has committed change k; the requests in R have committed the  *)
(* change made now; nothing is under way for any message in ids.           *)
Readied(x, k) == [x EXCEPT !.at = "ready", !.no = k]
AreReadied(R) ==
  req' = [q \in Request |-> IF q \in R THEN Readied(req[q], Len(history')) ELSE req[q]]
NoneInFlight(ids) == \A m \in ids : ~InFlight(m)

(* A change is committed, and told when the requests in R, one or, of a    *)
(* cascade, none, go on.                                                   *)
LEMMA CommitKeeps ==
  ASSUME LogInv, NEW R \in SUBSET Request, NEW kind \in {"create", "edit", "delete", "cascade"},
         NEW ids \in SUBSET MessageId, NEW text \in Text \cup {NoText}, Commit(kind, ids, text),
         messages' \in [MessageId -> Row \cup {NoRow}], \A m \in ids : messages'[m].text = text,
         \A j \in MessageId : j \notin ids => messages'[j] = messages[j],
         attachments' \subseteq Live', FilesAttached',
         \A j \in attachments : j \in attachments' \/ (j \in ids /\ kind \in {"delete", "cascade"}),
         \A r \in R : req[r].at \in {"idle", "tx"},
         R = {} => kind = "cascade",
         AreReadied(R),
         UNCHANGED <<listening, opened, told, dropped, silent>>
  PROVE  LogInv'
<1> DEFINE k == Len(history) + 1
           new == [kind |-> kind, ids |-> ids, text |-> text, alone |-> NoneInFlight(ids)]
<1>1. LogTypes /\ (\A q \in Request : LogReqOK(req[q]) /\ req[q] \in LogReq) /\ Len(history) \in Nat
      /\ DOMAIN history = 1..Len(history)
  BY HistoryFacts DEF LogInv, LogTypes
<1>2. /\ history' \in Seq(Change) /\ Len(history)' = k /\ DOMAIN history' = 1..k
      /\ \A n \in DOMAIN history : history'[n] = history[n]
      /\ history'[k] = new
  <2>1. new \in Change /\ history \in Seq(Change) /\ history' = Append(history, new)
    BY <1>1 DEF Change, Commit, LogTypes, NoneInFlight, InFlight
  <2> HIDE DEF new
  <2> QED
    BY <1>1, <2>1, AppendProperties
<1>3. /\ k \in Nat /\ k # 0 /\ k \notin DOMAIN history /\ DOMAIN history' = DOMAIN history \cup {k}
      /\ \A n \in DOMAIN history : n < k /\ n \in Nat /\ n # 0
      /\ 0..Len(history) \subseteq 0..k /\ k \in 0..k /\ k \in DOMAIN history'
      /\ new.ids = ids /\ new.text = text /\ new.kind = kind
      /\ \A m \in ids : InFlight(m) => ~new.alone
  <2>1. k \in Nat /\ k # 0 /\ k \notin DOMAIN history /\ DOMAIN history' = DOMAIN history \cup {k}
        /\ \A n \in DOMAIN history : n < k /\ n \in Nat /\ n # 0
    BY <1>1, <1>2
  <2>2. 0..Len(history) \subseteq 0..k /\ k \in 0..k /\ k \in DOMAIN history'
    BY <1>1, <1>2
  <2>3. new.ids = ids /\ new.text = text /\ new.kind = kind /\ new.alone = NoneInFlight(ids)
    OBVIOUS
  <2> QED
    BY <2>1, <2>2, <2>3 DEF NoneInFlight
<1>4. LogReq \subseteq LogReq'
      /\ \A x \in LogReq : /\ Readied(x, k) \in LogReq' /\ Readied(x, k).todo = x.todo
                        /\ Readied(x, k).at = "ready" /\ Readied(x, k).no = k
  <2>1. LogReq \subseteq LogReq'
    BY <1>2, <1>3 DEF LogReq
  <2>2. ASSUME NEW x \in LogReq
        PROVE  /\ Readied(x, k) \in LogReq' /\ Readied(x, k).todo = x.todo
               /\ Readied(x, k).at = "ready" /\ Readied(x, k).no = k
    BY <1>2, <1>3, <2>1, <2>2 DEF LogReq, Readied
  <2> QED
    BY <2>1, <2>2
<1>5. /\ req' \in [Request -> LogReq']
      /\ \A q \in Request : req'[q] = IF q \in R THEN Readied(req[q], k) ELSE req[q]
  BY <1>1, <1>2, <1>4 DEF AreReadied
<1> HIDE DEF k, new
<1>6. LogTypes'
  <2>1. opened' \in [Session -> Opened'] /\ dropped' \in [Session -> SUBSET DOMAIN history']
        /\ silent' \subseteq DOMAIN history' /\ listening' \subseteq Session
    BY <1>1, <1>2, <1>3 DEF LogTypes, Opened
  <2>2. told' \in [Session -> Seq(DOMAIN history')]
    BY <1>1, <1>3, SeqMonotonic DEF LogTypes
  <2> QED
    BY <1>2, <1>5, <2>1, <2>2 DEF LogTypes
<1>7. \A j : ChangesOf(j) \subseteq ChangesOf(j)' /\ (\A n \in ChangesOf(j)' : n \in ChangesOf(j) \/ (n = k /\ j \in ids))
  BY <1>2, <1>3 DEF ChangesOf
<1>8. \A m \in ids : k \in ChangesOf(m)'
  BY <1>2, <1>3 DEF ChangesOf
<1>9. TableCurrent'
  <2>1. SUFFICES ASSUME NEW n \in DOMAIN history', NEW j \in history'[n].ids,
                        \A l \in ChangesOf(j)' : l <= n
                 PROVE  messages'[j].text = history'[n].text
    BY DEF TableCurrent
  <2>2. CASE n = k
    BY <1>2, <1>3, <2>1, <2>2
  <2>3. CASE n # k
    <3>1. n \in DOMAIN history /\ history'[n] = history[n] /\ j \in history[n].ids /\ j \in MessageId
      BY <1>1, <1>2, <1>3, <2>1, <2>3, HistoryFacts DEF Change
    <3>2. \A l \in ChangesOf(j) : l <= n
      BY <1>7, <2>1, <3>1
    <3>3. j \notin ids
      <4>1. ASSUME j \in ids PROVE k <= n
        <5>1. k \in ChangesOf(j)'
          BY <1>8, <4>1
        <5> QED
          BY <2>1, <5>1
      <4>2. n < k /\ n \in Nat /\ k \in Nat
        BY <1>3, <3>1
      <4> QED
        BY <4>1, <4>2
    <3>4. messages[j].text = history[n].text
      BY <2>1, <3>1, <3>2 DEF LogInv, TableCurrent
    <3> QED
      BY <2>1, <3>1, <3>3, <3>4
  <2> QED
    BY <2>2, <2>3
<1>10. ASSUME NEW p, NEW n \in 0..Len(history), PageCurrent(p, n) PROVE PageCurrent(p, n)'
  <2>1. SUFFICES ASSUME NEW j \in MessageId, \A l \in ChangesOf(j)' : l <= n
                 PROVE  /\ \A e \in p : e.id = j => j \in Live' /\ e.text = messages'[j].text
                        /\ j \in Live' => \E e \in p : e.id = j
    BY DEF PageCurrent
  <2>2. j \notin ids
    BY <1>1, <1>3, <1>8, <2>1
  <2>3. messages'[j] = messages[j] /\ (j \in Live' <=> j \in Live)
    BY <2>2 DEF Live
  <2> QED
    BY <1>7, <1>10, <2>1, <2>3 DEF PageCurrent
<1>11. ASSUME NEW p, NEW n, Covered(p, n) PROVE Covered(p, n)'
  <2>1. SUFFICES ASSUME NEW l \in DOMAIN history'
                 PROVE  \/ l <= p \/ l \in n \cup silent \/ history'[l].kind = "cascade"
                        \/ \E q \in Request : req'[q].no = l /\ req'[q].at = "ready"
    BY <1>2 DEF Covered
  <2>2. CASE l = k
    <3>1. CASE R = {}
      BY <1>2, <1>3, <2>2, <3>1
    <3>2. CASE R # {}
      <4>1. PICK r \in R : r \in Request
        BY <3>2
      <4>2. req'[r] = Readied(req[r], k) /\ req[r] \in LogReq
        BY <1>1, <1>5, <4>1
      <4> QED
        BY <1>4, <2>2, <4>1, <4>2
    <3> QED
      BY <3>1, <3>2
  <2>3. CASE l # k
    <3>1. l \in DOMAIN history /\ history'[l] = history[l]
      BY <1>2, <1>3, <2>1, <2>3
    <3>2. ASSUME NEW q \in Request, req[q].at = "ready" PROVE req'[q] = req[q]
      <4>1. q \notin R
        BY <3>2
      <4> QED
        BY <1>5, <4>1
    <3> QED
      BY <1>11, <3>1, <3>2 DEF Covered
  <2> QED
    BY <2>2, <2>3
<1>12. ASSUME NEW j, NEW n, DeletedSince(j, n) PROVE DeletedSince(j, n)'
  BY <1>2, <1>7, <1>12 DEF DeletedSince, ChangesOf
<1>13. ASSUME NEW p, NEW n \in 0..Len(history), ToBeWhole(p, n) PROVE ToBeWhole(p, n)'
  <2>1. kind \in {"delete", "cascade"} => \A m \in ids : DeletedSince(m, n)'
    BY <1>1, <1>2, <1>3, <1>8, <1>13 DEF DeletedSince
  <2> QED
    BY <1>12, <1>13, <2>1 DEF ToBeWhole
<1>14. ASSUME NEW p, NEW n, Whole(p, n) PROVE Whole(p, n)'
  BY <1>12, <1>14 DEF Whole
<1>15. \A q \in Request : LogReqOK(req[q])'
  <2>1. ASSUME NEW r \in R PROVE LogReqOK(req[r])'
    <3>1. CrossedSince(Len(history), Len(history))'
      BY <1>1, <1>2, <1>3 DEF CrossedSince
    <3>2. req[r].todo = {}
      BY <1>1, <2>1 DEF LogReqOK
    <3>3. req'[r] = Readied(req[r], k) /\ r \in Request
      BY <1>5, <2>1
    <3> QED
      <4>1. PICK x : x = Readied(req[r], k)
        OBVIOUS
      <4>2. x.at = "ready" /\ x.no = k /\ x.todo = {}
        BY <1>1, <1>4, <3>2, <3>3, <4>1
      <4>3. CrossedSince(x.no, Len(history))'
        BY <1>2, <1>3, <4>2, <2>1 DEF CrossedSince
      <4>4. LogReqOK(x)'
        BY <1>3, <4>2, <4>3 DEF LogReqOK
      <4> QED
        BY <3>3, <4>1, <4>4 DEF LogReqOK
  <2>2. ASSUME NEW q \in Request, q \notin R PROVE LogReqOK(req[q])'
    <3> PICK x : x = req[q]
      OBVIOUS
    <3>1. req'[q] = x /\ LogReqOK(x) /\ x \in LogReq
      BY <1>1, <1>5, <2>2 DEF LogInv, LogTypes
    <3>2. x.no # 0 => CrossedSince(x.no, Len(history))'
      <4>1. SUFFICES ASSUME x.no # 0, NEW l \in DOMAIN history', l > x.no,
                            history'[l].ids \cap history'[x.no].ids # {}
                     PROVE  ~history'[l].alone
        BY DEF CrossedSince
      <4>2. x.no \in DOMAIN history /\ CrossedSince(x.no, Len(history))
        BY <1>1, <3>1, <4>1 DEF LogReqOK, LogReq
      <4>3. CASE l = k
        <5>1. \E m \in ids : m \in history[x.no].ids
          BY <1>2, <1>3, <4>1, <4>2, <4>3
        <5> QED
          BY <1>2, <1>3, <4>1, <4>3, <5>1 DEF InFlight
      <4>4. CASE l # k
        <5>1. l \in DOMAIN history /\ l <= Len(history) /\ history'[l] = history[l]
              /\ history'[x.no] = history[x.no]
          <6>1. l \in DOMAIN history
            BY <1>3, <4>1, <4>4
          <6> QED
            BY <1>1, <1>2, <4>2, <6>1
        <5> QED
          BY <4>1, <4>2, <5>1 DEF CrossedSince
      <4> QED
        BY <4>3, <4>4
    <3>3. x.seen \in 0..Len(history)
      BY <3>1 DEF LogReq
    <3>4. /\ PageCurrent(x.page, x.seen) => PageCurrent(x.page, x.seen)'
          /\ Covered(x.seen, x.gap) => Covered(x.seen, x.gap)'
          /\ ToBeWhole(x.page, x.seen) => ToBeWhole(x.page, x.seen)'
          /\ Whole(x.page, x.seen) => Whole(x.page, x.seen)'
      BY <1>10, <1>11, <1>13, <1>14, <3>3
    <3>5. LogReqOK(x)'
      BY <3>1, <3>2, <3>4 DEF LogReqOK
    <3> QED
      BY <3>1, <3>5 DEF LogReqOK
  <2> QED
    BY <2>1, <2>2
<1>16. \A s \in Session : SessionOK(s)'
  <2>1. SUFFICES ASSUME NEW s \in Session PROVE SessionOK(s)'
    OBVIOUS
  <2>2. SessionOK(s) /\ opened[s].seen \in 0..Len(history) /\ opened[s] = opened'[s]
    BY <1>1 DEF LogInv, LogTypes, Opened
  <2>3. \A i \in DOMAIN told[s] : told[s][i] \in DOMAIN history
    BY <1>1, ToldFacts
  <2>4. InOrder(s)'
    BY <1>2, <2>2, <2>3 DEF SessionOK, InOrder
  <2>5. ASSUME NEW i \in DOMAIN told[s] PROVE CrossedSince(told[s][i], opened[s].seen)'
    BY <1>1, <1>2, <1>3, <2>2, <2>3 DEF SessionOK, CrossedSince
  <2> QED
    BY <1>10, <1>14, <2>2, <2>4, <2>5 DEF SessionOK
<1>17. OnlyTheGapIsMissed'
  <2>1. SUFFICES ASSUME NEW s \in Session, opened[s].open, NEW n \in DOMAIN history'
                 PROVE  \/ n <= opened[s].seen
                        \/ n \in Range(told[s]) \/ StillToTell(n, s)'
                        \/ n \in dropped[s] \cup opened[s].gap \cup silent
                        \/ history'[n].kind = "cascade"
    BY DEF OnlyTheGapIsMissed
  <2>2. CASE n = k
    <3>1. CASE R = {}
      BY <1>2, <1>3, <2>2, <3>1
    <3>2. CASE R # {}
      <4> PICK r \in R : TRUE
        BY <3>2
      <4> QED
        BY <1>1, <1>4, <1>5, <2>2 DEF StillToTell
    <3> QED
      BY <3>1, <3>2
  <2>3. CASE n # k
    <3>1. n \in DOMAIN history
      BY <1>3, <2>3
    <3>2. StillToTell(n, s) => StillToTell(n, s)'
      <4>1. \A q \in Request : q \in R \/ (req'[q].no = req[q].no /\ req'[q].at = req[q].at /\ req'[q].todo = req[q].todo)
        BY <1>5
      <4>2. \A q \in R : req[q].at # "ready" /\ req[q].todo = {}
        BY <1>1 DEF LogReqOK
      <4> QED
        BY <4>1, <4>2 DEF StillToTell
    <3> QED
      BY <1>2, <2>1, <3>1, <3>2 DEF LogInv, OnlyTheGapIsMissed
  <2> QED
    BY <2>2, <2>3
<1> QED
  BY <1>6, <1>9, <1>15, <1>16, <1>17 DEF LogInv

(* The same of the change that one request commits to one message.         *)
LEMMA RequestCommitKeeps ==
  ASSUME LogInv, NEW r \in Request, NEW kind \in {"create", "edit", "delete"},
         NEW m \in MessageId, NEW text \in Text \cup {NoText}, Commit(kind, {m}, text),
         messages' \in [MessageId -> Row \cup {NoRow}], messages'[m].text = text,
         \A j \in MessageId : j # m => messages'[j] = messages[j],
         attachments' \subseteq Live', FilesAttached',
         \A j \in attachments : j \in attachments' \/ (j = m /\ kind = "delete"),
         req[r].at \in {"idle", "tx"},
         req' = [req EXCEPT ![r].at = "ready", ![r].no = Len(history')],
         UNCHANGED <<listening, opened, told, dropped, silent>>
  PROVE  LogInv'
<1> DEFINE R == {r}
           ids == {m}
<1>1. /\ R \in SUBSET Request /\ R # {} /\ \A q \in R : req[q].at \in {"idle", "tx"}
      /\ kind \in {"create", "edit", "delete", "cascade"}
  OBVIOUS
<1>2. AreReadied(R)
  BY DEF LogInv, LogTypes, AreReadied, Readied
<1>3. /\ ids \in SUBSET MessageId /\ Commit(kind, ids, text)
      /\ \A j \in ids : messages'[j].text = text
      /\ \A j \in MessageId : j \notin ids => messages'[j] = messages[j]
      /\ \A j \in attachments : j \in attachments' \/ (j \in ids /\ kind \in {"delete", "cascade"})
  OBVIOUS
<1> HIDE DEF R, ids
<1> QED
  BY <1>1, <1>2, <1>3, CommitKeeps

LEMMA CascadeKeeps ==
  ASSUME LogInv, NEW ids \in SUBSET MessageId, CascadeDelete(ids)
  PROVE  LogInv'
<1>1. LogTypes /\ FilesAttached /\ attachments \subseteq Live
      /\ messages \in [MessageId -> Row \cup {NoRow}] /\ req \in [Request -> LogReq]
  BY DEF LogInv, LogTypes
<1>2. NoRow.text = NoText /\ NoText \in Text \cup {NoText}
  BY DEF NoRow
<1>3. messages' = [j \in MessageId |-> IF j \in ids THEN NoRow ELSE messages[j]]
      /\ attachments' = attachments \ ids /\ req' = req
      /\ Commit("cascade", ids, NoText) /\ UNCHANGED <<listening, opened, told, dropped, silent>>
  BY DEF CascadeDelete
<1>4. /\ messages' \in [MessageId -> Row \cup {NoRow}] /\ \A m \in ids : messages'[m] = NoRow
      /\ \A j \in MessageId : j \notin ids => messages'[j] = messages[j]
  BY <1>1, <1>3
<1>5. attachments' \subseteq Live' /\ FilesAttached'
  BY <1>1, <1>3, <1>4 DEF Live, FilesAttached, NoRow
<1> DEFINE R == {}
<1>6. /\ R \in SUBSET Request /\ (\A q \in R : req[q].at \in {"idle", "tx"})
      /\ AreReadied(R)
  BY <1>1, <1>3 DEF AreReadied
<1>7. "cascade" \in {"create", "edit", "delete", "cascade"} /\ (R = {} => "cascade" = "cascade")
      /\ \A m \in ids : messages'[m].text = NoText
      /\ \A j \in attachments : j \in attachments' \/ (j \in ids /\ "cascade" \in {"delete", "cascade"})
  BY <1>2, <1>3, <1>4
<1> HIDE DEF R
<1> QED
  BY <1>2, <1>3, <1>4, <1>5, <1>6, <1>7, CommitKeeps

LEMMA ChangesKeep ==
  ASSUME LogInv, NEW r \in Request,
         \/ CommitCreate(r)
         \/ \E m \in MessageId, text \in Text : EditMessage(r, m, text)
         \/ \E m \in MessageId : DeleteMessage(r, m)
  PROVE  LogInv'
<1>1. LogTypes /\ LogReqOK(req[r]) /\ req[r] \in LogReq /\ FilesAttached /\ attachments \subseteq Live
      /\ messages \in [MessageId -> Row \cup {NoRow}]
  BY DEF LogInv, LogTypes
<1>2. NoRow.text = NoText /\ NoRow \notin Row
  BY NoValueAssumption DEF NoRow, Row
<1>3. CASE CommitCreate(r)
  <2> DEFINE x == req[r]
             row == [text |-> x.text, files |-> x.files]
  <2>1. x.id \in MessageId /\ x.text \in Text /\ x.files \in BOOLEAN /\ x.at = "tx"
    BY <1>1, <1>3 DEF CommitCreate, LogReqOK, LogReq
  <2>2. row \in Row /\ row.text = x.text /\ row.files = x.files
    BY <2>1 DEF Row
  <2>3. messages' = [messages EXCEPT ![x.id] = row] /\ Commit("create", {x.id}, x.text)
        /\ req' = [req EXCEPT ![r].at = "ready", ![r].no = Len(history')]
        /\ attachments' = (IF x.files THEN attachments \cup {x.id} ELSE attachments)
        /\ UNCHANGED <<listening, opened, told, dropped, silent>>
    BY <1>3 DEF CommitCreate
  <2> HIDE DEF row
  <2>4. messages' \in [MessageId -> Row \cup {NoRow}] /\ messages'[x.id] = row
        /\ \A j \in MessageId : j # x.id => messages'[j] = messages[j]
    BY <1>1, <2>1, <2>2, <2>3
  <2>5. attachments' \subseteq Live' /\ FilesAttached'
    BY <1>1, <1>2, <2>1, <2>2, <2>3, <2>4 DEF Live, FilesAttached
  <2>6. \A j \in attachments : j \in attachments'
    BY <2>3
  <2>7. x.text \in Text \cup {NoText} /\ "create" \in {"create", "edit", "delete"}
        /\ x.at \in {"idle", "tx"} /\ messages'[x.id].text = x.text
    BY <2>1, <2>2, <2>4
  <2> PICK m, text : m = x.id /\ text = x.text
    OBVIOUS
  <2>8. /\ m \in MessageId /\ text \in Text \cup {NoText} /\ Commit("create", {m}, text)
        /\ messages'[m].text = text /\ \A j \in MessageId : j # m => messages'[j] = messages[j]
    BY <2>1, <2>3, <2>4, <2>7
  <2>9. \A j \in attachments : j \in attachments' \/ (j = m /\ "create" = "delete")
    BY <2>6
  <2>10. messages' \in [MessageId -> Row \cup {NoRow}] /\ req[r].at \in {"idle", "tx"}
         /\ "create" \in {"create", "edit", "delete"}
    BY <2>4, <2>7
  <2>11. req' = [req EXCEPT ![r].at = "ready", ![r].no = Len(history')]
         /\ UNCHANGED <<listening, opened, told, dropped, silent>>
    BY <2>3
  <2> HIDE DEF x
  <2>12. attachments' \subseteq Live' /\ FilesAttached'
    BY <2>5
  <2> QED
    BY <2>8, <2>9, <2>10, <2>11, <2>12, RequestCommitKeeps
<1>4. CASE \E m \in MessageId, text \in Text : EditMessage(r, m, text)
  <2> PICK m \in MessageId, text \in Text : EditMessage(r, m, text)
    BY <1>4
  <2> DEFINE row == [messages[m] EXCEPT !.text = text]
  <2>1. messages[m] \in Row /\ req[r].at = "idle"
    BY <1>1 DEF EditMessage, Live, Idle
  <2>2. row \in Row /\ row.text = text /\ row.files = messages[m].files
    BY <2>1 DEF Row
  <2>3. messages' = [messages EXCEPT ![m] = row]
    BY <1>1 DEF EditMessage
  <2> HIDE DEF row
  <2>4. messages' \in [MessageId -> Row \cup {NoRow}] /\ messages'[m] = row
        /\ \A j \in MessageId : j # m => messages'[j] = messages[j]
    BY <1>1, <2>2, <2>3
  <2>5. m \in Live /\ attachments' = attachments
    BY DEF EditMessage
  <2>6. attachments' \subseteq Live' /\ FilesAttached'
    BY <1>1, <1>2, <2>2, <2>4, <2>5 DEF Live, FilesAttached
  <2>7. Commit("edit", {m}, text) /\ UNCHANGED <<listening, opened, told, dropped, silent>>
        /\ req' = [req EXCEPT ![r].at = "ready", ![r].no = Len(history')]
    BY DEF EditMessage
  <2>8. text \in Text \cup {NoText} /\ "edit" \in {"create", "edit", "delete"}
        /\ messages'[m].text = text /\ req[r].at \in {"idle", "tx"}
    BY <2>1, <2>2, <2>4
  <2> QED
    BY <2>4, <2>5, <2>6, <2>7, <2>8, RequestCommitKeeps
<1>5. CASE \E m \in MessageId : DeleteMessage(r, m)
  <2> PICK m \in MessageId : DeleteMessage(r, m)
    BY <1>5
  <2>1. messages' = [messages EXCEPT ![m] = NoRow] /\ attachments' = attachments \ {m}
        /\ Commit("delete", {m}, NoText) /\ UNCHANGED <<listening, opened, told, dropped, silent>>
        /\ req' = [req EXCEPT ![r].at = "ready", ![r].no = Len(history')] /\ req[r] = Idle
    BY DEF DeleteMessage
  <2>2. messages' \in [MessageId -> Row \cup {NoRow}] /\ messages'[m] = NoRow
        /\ \A j \in MessageId : j # m => messages'[j] = messages[j]
    BY <1>1, <2>1
  <2>3. attachments' \subseteq Live' /\ FilesAttached'
    BY <1>1, <1>2, <2>1, <2>2 DEF Live, FilesAttached
  <2>4. \A j \in attachments : j \in attachments' \/ (j = m /\ "delete" = "delete")
    BY <2>1
  <2>5. NoText \in Text \cup {NoText} /\ "delete" \in {"create", "edit", "delete"}
        /\ messages'[m].text = NoText /\ req[r].at \in {"idle", "tx"}
    BY <1>2, <2>1, <2>2 DEF Idle
  <2> QED
    BY <2>1, <2>2, <2>3, <2>4, <2>5, RequestCommitKeeps
<1> QED
  BY <1>3, <1>4, <1>5

LEMMA TableRests ==
  ASSUME UNCHANGED <<messages, attachments, history>>
  PROVE  /\ \A p, n : PageCurrent(p, n) => PageCurrent(p, n)'
         /\ \A p, n : ToBeWhole(p, n) => ToBeWhole(p, n)'
         /\ \A p, n : Whole(p, n) => Whole(p, n)'
         /\ \A n, k : CrossedSince(n, k) => CrossedSince(n, k)'
<1>1. \A p, n : PageCurrent(p, n) => PageCurrent(p, n)'
  BY DEF PageCurrent, ChangesOf, Live
<1>2. \A p, n : ToBeWhole(p, n) => ToBeWhole(p, n)'
  BY DEF ToBeWhole, DeletedSince, ChangesOf
<1>3. \A p, n : Whole(p, n) => Whole(p, n)'
  BY DEF Whole, DeletedSince, ChangesOf
<1>4. \A n, k : CrossedSince(n, k) => CrossedSince(n, k)'
  BY DEF CrossedSince
<1> QED
  BY <1>1, <1>2, <1>3, <1>4

LEMMA BeginEmitKeeps ==
  ASSUME LogInv, NEW r \in Request, BeginEmit(r)
  PROVE  LogInv'
<1> DEFINE y == [req[r] EXCEPT !.at = "emit", !.todo = listening]
           late(q) == [req[q] EXCEPT !.gap = @ \cup {req[r].no}]
           z(q) == IF req[q].at \in {"attachments", "subscribe"} THEN late(q) ELSE req[q]
<1>1. LogTypes /\ req[r].at = "ready" /\ Len(history) \in Nat /\ DOMAIN history = 1..Len(history)
      /\ UNCHANGED <<messages, attachments, history, listening, opened, told, dropped, silent>>
      /\ req' = [q \in Request |-> IF q = r THEN y ELSE z(q)]
  BY HistoryFacts DEF LogInv, BeginEmit
<1>2. \A q \in Request : req[q] \in LogReq /\ LogReqOK(req[q])
  BY DEF LogInv, LogTypes
<1>3. req[r].no # 0 /\ req[r].no \in DOMAIN history
  BY <1>1, <1>2 DEF LogReqOK, LogReq
<1>4. y \in LogReq /\ y.at = "emit" /\ y.no = req[r].no /\ y.todo = listening
  BY <1>1, <1>2 DEF LogReq
<1>5. \A q \in Request : /\ late(q) \in LogReq /\ late(q).at = req[q].at /\ late(q).todo = req[q].todo
                         /\ late(q).no = req[q].no /\ late(q).page = req[q].page
                         /\ late(q).seen = req[q].seen /\ late(q).gap = req[q].gap \cup {req[r].no}
                         /\ late(q).session = req[q].session
  BY <1>1, <1>2, <1>3 DEF LogReq
<1> HIDE DEF y, late
<1>6. req' \in [Request -> LogReq] /\ req'[r] = y /\ \A q \in Request : q # r => req'[q] = z(q)
  BY <1>1, <1>2, <1>4, <1>5
<1>7. \A q \in Request : q # r => req'[q].at = req[q].at /\ req'[q].no = req[q].no /\ req'[q].todo = req[q].todo
  BY <1>5, <1>6
<1>8. ASSUME NEW p, NEW n, NEW k, Covered(p, n), k = n \cup {req[r].no} PROVE Covered(p, k)'
  <2>1. SUFFICES ASSUME NEW l \in DOMAIN history, ~(l <= p), l \notin k \cup silent,
                        history[l].kind # "cascade"
                 PROVE  \E q \in Request : req'[q].no = l /\ req'[q].at = "ready"
    BY <1>1 DEF Covered
  <2> QED
    BY <1>7, <1>8, <2>1 DEF Covered
<1>9. \A q \in Request : LogReqOK(req[q])'
  <2>1. LogReqOK(req[r])'
    BY <1>1, <1>2, <1>3, <1>4, <1>6, TableRests DEF LogReqOK
  <2>2. ASSUME NEW q \in Request, q # r PROVE LogReqOK(req[q])'
    <3> PICK x : x = req[q]
      OBVIOUS
    <3> PICK f : f = req'[q]
      OBVIOUS
    <3>1. f = z(q) /\ LogReqOK(x)
      BY <1>2, <1>6, <2>2
    <3>2. CASE x.at \in {"attachments", "subscribe"}
      <4>1. f = late(q)
        BY <3>1, <3>2
      <4>2. f.at = x.at /\ f.todo = x.todo /\ f.no = x.no /\ f.page = x.page /\ f.seen = x.seen
            /\ f.session = x.session /\ f.gap = x.gap \cup {req[r].no}
        BY <1>5, <4>1
      <4>3. Covered(x.seen, x.gap)
        BY <3>1, <3>2 DEF LogReqOK
      <4>4. Covered(f.seen, f.gap)'
        BY <1>8, <4>2, <4>3
      <4>5. LogReqOK(f)'
        BY <1>1, <3>1, <3>2, <4>2, <4>4, TableRests DEF LogReqOK
      <4> QED
        BY <4>5 DEF LogReqOK
    <3>3. CASE x.at \notin {"attachments", "subscribe"}
      <4>1. f = x
        BY <3>1, <3>3
      <4>2. LogReqOK(x)'
        BY <1>1, <3>1, <3>3, TableRests DEF LogReqOK
      <4> QED
        BY <4>1, <4>2 DEF LogReqOK
    <3> QED
      BY <3>2, <3>3
  <2> QED
    BY <2>1, <2>2
<1>10. LogTypes' /\ TableCurrent' /\ FilesAttached'
  BY <1>1, <1>6 DEF LogInv, LogTypes, TableCurrent, FilesAttached, LogReq, Opened, Live, ChangesOf
<1>11. \A s \in Session : SessionOK(s)'
  BY <1>1, TableRests DEF LogInv, SessionOK, InOrder
<1>12. OnlyTheGapIsMissed'
  BY <1>1, <1>4, <1>6, <1>7 DEF LogInv, SessionOK, OnlyTheGapIsMissed, StillToTell
<1> QED
  BY <1>9, <1>10, <1>11, <1>12 DEF LogInv

LEMMA SendKeeps ==
  ASSUME LogInv, NEW r \in Request, NEW s \in Session, Send(r, s)
  PROVE  LogInv'
<1> DEFINE x == req[r]
           y == [x EXCEPT !.todo = @ \ {s}]
<1>1. LogTypes /\ x.at = "emit" /\ s \in x.todo /\ Len(history) \in Nat /\ DOMAIN history = 1..Len(history)
      /\ UNCHANGED <<messages, attachments, history, listening, opened, silent>>
      /\ x \in LogReq /\ LogReqOK(x)
  BY HistoryFacts DEF LogInv, LogTypes, Send
<1>2. y \in LogReq /\ y.at = "emit" /\ y.no = x.no /\ y.todo = x.todo \ {s}
  BY <1>1 DEF LogReq
<1>3. LogReqOK(y)
  BY <1>1, <1>2 DEF LogReqOK
<1>4. req' = [req EXCEPT ![r] = y]
  BY <1>1 DEF Send, LogTypes
<1> HIDE DEF y
<1>5. req' \in [Request -> LogReq] /\ req'[r] = y /\ \A q \in Request : q # r => req'[q] = req[q]
  BY <1>1, <1>2, <1>4 DEF LogTypes
<1>6. x.no \in DOMAIN history /\ CrossedSince(x.no, Len(history))
  BY <1>1 DEF LogReqOK, LogReq
<1>7. /\ told' \in [Session -> Seq(DOMAIN history)] /\ dropped' \in [Session -> SUBSET DOMAIN history]
      /\ \A t \in Session : t # s => told'[t] = told[t] /\ dropped'[t] = dropped[t]
      /\ \/ told'[s] = Append(told[s], x.no) /\ dropped'[s] = dropped[s]
         \/ told'[s] = told[s] /\ dropped'[s] = dropped[s] \cup {x.no}
  <2>1. told[s] \in Seq(DOMAIN history) /\ told \in [Session -> Seq(DOMAIN history)]
        /\ dropped \in [Session -> SUBSET DOMAIN history]
    BY <1>1 DEF LogTypes
  <2>2. Append(told[s], x.no) \in Seq(DOMAIN history)
    BY <1>6, <2>1, AppendProperties
  <2>3. CASE told' = [told EXCEPT ![s] = Append(@, req[r].no)] /\ UNCHANGED dropped
    BY <2>1, <2>2, <2>3
  <2>4. CASE dropped' = [dropped EXCEPT ![s] = @ \cup {req[r].no}] /\ UNCHANGED told
    BY <1>6, <2>1, <2>4
  <2> QED
    BY <2>3, <2>4 DEF Send
<1>8. LogTypes' /\ TableCurrent' /\ FilesAttached'
  BY <1>1, <1>5, <1>7 DEF LogInv, LogTypes, TableCurrent, FilesAttached, LogReq, Opened, Live, ChangesOf
<1>9. ASSUME NEW p, NEW n, Covered(p, n) PROVE Covered(p, n)'
  <2>1. \A q \in Request : req[q].at = "ready" => req'[q] = req[q]
    BY <1>1, <1>5
  <2> QED
    BY <1>1, <1>9, <2>1 DEF Covered
<1>10. \A q \in Request : LogReqOK(req[q])'
  <2>1. ASSUME NEW f, LogReqOK(f) PROVE LogReqOK(f)'
    BY <1>1, <1>9, <2>1, TableRests DEF LogReqOK
  <2>2. ASSUME NEW q \in Request PROVE LogReqOK(req[q])'
    <3> PICK f : f = req'[q]
      OBVIOUS
    <3>1. LogReqOK(f)
      BY <1>3, <1>5 DEF LogInv
    <3>2. LogReqOK(f)'
      BY <2>1, <3>1
    <3> QED
      BY <3>2 DEF LogReqOK
  <2> QED
    BY <2>2
<1>11. Len(told[s]) \in Nat /\ DOMAIN told[s] = 1..Len(told[s])
  BY <1>1, ToldFacts
<1>14. \/ told'[s] = told[s] /\ x.no \in dropped'[s]
       \/ /\ DOMAIN told'[s] = 1..Len(told[s]) + 1 /\ told'[s][Len(told[s]) + 1] = x.no
          /\ \A i \in 1..Len(told[s]) : told'[s][i] = told[s][i]
  <2>1. CASE told'[s] = Append(told[s], x.no)
    <3> PICK seq : seq = Append(told[s], x.no)
      OBVIOUS
    <3>1. told[s] \in Seq(DOMAIN history)
      BY <1>1 DEF LogTypes
    <3>2. seq \in Seq(DOMAIN history) /\ Len(seq) = Len(told[s]) + 1
          /\ \A i \in 1..Len(told[s]) : seq[i] = told[s][i]
          /\ seq[Len(told[s]) + 1] = x.no
      BY <1>6, <1>11, <3>1, AppendProperties
    <3> QED
      BY <2>1, <3>2, LenProperties
  <2> QED
    BY <1>7, <2>1
<1>15. \A i \in DOMAIN told'[s] :
         /\ i \in 1..Len(told[s]) + 1
         /\ \/ i \in DOMAIN told[s] /\ told'[s][i] = told[s][i]
            \/ i = Len(told[s]) + 1 /\ told'[s][i] = x.no
  BY <1>11, <1>14
<1>12. \A t \in Session : SessionOK(t)'
  <2>1. ASSUME NEW t \in Session, t # s PROVE SessionOK(t)'
    BY <1>1, <1>7, <2>1, TableRests DEF LogInv, SessionOK, InOrder
  <2>2. SessionOK(s)'
    <3>1. SessionOK(s) /\ opened[s].seen \in 0..Len(history)
      BY <1>1 DEF LogInv, LogTypes, Opened
    <3>2. \A i \in DOMAIN told[s] : told[s][i] \in DOMAIN history
      BY <1>1, ToldFacts
    <3>3. InOrder(s)'
      <4>1. SUFFICES ASSUME NEW i \in DOMAIN told'[s], NEW j \in DOMAIN told'[s], i < j,
                            told'[s][i] > told'[s][j],
                            history[told'[s][i]].ids \cap history[told'[s][j]].ids # {}
                     PROVE  ~history[told'[s][i]].alone
        BY <1>1 DEF InOrder
      <4>2. i \in DOMAIN told[s] /\ told'[s][i] = told[s][i] /\ i \in Nat /\ j \in Nat
        BY <1>11, <1>15, <4>1
      <4>3. CASE j \in DOMAIN told[s] /\ told'[s][j] = told[s][j]
        BY <3>1, <4>1, <4>2, <4>3 DEF SessionOK, InOrder
      <4>4. CASE told'[s][j] = x.no
        BY <1>1, <1>6, <3>2, <4>1, <4>2, <4>4 DEF CrossedSince
      <4> QED
        BY <1>15, <4>3, <4>4
    <3>4. ASSUME NEW i \in DOMAIN told'[s], NEW n, n = told'[s][i] PROVE CrossedSince(n, opened[s].seen)
      <4>1. CASE i \in DOMAIN told[s] /\ n = told[s][i]
        BY <3>1, <4>1 DEF SessionOK
      <4>2. CASE n = x.no
        BY <1>1, <1>6, <3>1, <4>2 DEF CrossedSince
      <4> QED
        BY <1>15, <3>4, <4>1, <4>2
    <3>5. \A i \in DOMAIN told'[s] : CrossedSince(told[s][i], opened[s].seen)'
      BY <1>1, <3>4 DEF CrossedSince
    <3> QED
      BY <1>1, <3>1, <3>3, <3>5, TableRests DEF SessionOK
  <2> QED
    BY <2>1, <2>2
<1>13. OnlyTheGapIsMissed'
  <2>1. SUFFICES ASSUME NEW t \in Session, opened[t].open, NEW n \in DOMAIN history
                 PROVE  \/ n <= opened[t].seen
                        \/ n \in Range(told'[t]) \/ StillToTell(n, t)'
                        \/ n \in dropped'[t] \cup opened[t].gap \cup silent
                        \/ history[n].kind = "cascade"
    BY <1>1 DEF OnlyTheGapIsMissed
  <2>2. \/ n <= opened[t].seen
        \/ n \in Range(told[t]) \/ StillToTell(n, t)
        \/ n \in dropped[t] \cup opened[t].gap \cup silent \/ history[n].kind = "cascade"
    BY <2>1 DEF LogInv, OnlyTheGapIsMissed
  <2>3. Range(told[t]) \subseteq Range(told'[t]) /\ dropped[t] \subseteq dropped'[t]
    <3>1. CASE t = s
      <4>1. ASSUME NEW i \in DOMAIN told[s] PROVE told[s][i] \in Range(told'[s])
        <5>1. i \in DOMAIN told'[s] /\ told'[s][i] = told[s][i]
          BY <1>11, <1>14
        <5> QED
          BY <5>1 DEF Range
      <4> QED
        BY <1>7, <3>1, <4>1 DEF Range
    <3> QED
      BY <1>7, <3>1
  <2>4. StillToTell(n, t) => StillToTell(n, t)' \/ (n = x.no /\ t = s)
    BY <1>1, <1>2, <1>5 DEF StillToTell
  <2>5. x.no \in Range(told'[s]) \cup dropped'[s]
    BY <1>11, <1>14 DEF Range
  <2> QED
    BY <2>2, <2>3, <2>4, <2>5
<1> QED
  BY <1>8, <1>10, <1>12, <1>13 DEF LogInv

LEMMA SubscriptionsKeep ==
  ASSUME LogInv,
         (\E r \in Request : SetChannel(r)) \/ (\E s \in Session : LeaveChannel(s))
  PROVE  LogInv'
<1>1. LogTypes /\ Unlocked /\ Len(history) \in Nat /\ DOMAIN history = 1..Len(history)
      /\ UNCHANGED <<messages, attachments, history, silent>>
  BY HistoryFacts DEF LogInv, SetChannel, LeaveChannel
<1>2. \A q \in Request : req[q] \in LogReq /\ LogReqOK(req[q]) /\ req[q].todo = {} /\ req[q].at # "emit"
  BY <1>1 DEF LogInv, LogTypes, LogReqOK, Unlocked
<1>3. \A x \in LogReq : x.todo = {} => x \in LogReq'
  BY <1>1 DEF LogReq
<1>4. <<>> \in Seq(DOMAIN history)
  BY EmptySeq
<1>5. CASE \E r \in Request : SetChannel(r)
  <2> PICK r \in Request : SetChannel(r)
    BY <1>5
  <2> PICK x, s : x = req[r] /\ s = x.session
    OBVIOUS
  <2> DEFINE o == [page |-> x.page, seen |-> x.seen, gap |-> x.gap, open |-> TRUE]
  <2>1. x \in LogReq /\ LogReqOK(x) /\ x.at = "subscribe" /\ s \in Session
        /\ PageCurrent(x.page, x.seen) /\ Covered(x.seen, x.gap) /\ Whole(x.page, x.seen) /\ x.no = 0
    BY <1>2 DEF SetChannel, LogReqOK
  <2>2. o \in Opened /\ o.page = x.page /\ o.seen = x.seen /\ o.gap = x.gap /\ o.open = TRUE
    BY <2>1 DEF LogReq, Opened
  <2>3. req' = [req EXCEPT ![r] = Idle] /\ listening' = listening \cup {s}
        /\ opened' = [opened EXCEPT ![s] = o] /\ told' = [told EXCEPT ![s] = <<>>]
        /\ dropped' = [dropped EXCEPT ![s] = {}]
    BY DEF SetChannel, Answer
  <2> HIDE DEF o
  <2>4. req' \in [Request -> LogReq'] /\ req'[r] = Idle /\ \A q \in Request : q # r => req'[q] = req[q]
    BY <1>1, <1>2, <1>3, <2>3, IdleLogReq DEF LogTypes
  <2>5. /\ opened' \in [Session -> Opened] /\ opened'[s] = o /\ told' \in [Session -> Seq(DOMAIN history)]
        /\ told'[s] = <<>> /\ dropped' \in [Session -> SUBSET DOMAIN history]
        /\ \A t \in Session : t # s => opened'[t] = opened[t] /\ told'[t] = told[t] /\ dropped'[t] = dropped[t]
    BY <1>1, <1>4, <2>1, <2>2, <2>3 DEF LogTypes
  <2>6. LogTypes' /\ TableCurrent' /\ FilesAttached'
    BY <1>1, <2>1, <2>3, <2>4, <2>5 DEF LogInv, LogTypes, TableCurrent, FilesAttached, Opened, Live, ChangesOf
  <2>7. ASSUME NEW p, NEW n, Covered(p, n) PROVE Covered(p, n)'
    <3>1. \A q \in Request : req[q].at = "ready" => req'[q] = req[q]
      BY <2>1, <2>4
    <3> QED
      BY <1>1, <2>7, <3>1 DEF Covered
  <2>8. \A q \in Request : LogReqOK(req[q])'
    <3>1. ASSUME NEW q \in Request PROVE LogReqOK(req[q])'
      <4> PICK f : f = req'[q]
        OBVIOUS
      <4>1. LogReqOK(f)
        BY <1>1, <1>2, <2>4, IdleLogReq
      <4>2. LogReqOK(f)'
        BY <1>1, <2>7, <4>1, TableRests DEF LogReqOK
      <4> QED
        BY <4>2 DEF LogReqOK
    <3> QED
      BY <3>1
  <2>9. \A t \in Session : SessionOK(t)'
    <3>1. ASSUME NEW t \in Session, t # s PROVE SessionOK(t)'
      BY <1>1, <2>3, <2>5, <3>1, TableRests DEF LogInv, SessionOK, InOrder
    <3>2. SessionOK(s)'
      <4>1. DOMAIN told'[s] = {}
        BY <2>5
      <4>2. PageCurrent(x.page, x.seen)' /\ Whole(x.page, x.seen)'
        BY <1>1, <2>1, TableRests
      <4>3. opened'[s].page = x.page /\ opened'[s].seen = x.seen /\ s \in listening'
        BY <2>2, <2>3, <2>5
      <4> QED
        BY <4>1, <4>2, <4>3 DEF SessionOK, InOrder
    <3> QED
      BY <3>1, <3>2
  <2>10. OnlyTheGapIsMissed'
    <3>1. \A q \in Request : req[q].at = "ready" => req'[q] = req[q]
      BY <2>1, <2>4
    <3>2. ASSUME NEW t \in Session, t # s, opened[t].open, NEW n \in DOMAIN history
          PROVE  \/ n <= opened[t].seen
                 \/ n \in Range(told[t]) \/ StillToTell(n, t)'
                 \/ n \in dropped[t] \cup opened[t].gap \cup silent \/ history[n].kind = "cascade"
      <4>1. \/ n <= opened[t].seen
            \/ n \in Range(told[t]) \/ StillToTell(n, t)
            \/ n \in dropped[t] \cup opened[t].gap \cup silent \/ history[n].kind = "cascade"
        BY <3>2 DEF LogInv, OnlyTheGapIsMissed
      <4>2. StillToTell(n, t) => StillToTell(n, t)'
        BY <1>2, <3>1 DEF StillToTell
      <4> QED
        BY <4>1, <4>2
    <3>3. ASSUME NEW n \in DOMAIN history
          PROVE  n <= x.seen \/ StillToTell(n, s)' \/ n \in x.gap \cup silent
                 \/ history[n].kind = "cascade"
      BY <2>1, <3>1 DEF Covered, StillToTell
    <3> QED
      BY <1>1, <2>2, <2>5, <3>2, <3>3 DEF OnlyTheGapIsMissed
  <2> QED
    BY <2>6, <2>8, <2>9, <2>10 DEF LogInv
<1>6. CASE \E s \in Session : LeaveChannel(s)
  <2> PICK s \in Session : LeaveChannel(s)
    BY <1>6
  <2>1. NotOpen \in Opened /\ NotOpen.open = FALSE /\ NotOpen.page = {}
    BY <1>1 DEF NotOpen, Opened
  <2>2. req' = req /\ listening' = listening \ {s}
        /\ opened' = [opened EXCEPT ![s] = NotOpen] /\ told' = [told EXCEPT ![s] = <<>>]
        /\ dropped' = [dropped EXCEPT ![s] = {}]
    BY DEF LeaveChannel
  <2>3. req' \in [Request -> LogReq']
    BY <1>1, <1>2, <1>3, <2>2 DEF LogTypes
  <2>4. /\ opened' \in [Session -> Opened] /\ opened'[s] = NotOpen /\ told' \in [Session -> Seq(DOMAIN history)]
        /\ told'[s] = <<>> /\ dropped' \in [Session -> SUBSET DOMAIN history]
        /\ \A t \in Session : t # s => opened'[t] = opened[t] /\ told'[t] = told[t] /\ dropped'[t] = dropped[t]
    BY <1>1, <1>4, <2>1, <2>2 DEF LogTypes
  <2>5. LogTypes' /\ TableCurrent' /\ FilesAttached'
    BY <1>1, <2>2, <2>3, <2>4 DEF LogInv, LogTypes, TableCurrent, FilesAttached, Opened, Live, ChangesOf
  <2>6. \A q \in Request : LogReqOK(req[q])'
    BY <1>1, <1>2, <2>2, TableRests DEF LogReqOK, Covered
  <2>7. \A t \in Session : SessionOK(t)'
    <3>1. ASSUME NEW t \in Session, t # s PROVE SessionOK(t)'
      BY <1>1, <2>2, <2>4, <3>1, TableRests DEF LogInv, SessionOK, InOrder
    <3>2. SessionOK(s)'
      <4>1. DOMAIN told'[s] = {}
        BY <2>4
      <4> QED
        BY <2>1, <2>4, <4>1 DEF SessionOK, InOrder, Whole
    <3> QED
      BY <3>1, <3>2
  <2>8. OnlyTheGapIsMissed'
    BY <1>1, <2>1, <2>2, <2>4 DEF LogInv, OnlyTheGapIsMissed, StillToTell
  <2> QED
    BY <2>5, <2>6, <2>7, <2>8 DEF LogInv
<1> QED
  BY <1>5, <1>6

LEMMA LogInit == ASSUME Init PROVE LogInv
<1>1. history = <<>> /\ DOMAIN history = {} /\ Len(history) = 0 /\ <<>> \in Seq(Change)
      /\ <<>> \in Seq(DOMAIN history)
  BY EmptySeq DEF Init
<1>2. Idle \in LogReq /\ NotOpen \in Opened
  BY <1>1 DEF Idle, LogReq, NotOpen, Opened
<1>3. LogTypes
  BY <1>1, <1>2 DEF Init, LogTypes
<1>4. TableCurrent /\ FilesAttached
  BY <1>1 DEF Init, TableCurrent, FilesAttached, Live
<1>5. \A r \in Request : LogReqOK(req[r])
  BY <1>3, IdleLogReq DEF Init
<1>6. \A s \in Session : SessionOK(s)
  <2>1. ASSUME NEW s \in Session PROVE SessionOK(s)
    <3>1. opened[s] = NotOpen /\ NotOpen.open = FALSE /\ NotOpen.page = {} /\ DOMAIN told[s] = {}
      BY DEF Init, NotOpen
    <3> QED
      BY <3>1 DEF SessionOK, Whole, InOrder
  <2> QED
    BY <2>1
<1> QED
  BY <1>1, <1>3, <1>4, <1>5, <1>6 DEF LogInv, OnlyTheGapIsMissed

LEMMA LogNext == ASSUME LogInv, [Next]_vars PROVE LogInv'
<1>1. CASE Next
  BY <1>1, LogRequestsKeep, PagesKeep, ChangesKeep, CascadeKeeps, BeginEmitKeeps, SendKeeps, SubscriptionsKeep
     DEF Next
<1>2. CASE UNCHANGED vars
  <2>1. UNCHANGED <<messages, attachments, history, req, listening, opened, told, dropped, silent>>
    BY <1>2 DEF vars
  <2>2. LogTypes' /\ TableCurrent' /\ FilesAttached'
    BY <2>1 DEF LogInv, LogTypes, TableCurrent, FilesAttached, LogReq, Opened, Live, ChangesOf
  <2>3. \A r \in Request : LogReqOK(req[r])'
    BY <2>1, TableRests DEF LogInv, LogReqOK, Covered
  <2>4. \A s \in Session : SessionOK(s)'
    BY <2>1, TableRests DEF LogInv, SessionOK, InOrder
  <2>5. OnlyTheGapIsMissed'
    BY <2>1 DEF LogInv, OnlyTheGapIsMissed, StillToTell
  <2> QED
    BY <2>2, <2>3, <2>4, <2>5 DEF LogInv
<1> QED
  BY <1>1, <1>2

LEMMA LogInvConverges == ASSUME LogInv PROVE ViewConverges
<1> SUFFICES ASSUME NEW s \in Session, NEW m \in MessageId, opened[s].open, Settled(m), Heard(s, m)
             PROVE  View(s, m) = {messages[m].text} \ {NoText}
  BY DEF ViewConverges
<1> DEFINE about == {i \in DOMAIN told[s] : m \in history[told[s][i]].ids}
           last == CHOOSE i \in about : \A j \in about : j <= i
           page == {x \in opened[s].page : x.id = m}
<1>1. LogTypes /\ SessionOK(s) /\ TableCurrent /\ messages[m] \in Row \cup {NoRow}
  BY DEF LogInv, LogTypes
<1>2. /\ NoRow.text = NoText /\ \A row \in Row : row.text # NoText
      /\ (m \in Live <=> messages[m] # NoRow)
  BY NoValueAssumption DEF NoRow, Row, Live
<1>3. Len(told[s]) \in Nat /\ about \subseteq 0..Len(told[s])
      /\ \A i \in DOMAIN told[s] : told[s][i] \in DOMAIN history
  BY <1>1, ToldFacts
<1>4. Len(history) \in Nat /\ DOMAIN history = 1..Len(history)
  BY <1>1, HistoryFacts
<1>5. View(s, m) = IF about # {} THEN {history[told[s][last]].text} \ {NoText}
                   ELSE {e.text : e \in page}
  BY DEF View
<1>6. CASE about = {}
  <2>1. \A n \in ChangesOf(m) : n <= opened[s].seen
    <3>1. ASSUME NEW n \in ChangesOf(m), n \in Range(told[s]) PROVE FALSE
      <4>1. PICK i \in DOMAIN told[s] : told[s][i] = n
        BY <3>1 DEF Range
      <4> QED
        BY <1>6, <3>1, <4>1 DEF ChangesOf
    <3> QED
      BY <3>1 DEF Heard
  <2>2. /\ \A e \in opened[s].page : e.id = m => m \in Live /\ e.text = messages[m].text
        /\ m \in Live => \E e \in opened[s].page : e.id = m
    BY <1>1, <2>1 DEF SessionOK, PageCurrent
  <2>3. {e.text : e \in page} = {messages[m].text} \ {NoText}
    <3>1. CASE m \in Live
      <4>1. page # {} /\ \A e \in page : e.text = messages[m].text
        BY <2>2, <3>1
      <4>2. messages[m].text # NoText
        BY <1>1, <1>2, <3>1
      <4> QED
        BY <4>1, <4>2
    <3>2. CASE m \notin Live
      <4>1. page = {} /\ messages[m].text = NoText
        BY <1>2, <2>2, <3>2
      <4> QED
        BY <4>1
    <3> QED
      BY <3>1, <3>2
  <2> QED
    BY <1>5, <1>6, <2>3
<1>7. CASE about # {}
  <2>1. \E i \in about : \A j \in about : j <= i
    BY <1>3, <1>7, Greatest
  <2>2. last \in about /\ \A j \in about : j <= last
    BY <2>1
  <2> DEFINE n == told[s][last]
  <2> HIDE DEF last
  <2>3. n \in DOMAIN history /\ m \in history[n].ids /\ last \in DOMAIN told[s] /\ n \in Nat
    BY <1>3, <1>4, <2>2
  <2>4. ASSUME NEW k \in ChangesOf(m) PROVE k <= n
    <3>1. k \in DOMAIN history /\ m \in history[k].ids /\ history[k].alone /\ k \in Nat
      BY <1>4 DEF ChangesOf, Settled
    <3>2. CASE k <= opened[s].seen
      <4>1. CrossedSince(n, opened[s].seen)
        BY <1>1, <2>3 DEF SessionOK
      <4> QED
        BY <2>3, <3>1, <3>2, <4>1 DEF CrossedSince
    <3>3. CASE k \in Range(told[s])
      <4>1. PICK i \in DOMAIN told[s] : told[s][i] = k
        BY <3>3 DEF Range
      <4>2. i \in about
        BY <3>1, <4>1
      <4>3. i <= last /\ i \in Nat /\ last \in Nat
        BY <1>3, <2>2, <4>2
      <4>4. CASE i = last
        BY <2>3, <4>1, <4>4
      <4>5. CASE i < last
        BY <1>1, <2>3, <3>1, <4>1, <4>5 DEF SessionOK, InOrder
      <4> QED
        BY <4>3, <4>4, <4>5
    <3> QED
      BY <3>2, <3>3 DEF Heard
  <2>5. messages[m].text = history[n].text
    BY <1>1, <2>3, <2>4 DEF TableCurrent
  <2> QED
    BY <1>5, <1>7, <2>5
<1> QED
  BY <1>6, <1>7

LEMMA LogInvSuffices == ASSUME LogInv PROVE TypeOK /\ PageWhole
<1>1. TypeOK
  BY DEF LogInv, LogTypes, TypeOK, LogReq, Opened
<1>2. PageWhole
  BY DEF LogInv, SessionOK, Whole, DeletedSince, PageWhole
<1> QED
  BY <1>1, <1>2

(***************************************************************************)
(* Paging: pages                                                           *)
(***************************************************************************)
LEMMA NumbersAreFinite ==
  ASSUME NEW n \in Nat, NEW S \in SUBSET (0..n)
  PROVE  IsFiniteSet(S) /\ Cardinality(S) \in Nat /\ S \in SUBSET Nat
<1>1. S \in SUBSET Nat /\ \A m \in S : m <= n
  OBVIOUS
<1>2. IsFiniteSet(S)
  BY <1>1, FS_BoundedSetOfNaturals
<1> QED
  BY <1>1, <1>2, FS_CardinalityType

LEMMA MaxIsGreatest ==
  ASSUME NEW n \in Nat, NEW S \in SUBSET (0..n), S # {}
  PROVE  Pages!Max(S) \in S /\ \A m \in S : m <= Pages!Max(S)
<1>1. \E x \in S : \A y \in S : x >= y
  <2>1. PICK x \in S : \A y \in S : y <= x
    BY Greatest
  <2> QED
    BY <2>1
<1>2. Pages!Max(S) \in S /\ \A y \in S : Pages!Max(S) >= y
  BY <1>1 DEF Pages!Max
<1> QED
  BY <1>2

LEMMA MinIsLeast ==
  ASSUME NEW S \in SUBSET Nat, S # {}
  PROVE  Pages!Min(S) \in S /\ \A m \in S : Pages!Min(S) <= m
<1>1. \E x \in S : \A y \in S : x <= y
  BY Least
<1>2. Pages!Min(S) \in S /\ \A y \in S : Pages!Min(S) <= y
  BY <1>1 DEF Pages!Min
<1> QED
  BY <1>2

LEMMA NoneAreZero == Cardinality({}) = 0
BY FS_EmptySet

(* What is before and after a message, and what is on a page.              *)
Before(S, m) == {n \in S : n < m}
After(S, m) == {n \in S : n > m}

LEMMA PageOf ==
  ASSUME NEW S
  PROVE  /\ \A m : m \in Pages!Descending(S) <=> m \in S /\ Cardinality(After(S, m)) < Limit
         /\ \A m : m \in Pages!Ascending(S) <=> m \in S /\ Cardinality(Before(S, m)) < Limit
         /\ Pages!Descending(S) \subseteq S /\ Pages!Ascending(S) \subseteq S
<1>1. \A X : Pages!Cardinality(X) = Cardinality(X)
  BY DEF Cardinality, Pages!Cardinality
<1> QED
  BY <1>1 DEF Pages!Descending, Pages!Ascending, Before, After

LEMMA ShortPage == \A page : Pages!Short(page) <=> Cardinality(page) < Limit
<1>1. \A X : Pages!Cardinality(X) = Cardinality(X)
  BY DEF Cardinality, Pages!Cardinality
<1> QED
  BY <1>1 DEF Pages!Short

(* In an order of the messages by either direction: a page has no gaps,    *)
(* and it has all there are when it is short.  rest[m] is what comes before*)
(* m on the way.                                                           *)
LEMMA PageIsPrefix ==
  ASSUME NEW n \in Nat, NEW S \in SUBSET (0..n), NEW rest \in [S -> SUBSET S], NEW page \in SUBSET S,
         \A m \in S : m \in page <=> Cardinality(rest[m]) < Limit,
         \A m \in S : m \notin rest[m]
  PROVE  /\ \A k \in page, m \in S : rest[m] \subseteq rest[k] => m \in page
         /\ \A m \in S : m \notin page /\ rest[m] \subseteq page => ~(Cardinality(page) < Limit)
         /\ \A m \in page : page \subseteq rest[m] \cup {m} => Cardinality(page) <= Limit
<1>1. Limit \in Nat /\ Limit # 0
  BY PagesAssumption
<1>2. \A T \in SUBSET S : IsFiniteSet(T) /\ Cardinality(T) \in Nat
  BY NumbersAreFinite
<1>3. \A m \in S : rest[m] \in SUBSET S
  OBVIOUS
<1>4. ASSUME NEW k \in page, NEW m \in S, rest[m] \subseteq rest[k] PROVE m \in page
  <2>1. Cardinality(rest[m]) <= Cardinality(rest[k])
    BY <1>2, <1>3, <1>4, FS_Subset
  <2>2. Cardinality(rest[m]) \in Nat /\ Cardinality(rest[k]) \in Nat /\ Cardinality(rest[k]) < Limit
    BY <1>2, <1>3
  <2>3. Cardinality(rest[m]) < Limit
    BY <1>1, <2>1, <2>2
  <2> QED
    BY <2>3
<1>5. ASSUME NEW m \in S, m \notin page, rest[m] \subseteq page PROVE ~(Cardinality(page) < Limit)
  <2>1. Cardinality(rest[m]) <= Cardinality(page)
    BY <1>2, <1>5, FS_Subset
  <2>2. Cardinality(rest[m]) \in Nat /\ Cardinality(page) \in Nat /\ ~(Cardinality(rest[m]) < Limit)
    BY <1>2, <1>3, <1>5
  <2> QED
    BY <1>1, <2>1, <2>2
<1>6. ASSUME NEW m \in page, page \subseteq rest[m] \cup {m} PROVE Cardinality(page) <= Limit
  <2>1. m \in S /\ IsFiniteSet(rest[m]) /\ m \notin rest[m]
    BY <1>2, <1>3
  <2>2. IsFiniteSet(rest[m] \cup {m}) /\ Cardinality(rest[m] \cup {m}) = Cardinality(rest[m]) + 1
    BY <2>1, FS_AddElement
  <2>3. Cardinality(page) <= Cardinality(rest[m] \cup {m})
    BY <1>6, <2>2, FS_Subset
  <2>4. Cardinality(rest[m]) \in Nat /\ Cardinality(page) \in Nat /\ Cardinality(rest[m]) < Limit
    BY <1>2, <1>3, <2>1
  <2> QED
    BY <1>1, <2>2, <2>3, <2>4
<1> QED
  BY <1>4, <1>5, <1>6

(* A page of the last messages has what is left when it is short, and all  *)
(* from its first message on otherwise.                                    *)
LEMMA DescendingPage ==
  ASSUME NEW n \in Nat, NEW S \in SUBSET (1..n), NEW page, page = Pages!Descending(S)
  PROVE  /\ page \subseteq S /\ Cardinality(page) <= Limit
         /\ Pages!Short(page) => page = S
         /\ ~Pages!Short(page) =>
              Pages!Min(page) \in 1..n /\ \A m \in S : m >= Pages!Min(page) => m \in page
<1> DEFINE rest == [m \in S |-> After(S, m)]
<1>1. rest \in [S -> SUBSET S] /\ \A m \in S : rest[m] = After(S, m) /\ m \notin rest[m]
  BY DEF After
<1>2. S \in SUBSET (0..n) /\ page \in SUBSET S
  BY PageOf
<1>3. \A m \in S : m \in page <=> Cardinality(rest[m]) < Limit
  BY <1>1, PageOf
<1> HIDE DEF rest
<1>4. /\ \A k \in page, m \in S : rest[m] \subseteq rest[k] => m \in page
      /\ \A m \in S : m \notin page /\ rest[m] \subseteq page => ~(Cardinality(page) < Limit)
      /\ \A m \in page : page \subseteq rest[m] \cup {m} => Cardinality(page) <= Limit
  BY <1>1, <1>2, <1>3, PageIsPrefix
<1>5. S \in SUBSET Nat /\ page \in SUBSET Nat /\ page \in SUBSET (0..n)
  <2>1. page \in SUBSET (0..n)
    BY <1>2
  <2> QED
    BY <1>2, <2>1, NumbersAreFinite
<1>6. Limit \in Nat /\ Limit # 0
  BY PagesAssumption
<1>7. Cardinality(page) <= Limit
  <2>1. CASE page = {}
    BY <1>6, <2>1, NoneAreZero
  <2>2. CASE page # {}
    <3>1. PICK m \in page : \A k \in page : m <= k
      BY <1>5, <2>2, Least
    <3>2. m \in S
      BY <1>2
    <3>3. page \subseteq rest[m] \cup {m}
      BY <1>1, <1>2, <1>5, <3>1, <3>2 DEF After
    <3> QED
      BY <1>4, <3>3
  <2> QED
    BY <2>1, <2>2
<1>8. ASSUME Cardinality(page) < Limit PROVE page = S
  <2>1. SUFFICES ASSUME S \ page # {} PROVE FALSE
    BY <1>2
  <2>2. PICK m \in S \ page : \A k \in S \ page : k <= m
    BY <1>2, <2>1, Greatest
  <2>3. ASSUME NEW k \in rest[m] PROVE k \in page
    <3>1. k \in S /\ k > m
      BY <1>1, <2>2 DEF After
    <3>2. k \in Nat /\ m \in Nat
      BY <1>5, <2>2, <3>1
    <3> QED
      BY <2>2, <3>1, <3>2
  <2> QED
    BY <1>4, <1>8, <2>2, <2>3
<1>9. ASSUME ~(Cardinality(page) < Limit)
      PROVE  Pages!Min(page) \in page /\ \A m \in S : m >= Pages!Min(page) => m \in page
  <2>1. page # {}
    BY <1>6, <1>9, NoneAreZero
  <2>2. Pages!Min(page) \in page
    BY <1>5, <2>1, MinIsLeast
  <2>3. ASSUME NEW m \in S, NEW k \in page, m >= k PROVE m \in page
    <3>1. m \in Nat /\ k \in Nat /\ k \in S
      BY <1>2, <1>5, <2>3
    <3>2. ASSUME NEW x \in rest[m] PROVE x \in rest[k]
      <4>1. x \in S /\ x > m
        BY <1>1, <2>3, <3>2 DEF After
      <4>2. x \in Nat /\ x > k
        BY <1>5, <2>3, <3>1, <4>1
      <4> QED
        BY <1>1, <3>1, <4>1, <4>2 DEF After
    <3> QED
      BY <1>4, <2>3, <3>2
  <2> QED
    BY <2>2, <2>3
<1>10. ~Pages!Short(page) => Pages!Min(page) \in 1..n
  BY <1>2, <1>9, ShortPage
<1> QED
  BY <1>2, <1>7, <1>8, <1>9, <1>10, ShortPage

(* Likewise a page of messages in ascending order, up to its last one.     *)
LEMMA AscendingPage ==
  ASSUME NEW n \in Nat, NEW S \in SUBSET (1..n), NEW page, page = Pages!Ascending(S)
  PROVE  /\ page \subseteq S
         /\ Pages!Short(page) => page = S
         /\ ~Pages!Short(page) =>
              Pages!Max(page) \in 1..n /\ \A m \in S : m <= Pages!Max(page) => m \in page
<1> DEFINE rest == [m \in S |-> Before(S, m)]
<1>1. rest \in [S -> SUBSET S] /\ \A m \in S : rest[m] = Before(S, m) /\ m \notin rest[m]
  BY DEF Before
<1>2. S \in SUBSET (0..n) /\ page \in SUBSET S
  BY PageOf
<1>3. \A m \in S : m \in page <=> Cardinality(rest[m]) < Limit
  BY <1>1, PageOf
<1> HIDE DEF rest
<1>4. /\ \A k \in page, m \in S : rest[m] \subseteq rest[k] => m \in page
      /\ \A m \in S : m \notin page /\ rest[m] \subseteq page => ~(Cardinality(page) < Limit)
  BY <1>1, <1>2, <1>3, PageIsPrefix
<1>5. S \in SUBSET Nat /\ page \in SUBSET Nat /\ page \in SUBSET (0..n)
  <2>1. page \in SUBSET (0..n)
    BY <1>2
  <2> QED
    BY <1>2, <2>1, NumbersAreFinite
<1>6. Limit \in Nat /\ Limit # 0
  BY PagesAssumption
<1>7. ASSUME Cardinality(page) < Limit PROVE page = S
  <2>1. SUFFICES ASSUME S \ page # {} PROVE FALSE
    BY <1>2
  <2>2. PICK m \in S \ page : \A k \in S \ page : m <= k
    BY <1>5, <2>1, Least
  <2>3. ASSUME NEW k \in rest[m] PROVE k \in page
    <3>1. k \in S /\ k < m
      BY <1>1, <2>2 DEF Before
    <3>2. k \in Nat /\ m \in Nat
      BY <1>5, <2>2, <3>1
    <3> QED
      BY <2>2, <3>1, <3>2
  <2> QED
    BY <1>4, <1>7, <2>2, <2>3
<1>8. ASSUME ~(Cardinality(page) < Limit)
      PROVE  Pages!Max(page) \in page /\ \A m \in S : m <= Pages!Max(page) => m \in page
  <2>1. page # {}
    BY <1>6, <1>8, NoneAreZero
  <2>2. Pages!Max(page) \in page
    BY <1>5, <2>1, MaxIsGreatest
  <2>3. ASSUME NEW m \in S, NEW k \in page, m <= k PROVE m \in page
    <3>1. m \in Nat /\ k \in Nat /\ k \in S
      BY <1>2, <1>5, <2>3
    <3>2. ASSUME NEW x \in rest[m] PROVE x \in rest[k]
      <4>1. x \in S /\ x < m
        BY <1>1, <2>3, <3>2 DEF Before
      <4>2. x \in Nat /\ x < k
        BY <1>5, <2>3, <3>1, <4>1
      <4> QED
        BY <1>1, <3>1, <4>1, <4>2 DEF Before
    <3> QED
      BY <1>4, <2>3, <3>2
  <2> QED
    BY <2>2, <2>3
<1>9. ~Pages!Short(page) => Pages!Max(page) \in 1..n
  BY <1>2, <1>8, ShortPage
<1> QED
  BY <1>2, <1>7, <1>8, <1>9, ShortPage

(***************************************************************************)
(* Paging: the inductive invariant                                         *)
(***************************************************************************)
PageReq == [at : {"idle", "tx", "emit", "subscribe"}, id : 0..generated, page : SUBSET (1..generated)]

Telling(m) == \E r \in Request : sending[r].at = "emit" /\ sending[r].id = m

(* What the session has once it is answered a page: from its first message *)
(* on, or all that was left, every message that was not missed since.      *)
From(page) == IF Pages!Short(page) THEN 0 ELSE Pages!Min(page)
Kept(page) ==
  /\ From(page) \in 0..generated
  /\ \A m \in stored : m >= From(page) => m \in page \cup heard \cup missed \/ Telling(m)

PagesInv ==
  /\ Pages!TypeOK /\ Pages!NoHoles
  /\ \A q, r \in Request : sending[q].at = "subscribe" =>
       ~Pages!Asked /\ (sending[r].at = "subscribe" => q = r)
  /\ \A r \in Request : sending[r].at = "subscribe" => Kept(sending[r].page)
  /\ \A r \in Request : sending[r].at \in {"tx", "emit"} => sending[r].id # 0

LEMMA PageTypes ==
  ASSUME PagesInv
  PROVE  /\ generated \in Nat /\ MaxMessages \in Nat /\ generated <= MaxMessages
         /\ stored \in SUBSET (1..generated) /\ low \in Nat /\ low <= MaxMessages + 1
         /\ sending \in [Request -> PageReq]
         /\ \A r \in Request : Cardinality(sending[r].page) <= Limit
         /\ read \in SUBSET (1..generated) /\ heard \in SUBSET (1..generated)
         /\ missed \in SUBSET (1..generated) /\ inRoom \in BOOLEAN
         /\ Pages!Asked <=> low # MaxMessages + 1
<1>1. \A X : Pages!Cardinality(X) = Cardinality(X)
  BY DEF Cardinality, Pages!Cardinality
<1>2. MaxMessages \in Nat
  BY PagesAssumption
<1>3. generated \in 0..MaxMessages /\ low \in 0..(MaxMessages + 1)
  BY DEF PagesInv, Pages!TypeOK, Pages!NotAsked
<1> QED
  BY <1>1, <1>2, <1>3 DEF PagesInv, Pages!TypeOK, PageReq, Pages!Asked, Pages!NotAsked

LEMMA IdlePageReq ==
  ASSUME generated \in Nat
  PROVE  Pages!Idle \in PageReq /\ Cardinality(Pages!Idle.page) <= Limit /\ Pages!Idle.at = "idle"
<1>1. Cardinality({}) <= Limit
  BY NoneAreZero, PagesAssumption
<1> QED
  BY <1>1 DEF Pages!Idle, PageReq

(* The types again, as Paging states them.                                 *)
LEMMA PageTypesHold ==
  ASSUME generated' \in Nat, generated' <= MaxMessages,
         stored' \in SUBSET (1..generated'), low' \in 0..(MaxMessages + 1),
         sending' \in [Request -> PageReq'],
         \A r \in Request : Cardinality(sending'[r].page) <= Limit,
         read' \in SUBSET (1..generated'), heard' \in SUBSET (1..generated'),
         missed' \in SUBSET (1..generated'), inRoom' \in BOOLEAN
  PROVE  Pages!TypeOK'
<1>1. \A X : Pages!Cardinality(X) = Cardinality(X)
  BY DEF Cardinality, Pages!Cardinality
<1>2. generated' \in 0..MaxMessages
  BY PagesAssumption
<1>3. \A r \in Request : Pages!Cardinality(sending'[r].page) <= Limit
  BY <1>1
<1> QED
  BY <1>2, <1>3 DEF Pages!TypeOK, PageReq, Pages!NotAsked

(* A request ends or goes on, other than to opening the channel: what is   *)
(* new in the table is about to be told, what was is told or missed.       *)
LEMMA PageReqMoves ==
  ASSUME PagesInv, NEW r \in Request, NEW y,
         sending' \in [Request -> PageReq'], sending'[r] = y,
         \A q \in Request : q # r => sending'[q] = sending[q],
         y.at # "subscribe", Cardinality(y.page) <= Limit, y.at \in {"tx", "emit"} => y.id # 0,
         generated' \in Nat, generated <= generated', generated' <= MaxMessages,
         stored' \in SUBSET (1..generated'),
         \A m \in stored' : m \in stored \/ (y.at = "emit" /\ y.id = m),
         sending[r].at = "emit" => sending[r].id \in heard' \cup missed' \/ (y.at = "emit" /\ y.id = sending[r].id),
         heard \subseteq heard', missed \subseteq missed',
         heard' \in SUBSET (1..generated'), missed' \in SUBSET (1..generated'),
         UNCHANGED <<read, low, inRoom>>
  PROVE  PagesInv'
<1>1. Pages!TypeOK'
  <2>1. read' \in SUBSET (1..generated') /\ low' \in 0..(MaxMessages + 1)
    BY PageTypes
  <2>2. \A q \in Request : Cardinality(sending'[q].page) <= Limit
    BY PageTypes
  <2>3. inRoom' \in BOOLEAN
    BY PageTypes
  <2> QED
    BY <2>1, <2>2, <2>3, PageTypesHold
<1>2. ASSUME NEW m, Telling(m) PROVE m \in heard' \cup missed' \/ Telling(m)'
  BY <1>2 DEF Telling
<1>3. ASSUME NEW m \in stored' PROVE m \in stored \/ Telling(m)'
  BY <1>3 DEF Telling
<1>4. Pages!NoHoles'
  <2>1. Pages!Asked' => Pages!Asked
    BY DEF Pages!Asked, Pages!NotAsked
  <2>2. ASSUME Pages!Asked, NEW m \in stored', m >= low
        PROVE  m \in read \cup heard' \cup missed' \/ Telling(m)'
    <3>1. m \in stored => m \in read \cup heard \cup missed \/ Telling(m)
      BY <2>2 DEF PagesInv, Pages!NoHoles, Telling
    <3> QED
      BY <1>2, <1>3, <3>1
  <2> QED
    BY <2>1, <2>2 DEF Pages!NoHoles, Telling
<1>5. ASSUME NEW page, Kept(page) PROVE Kept(page)'
  <2>1. From(page)' = From(page)
    BY DEF From, Pages!Short, Pages!Min
  <2>2. From(page) \in 0..generated'
    BY <1>5, PageTypes DEF Kept
  <2>3. ASSUME NEW m \in stored', m >= From(page)
        PROVE  m \in page \cup heard' \cup missed' \/ Telling(m)'
    BY <1>2, <1>3, <1>5, <2>3 DEF Kept
  <2> QED
    BY <2>1, <2>2, <2>3 DEF Kept
<1>6. \A q \in Request : sending'[q].at = "subscribe" => sending[q].at = "subscribe" /\ sending'[q] = sending[q]
  OBVIOUS
<1>7. \A q, p \in Request : sending'[q].at = "subscribe" =>
        ~Pages!Asked' /\ (sending'[p].at = "subscribe" => q = p)
  BY <1>6 DEF PagesInv, Pages!Asked, Pages!NotAsked
<1>8. ASSUME NEW q \in Request, sending'[q].at = "subscribe" PROVE Kept(sending[q].page)'
  <2>1. PICK page : page = sending[q].page
    OBVIOUS
  <2>2. Kept(page)' /\ sending'[q].page = page
    BY <1>5, <1>6, <1>8, <2>1 DEF PagesInv
  <2> QED
    BY <2>2 DEF Kept, From
<1>9. \A q \in Request : sending'[q].at \in {"tx", "emit"} => sending'[q].id # 0
  BY DEF PagesInv
<1> QED
  BY <1>1, <1>4, <1>7, <1>8, <1>9 DEF PagesInv

LEMMA SendingStaysTyped ==
  ASSUME PagesInv, NEW r \in Request, NEW y, y \in PageReq', generated' \in Nat, generated <= generated',
         sending' = [sending EXCEPT ![r] = y]
  PROVE  /\ sending' \in [Request -> PageReq'] /\ sending'[r] = y
         /\ \A q \in Request : q # r => sending'[q] = sending[q]
<1>1. \A q \in Request : sending[q] \in PageReq'
  <2>1. 0..generated \subseteq 0..generated' /\ SUBSET (1..generated) \subseteq SUBSET (1..generated')
    BY PageTypes
  <2>2. PageReq \subseteq PageReq'
    BY <2>1 DEF PageReq
  <2> QED
    BY <2>2, PageTypes
<1> QED
  BY <1>1, PageTypes

(***************************************************************************)
(* Paging: createMessage, deleteMessage                                    *)
(***************************************************************************)
LEMMA CreatePageKeeps ==
  ASSUME PagesInv, NEW r \in Request, Pages!CreateMessage(r)
  PROVE  PagesInv'
<1> DEFINE y == [Pages!Idle EXCEPT !.at = "tx", !.id = generated']
<1>1. generated' = generated + 1 /\ generated' \in Nat /\ generated' <= MaxMessages /\ generated <= generated'
  BY PageTypes DEF Pages!CreateMessage
<1>2. Pages!Idle \in PageReq' /\ Pages!Idle.page = {}
  BY <1>1 DEF Pages!Idle, PageReq
<1>3. /\ y.at = "tx" /\ y.id = generated' /\ y.page = {} /\ y \in PageReq'
  <2>1. PICK x, g : x = Pages!Idle /\ g = generated'
    OBVIOUS
  <2>2. x \in [at : {"idle", "tx", "emit", "subscribe"}, id : 0..g, page : SUBSET (1..g)] /\ x.page = {} /\ g \in 0..g
    BY <1>1, <1>2, <2>1 DEF PageReq
  <2>3. PICK z : z = [x EXCEPT !.at = "tx", !.id = g]
    OBVIOUS
  <2>4. /\ z.at = "tx" /\ z.id = g /\ z.page = {}
        /\ z \in [at : {"idle", "tx", "emit", "subscribe"}, id : 0..g, page : SUBSET (1..g)]
    BY <2>2, <2>3
  <2>5. y = z
    BY <2>1, <2>3
  <2> QED
    BY <2>1, <2>4, <2>5 DEF PageReq
<1> HIDE DEF y
<1>3a. y.id # 0 /\ Cardinality(y.page) <= Limit
  BY <1>1, <1>3, NoneAreZero, PageTypes, PagesAssumption
<1>4. sending' = [sending EXCEPT ![r] = y]
  BY DEF Pages!CreateMessage, y
<1>5. sending[r].at # "emit"
  BY DEF Pages!CreateMessage, Pages!Idle
<1>6. SUBSET (1..generated) \subseteq SUBSET (1..generated')
  BY <1>1, PageTypes
<1>7. stored' = stored /\ heard' = heard /\ missed' = missed /\ UNCHANGED <<read, low, inRoom>>
  BY DEF Pages!CreateMessage
<1>8. /\ sending' \in [Request -> PageReq'] /\ sending'[r] = y
      /\ \A q \in Request : q # r => sending'[q] = sending[q]
  BY <1>1, <1>3, <1>4, SendingStaysTyped
<1>9. /\ stored' \in SUBSET (1..generated') /\ heard' \in SUBSET (1..generated')
      /\ missed' \in SUBSET (1..generated')
  BY <1>6, <1>7, PageTypes
<1> QED
  BY <1>1, <1>3, <1>5, <1>7, <1>8, <1>9, <1>3a, PageReqMoves

LEMMA CommitPageKeeps ==
  ASSUME PagesInv, NEW r \in Request, Pages!Commit(r)
  PROVE  PagesInv'
<1> DEFINE y == [sending[r] EXCEPT !.at = "emit"]
<1>1. sending[r] \in PageReq /\ sending[r].at = "tx" /\ Cardinality(sending[r].page) <= Limit
  BY PageTypes DEF Pages!Commit
<1>2. y.at = "emit" /\ y.id = sending[r].id /\ y.page = sending[r].page /\ y \in PageReq
  BY <1>1 DEF PageReq
<1>3. sending' = [sending EXCEPT ![r] = y]
  BY DEF Pages!Commit
<1>4. /\ stored' = stored \cup {sending[r].id} /\ generated' = generated
      /\ heard' = heard /\ missed' = missed /\ UNCHANGED <<read, low, inRoom>>
  BY DEF Pages!Commit
<1> HIDE DEF y
<1>5. generated' \in Nat /\ generated <= generated' /\ generated' <= MaxMessages /\ y \in PageReq'
  BY <1>2, <1>4, PageTypes DEF PageReq
<1>6. /\ sending' \in [Request -> PageReq'] /\ sending'[r] = y
      /\ \A q \in Request : q # r => sending'[q] = sending[q]
  BY <1>3, <1>5, SendingStaysTyped
<1>7. sending[r].id # 0
  BY <1>1 DEF PagesInv
<1>8. stored' \in SUBSET (1..generated')
  BY <1>1, <1>4, <1>7, PageTypes DEF PageReq
<1>9. heard' \in SUBSET (1..generated') /\ missed' \in SUBSET (1..generated')
  BY <1>4, PageTypes
<1> QED
  BY <1>1, <1>2, <1>4, <1>5, <1>6, <1>7, <1>8, <1>9, PageReqMoves

LEMMA EmitPageKeeps ==
  ASSUME PagesInv, NEW r \in Request, Pages!Emit(r)
  PROVE  PagesInv'
<1>1. sending[r] \in PageReq /\ sending[r].at = "emit" /\ sending[r].id # 0
  BY PageTypes DEF Pages!Emit, PagesInv
<1>2. sending' = [sending EXCEPT ![r] = Pages!Idle]
  BY DEF Pages!Emit, Pages!Answer
<1>3. /\ stored' = stored /\ generated' = generated /\ UNCHANGED <<read, low, inRoom>>
      /\ heard \subseteq heard' /\ missed \subseteq missed'
      /\ heard' \subseteq heard \cup {sending[r].id} /\ missed' \subseteq missed \cup {sending[r].id}
      /\ sending[r].id \in heard' \cup missed'
  BY DEF Pages!Emit
<1>4. generated' \in Nat /\ generated <= generated' /\ generated' <= MaxMessages
  BY <1>3, PageTypes
<1>5. /\ Pages!Idle \in PageReq' /\ Cardinality(Pages!Idle.page) <= Limit /\ Pages!Idle.at = "idle"
  BY <1>3, IdlePageReq, PageTypes DEF PageReq
<1>6. /\ sending' \in [Request -> PageReq'] /\ sending'[r] = Pages!Idle
      /\ \A q \in Request : q # r => sending'[q] = sending[q]
  BY <1>2, <1>4, <1>5, SendingStaysTyped
<1>7. sending[r].id \in 1..generated
  BY <1>1, PageTypes DEF PageReq
<1>8. heard' \in SUBSET (1..generated') /\ missed' \in SUBSET (1..generated') /\ stored' \in SUBSET (1..generated')
  BY <1>3, <1>7, PageTypes
<1> QED
  BY <1>3, <1>4, <1>5, <1>6, <1>8, PageReqMoves

LEMMA FailPageKeeps ==
  ASSUME PagesInv, NEW r \in Request, Pages!Fail(r)
  PROVE  PagesInv'
<1>1. sending[r] \in PageReq /\ (sending[r].at = "emit" => sending[r].id # 0)
  BY PageTypes DEF PagesInv
<1>2. sending' = [sending EXCEPT ![r] = Pages!Idle]
  BY DEF Pages!Fail, Pages!Answer
<1>3. /\ stored' = stored /\ generated' = generated /\ heard' = heard /\ UNCHANGED <<read, low, inRoom>>
      /\ missed \subseteq missed'
      /\ missed' \subseteq missed \cup (IF sending[r].at = "emit" THEN {sending[r].id} ELSE {})
      /\ sending[r].at = "emit" => sending[r].id \in missed'
  BY DEF Pages!Fail
<1>4. generated' \in Nat /\ generated <= generated' /\ generated' <= MaxMessages
  BY <1>3, PageTypes
<1>5. /\ Pages!Idle \in PageReq' /\ Cardinality(Pages!Idle.page) <= Limit /\ Pages!Idle.at = "idle"
  BY <1>3, IdlePageReq, PageTypes DEF PageReq
<1>6. /\ sending' \in [Request -> PageReq'] /\ sending'[r] = Pages!Idle
      /\ \A q \in Request : q # r => sending'[q] = sending[q]
  BY <1>2, <1>4, <1>5, SendingStaysTyped
<1>7. sending[r].at = "emit" => sending[r].id \in 1..generated
  BY <1>1, PageTypes DEF PageReq
<1>8. heard' \in SUBSET (1..generated') /\ missed' \in SUBSET (1..generated') /\ stored' \in SUBSET (1..generated')
  BY <1>3, <1>7, PageTypes
<1> QED
  BY <1>3, <1>4, <1>5, <1>6, <1>8, PageReqMoves

LEMMA DeletePageKeeps ==
  ASSUME PagesInv, NEW m \in stored, Pages!DeleteMessage(m)
  PROVE  PagesInv'
<1>1. stored' \subseteq stored /\ UNCHANGED <<generated, sending, inRoom, read, low, heard, missed>>
  BY DEF Pages!DeleteMessage
<1>2. Pages!TypeOK'
  BY <1>1 DEF PagesInv, Pages!TypeOK, Pages!NotAsked
<1>3. Pages!NoHoles'
  BY <1>1 DEF PagesInv, Pages!NoHoles, Pages!Asked, Pages!NotAsked
<1>4. ASSUME NEW page, Kept(page) PROVE Kept(page)'
  BY <1>1, <1>4 DEF Kept, From, Telling, Pages!Short, Pages!Min
<1>5. ASSUME NEW q \in Request, sending[q].at = "subscribe" PROVE Kept(sending[q].page)'
  <2>1. PICK page : page = sending[q].page
    OBVIOUS
  <2>2. Kept(page)' /\ sending'[q].page = page
    BY <1>1, <1>4, <1>5, <2>1 DEF PagesInv
  <2> QED
    BY <2>2 DEF Kept, From
<1> QED
  BY <1>1, <1>2, <1>3, <1>5 DEF PagesInv, Pages!Asked, Pages!NotAsked

LEMMA LeavePageKeeps ==
  ASSUME PagesInv, Pages!LeaveChannel
  PROVE  PagesInv'
<1>1. inRoom' = FALSE /\ UNCHANGED <<generated, stored, sending, read, low, heard, missed>>
  BY DEF Pages!LeaveChannel
<1>2. Pages!TypeOK'
  BY <1>1 DEF PagesInv, Pages!TypeOK, Pages!NotAsked
<1>3. Pages!NoHoles'
  BY <1>1 DEF PagesInv, Pages!NoHoles, Pages!Asked, Pages!NotAsked
<1>4. ASSUME NEW q \in Request, sending[q].at = "subscribe" PROVE Kept(sending[q].page)'
  BY <1>1, <1>4 DEF PagesInv, Kept, From, Telling, Pages!Short, Pages!Min
<1> QED
  BY <1>1, <1>2, <1>3, <1>4 DEF PagesInv, Pages!Asked, Pages!NotAsked

(***************************************************************************)
(* Paging: getMessages                                                     *)
(***************************************************************************)
LEMMA GetLastKeeps ==
  ASSUME PagesInv, NEW r \in Request, Pages!GetLast(r)
  PROVE  PagesInv'
<1>1. PICK page : page = Pages!Descending(stored)
  OBVIOUS
<1>2. /\ page \subseteq stored /\ Cardinality(page) <= Limit
      /\ Pages!Short(page) => page = stored
      /\ ~Pages!Short(page) =>
           Pages!Min(page) \in 1..generated /\ \A m \in stored : m >= Pages!Min(page) => m \in page
  <2>1. generated \in Nat /\ stored \in SUBSET (1..generated)
    BY PageTypes
  <2> QED
    BY <1>1, <2>1, DescendingPage
<1>3. PICK y : y = [at |-> "subscribe", id |-> 0, page |-> page]
  OBVIOUS
<1>4. /\ sending' = [sending EXCEPT ![r] = y] /\ sending[r].at = "idle"
      /\ read' = {} /\ low' = MaxMessages + 1 /\ heard' = {} /\ missed' = {}
      /\ UNCHANGED <<generated, stored, inRoom>>
      /\ \A q \in Request : sending[q].at # "subscribe"
  BY <1>1, <1>3 DEF Pages!GetLast, Pages!NotAsked, Pages!Idle
<1>5. y \in PageReq' /\ y.at = "subscribe" /\ y.page = page
  BY <1>2, <1>3, <1>4, PageTypes DEF PageReq
<1>6. generated' \in Nat /\ generated <= generated' /\ generated' <= MaxMessages
  BY <1>4, PageTypes
<1>7. /\ sending' \in [Request -> PageReq'] /\ sending'[r] = y
      /\ \A q \in Request : q # r => sending'[q] = sending[q]
  BY <1>4, <1>5, <1>6, SendingStaysTyped
<1>8. Pages!TypeOK'
  <2>1. \A q \in Request : Cardinality(sending'[q].page) <= Limit
    BY <1>2, <1>5, <1>7, PageTypes
  <2>2. stored' \in SUBSET (1..generated') /\ low' \in 0..(MaxMessages + 1) /\ inRoom' \in BOOLEAN
    BY <1>4, PageTypes
  <2>3. read' \in SUBSET (1..generated') /\ heard' \in SUBSET (1..generated') /\ missed' \in SUBSET (1..generated')
    BY <1>4
  <2> QED
    BY <1>6, <1>7, <2>1, <2>2, <2>3, PageTypesHold
<1>9. ~Pages!Asked'
  BY <1>4 DEF Pages!Asked, Pages!NotAsked
<1>10. Kept(page)'
  <2>1. Pages!Short(page)' = Pages!Short(page) /\ Pages!Min(page)' = Pages!Min(page)
    BY DEF Pages!Short, Pages!Min
  <2>2. \A m \in stored : m >= From(page) => m \in page
    BY <1>2 DEF From
  <2>3. From(page) \in 0..generated /\ From(page)' = From(page)
    BY <1>2, <2>1, PageTypes DEF From
  <2> QED
    BY <1>4, <2>2, <2>3 DEF Kept
<1>11. ASSUME NEW q \in Request, sending'[q].at = "subscribe" PROVE q = r /\ Kept(sending[q].page)'
  <2>1. q = r /\ sending'[q].page = page
    BY <1>4, <1>5, <1>7, <1>11
  <2> QED
    BY <1>10, <2>1 DEF Kept, From
<1>12. \A q \in Request : sending'[q].at \in {"tx", "emit"} => sending'[q].id # 0
  BY <1>5, <1>7 DEF PagesInv
<1> QED
  BY <1>8, <1>9, <1>11, <1>12 DEF PagesInv, Pages!NoHoles

LEMMA SetPageKeeps ==
  ASSUME PagesInv, NEW r \in Request, Pages!SetChannel(r)
  PROVE  PagesInv'
<1>1. PICK page : page = sending[r].page
  OBVIOUS
<1>2. /\ sending' = [sending EXCEPT ![r] = Pages!Idle] /\ sending[r].at = "subscribe"
      /\ read' = page /\ low' = From(page) /\ inRoom' = TRUE
      /\ UNCHANGED <<generated, stored, heard, missed>>
  BY <1>1 DEF Pages!SetChannel, Pages!Answer, From
<1>3. page \in SUBSET (1..generated) /\ Kept(page)
  BY <1>1, <1>2, PageTypes DEF PageReq, PagesInv
<1>4. /\ Pages!Idle \in PageReq' /\ Cardinality(Pages!Idle.page) <= Limit /\ Pages!Idle.at = "idle"
  BY <1>2, IdlePageReq, PageTypes DEF PageReq
<1>5. generated' \in Nat /\ generated <= generated' /\ generated' <= MaxMessages
  BY <1>2, PageTypes
<1>6. /\ sending' \in [Request -> PageReq'] /\ sending'[r] = Pages!Idle
      /\ \A q \in Request : q # r => sending'[q] = sending[q]
  BY <1>2, <1>4, <1>5, SendingStaysTyped
<1>7. Pages!TypeOK'
  <2>1. \A q \in Request : Cardinality(sending'[q].page) <= Limit
    BY <1>4, <1>6, PageTypes
  <2>2. low' \in 0..(MaxMessages + 1)
    BY <1>2, <1>3, PageTypes DEF Kept
  <2>3. stored' \in SUBSET (1..generated') /\ read' \in SUBSET (1..generated')
    BY <1>2, <1>3, PageTypes
  <2>4. heard' \in SUBSET (1..generated') /\ missed' \in SUBSET (1..generated')
    BY <1>2, PageTypes
  <2> QED
    BY <1>2, <1>5, <1>6, <2>1, <2>2, <2>3, <2>4, PageTypesHold
<1>8. \A q \in Request : sending'[q].at # "subscribe"
  BY <1>2, <1>4, <1>6 DEF PagesInv
<1>9. Pages!NoHoles'
  <2>1. ASSUME NEW m \in stored, m >= From(page)
        PROVE  \/ m \in page \cup heard \cup missed
               \/ \E q \in Request : sending'[q].at = "emit" /\ sending'[q].id = m
    BY <1>2, <1>3, <1>6, <2>1 DEF Kept, Telling
  <2> QED
    BY <1>2, <2>1 DEF Pages!NoHoles
<1>10. \A q \in Request : sending'[q].at \in {"tx", "emit"} => sending'[q].id # 0
  BY <1>4, <1>6 DEF PagesInv
<1> QED
  BY <1>7, <1>8, <1>9, <1>10 DEF PagesInv

(* Scrolling moves no request, and no channel is being opened.             *)
LEMMA ScrollKeeps ==
  ASSUME PagesInv, Pages!Asked, UNCHANGED <<generated, stored, sending, inRoom, heard>>,
         read' \in SUBSET (1..generated), missed' \in SUBSET (1..generated), low' \in 0..(MaxMessages + 1),
         \A m \in stored : m >= low' => m >= low \/ m \in read',
         read \subseteq read', \A m \in missed : m \in missed' \/ m \notin stored \/ m \in read'
  PROVE  PagesInv'
<1>1. Pages!TypeOK'
  <2>1. \A q \in Request : Cardinality(sending'[q].page) <= Limit
    BY PageTypes
  <2>2. sending' \in [Request -> PageReq']
    BY PageTypes DEF PageReq
  <2> QED
    BY <2>1, <2>2, PageTypes, PageTypesHold
<1>2. Pages!NoHoles'
  BY DEF PagesInv, Pages!NoHoles
<1>3. \A q \in Request : sending[q].at # "subscribe"
  BY DEF PagesInv
<1> QED
  BY <1>1, <1>2, <1>3 DEF PagesInv

LEMMA GetBeforeKeeps ==
  ASSUME PagesInv, Pages!GetBefore
  PROVE  PagesInv'
<1>1. PICK S : S = {m \in stored : m < low}
  OBVIOUS
<1>2. PICK page : page = Pages!Descending(S)
  OBVIOUS
<1>3. /\ Pages!Asked /\ read' = read \cup page /\ low' = From(page)
      /\ UNCHANGED <<generated, stored, sending, inRoom, heard, missed>>
  BY <1>1, <1>2 DEF Pages!GetBefore, From
<1>4. generated \in Nat /\ S \in SUBSET (1..generated)
  BY <1>1, PageTypes
<1>5. /\ page \subseteq S
      /\ Pages!Short(page) => page = S
      /\ ~Pages!Short(page) =>
           Pages!Min(page) \in 1..generated /\ \A m \in S : m >= Pages!Min(page) => m \in page
  BY <1>2, <1>4, DescendingPage
<1>6. From(page) \in 0..generated /\ \A m \in S : m >= From(page) => m \in page
  BY <1>4, <1>5 DEF From
<1>7. \A m \in stored : m >= From(page) => m >= low \/ m \in page
  <2>1. \A m \in stored : m \in Nat
    BY PageTypes
  <2> QED
    BY <1>1, <1>6, <2>1, PageTypes
<1>8. page \in SUBSET (1..generated) /\ From(page) \in 0..(MaxMessages + 1)
  BY <1>4, <1>5, <1>6, PageTypes
<1> QED
  BY <1>3, <1>7, <1>8, ScrollKeeps, PageTypes

LEMMA GetAfterKeeps ==
  ASSUME PagesInv, Pages!GetAfter
  PROVE  PagesInv'
<1>1. PICK S : S = {m \in stored : m > Pages!Until}
  OBVIOUS
<1>2. PICK page : page = Pages!Ascending(S)
  OBVIOUS
<1>3. PICK last : last = IF Pages!Short(page) THEN generated ELSE Pages!Max(page)
  OBVIOUS
<1>4. /\ Pages!Asked /\ read' = read \cup page
      /\ missed' = missed \ {m \in stored : Pages!Until < m /\ m <= last}
      /\ UNCHANGED <<generated, stored, sending, inRoom, low, heard>>
  BY <1>1, <1>2, <1>3 DEF Pages!GetAfter
<1>5. generated \in Nat /\ S \in SUBSET (1..generated)
  BY <1>1, PageTypes
<1>6. /\ page \subseteq S
      /\ Pages!Short(page) => page = S
      /\ ~Pages!Short(page) =>
           Pages!Max(page) \in 1..generated /\ \A m \in S : m <= Pages!Max(page) => m \in page
  BY <1>2, <1>5, AscendingPage
<1>7. \A m \in S : m <= last => m \in page
  BY <1>3, <1>6
<1>8. \A m \in stored : Pages!Until < m /\ m <= last => m \in page
  <2>1. \A m \in stored : Pages!Until < m => m \in S
    BY <1>1
  <2> QED
    BY <1>7, <2>1
<1>9. \A m \in missed : m \in missed' \/ m \notin stored \/ m \in read'
  BY <1>4, <1>8
<1>10. page \in SUBSET (1..generated)
  BY <1>5, <1>6
<1>11. low \in 0..(MaxMessages + 1)
  BY PageTypes
<1> QED
  BY <1>4, <1>9, <1>10, <1>11, ScrollKeeps, PageTypes

LEMMA PageInit == ASSUME Pages!Init PROVE PagesInv
<1>1. /\ generated = 0 /\ stored = {} /\ inRoom = FALSE /\ read = {} /\ low = MaxMessages + 1
      /\ heard = {} /\ missed = {} /\ sending = [r \in Request |-> Pages!Idle]
  BY DEF Pages!Init, Pages!NotAsked
<1>2. Pages!Idle \in PageReq /\ Pages!Cardinality(Pages!Idle.page) <= Limit /\ Pages!Idle.at = "idle"
  <2>1. \A X : Pages!Cardinality(X) = Cardinality(X)
    BY DEF Cardinality, Pages!Cardinality
  <2> QED
    BY <1>1, <2>1, IdlePageReq
<1>3. generated \in 0..MaxMessages /\ low \in 0..(MaxMessages + 1)
  BY <1>1, PagesAssumption
<1>4. Pages!TypeOK
  BY <1>1, <1>2, <1>3 DEF Pages!TypeOK, PageReq, Pages!NotAsked
<1> QED
  BY <1>1, <1>2, <1>4 DEF PagesInv, Pages!NoHoles

LEMMA PageNext == ASSUME PagesInv, [Pages!Next]_(Pages!vars) PROVE PagesInv'
<1>1. CASE Pages!Next
  BY <1>1, CreatePageKeeps, CommitPageKeeps, EmitPageKeeps, FailPageKeeps, DeletePageKeeps, LeavePageKeeps,
     GetLastKeeps, SetPageKeeps, GetBeforeKeeps, GetAfterKeeps DEF Pages!Next
<1>2. CASE UNCHANGED Pages!vars
  <2>1. UNCHANGED <<generated, stored, sending, inRoom, read, low, heard, missed>>
    BY <1>2 DEF Pages!vars
  <2>2. Pages!TypeOK'
    BY <2>1 DEF PagesInv, Pages!TypeOK, Pages!NotAsked
  <2>3. Pages!NoHoles' /\ (Pages!Asked' <=> Pages!Asked)
    BY <2>1 DEF PagesInv, Pages!NoHoles, Pages!Asked, Pages!NotAsked
  <2>4. \A q \in Request : sending[q].at = "subscribe" => Kept(sending[q].page)'
    BY <2>1 DEF PagesInv, Kept, From, Telling, Pages!Short, Pages!Min
  <2> QED
    BY <2>1, <2>2, <2>3, <2>4 DEF PagesInv
<1> QED
  BY <1>1, <1>2

(***************************************************************************)
(* The theorems                                                            *)
(***************************************************************************)
LEMMA SideBySideSteps == SideBySide => Spec /\ Pages!Spec
<1>1. Start => Init /\ Pages!Init
  BY DEF Start
<1>2. ASSUME [\/ PagesRest /\ Next
              \/ LogRests /\ Pages!Next]_<<vars, pageVars>>
      PROVE  [Next]_vars /\ [Pages!Next]_(Pages!vars)
  BY <1>2 DEF PagesRest, LogRests, pageVars, Pages!vars
<1> QED
  BY <1>1, <1>2, PTL DEF SideBySide, Spec, Pages!Spec

(* The invariant that the proofs about ChatLog rest on.                    *)
THEOREM LogInvariance == Spec => []LogInv
BY LogInit, LogNext, PTL DEF Spec

(* The one that those about Paging rest on.                                *)
THEOREM PagesInvariance == Pages!Spec => []PagesInv
BY PageInit, PageNext, PTL DEF Pages!Spec

LEMMA PagesInvSuffices == ASSUME PagesInv PROVE Pages!TypeOK /\ Pages!NoHoles
BY DEF PagesInv

LEMMA LogInvFollows == ASSUME LogInv PROVE OnlyTheGapIsMissed
BY DEF LogInv

LEMMA BothSuffice == ASSUME LogInv, PagesInv PROVE ChatTypeOK /\ PagesComplete
BY LogInvSuffices, PagesInvSuffices DEF ChatTypeOK, PagesComplete

(* The values of messages, requests and sessions stay in their sets.       *)
THEOREM ChatTypeOKHolds == SideBySide => []ChatTypeOK
BY BothSuffice, LogInvariance, PagesInvariance, SideBySideSteps, PTL

(* A session that opened the channel knows every committed change or is    *)
(* about to be told of it, but for those in the gap between its page and   *)
(* its subscription, those its full bus dropped, and those whose request   *)
(* failed after the commit.                                                *)
THEOREM OnlyTheGapIsMissedHolds == SideBySide => []OnlyTheGapIsMissed
BY LogInvFollows, LogInvariance, SideBySideSteps, PTL

(* Page and events add up to what the table says of a message, once its    *)
(* changes are settled and the session heard of all since its page.        *)
THEOREM ViewConvergesHolds == SideBySide => []ViewConverges
BY LogInvConverges, LogInvariance, SideBySideSteps, PTL

(* A page lacks the attachments of a message only if it was deleted while  *)
(* the page was read; and the pages a session scrolled through have no     *)
(* holes but for messages whose event it missed.                           *)
THEOREM PagesCompleteHolds == SideBySide => []PagesComplete
BY BothSuffice, LogInvariance, PagesInvariance, SideBySideSteps, PTL
=============================================================================
