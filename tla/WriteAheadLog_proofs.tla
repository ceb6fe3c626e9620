------------------------ MODULE WriteAheadLog_proofs ------------------------
(* Theorems about WriteAheadLog, for any number of callers, page size and    *)
(* length of the log.                                                        *)
EXTENDS WriteAheadLog, TLAPS

-----------------------------------------------------------------------------
(* The inductive invariant.                                                 *)

\* What the writer took to trim is what set_offset left there: flush_pos has
\* not moved since, and offset_pos has not moved back.
TrimCaptured ==
  writer.pc \in {"write", "trim", "publish"} /\ writer.trim =>
    /\ writer.old_offset = flush_pos
    /\ flush_pos < writer.new_offset
    /\ writer.new_offset <= offset_pos

\* The writer syncs, trims and publishes only when all it took is written.
AllWritten == writer.pc \in {"trim", "publish"} => writer.left = 0

WalInv == /\ WalTypeOK /\ PositionsAgree /\ PagesKept /\ NoLostWakeup
          /\ TrimCaptured /\ AllWritten

-----------------------------------------------------------------------------
(* Pages.                                                                   *)

\* The page of a position and its place there determine the position.
LEMMA DivMod ==
  ASSUME NEW p \in Nat \ {0}, NEW a \in Nat
  PROVE  /\ a \div p \in Nat
         /\ a % p \in 0 .. p - 1
         /\ a = p * (a \div p) + (a % p)
OBVIOUS

\* Two different pages are at least one page apart.
LEMMA PageApart ==
  ASSUME NEW p \in Nat \ {0}, NEW x \in Nat, NEW y \in Nat, x < y
  PROVE  p * x + p <= p * y
OBVIOUS

\* A later position is on the same or a later page.
LEMMA PageMonotonic ==
  ASSUME NEW a \in Nat, NEW b \in Nat, a <= b
  PROVE  Page(a) \in Nat /\ Page(b) \in Nat /\ Page(a) <= Page(b)
<1> DEFINE p == PageSize
           qa == a \div p
           qb == b \div p
<1>1. p \in Nat \ {0}
  BY WalAssumption
<1>2. qa \in Nat /\ a % p \in 0 .. p - 1 /\ a = p * qa + (a % p)
  BY <1>1, DivMod
<1>3. qb \in Nat /\ b % p \in 0 .. p - 1 /\ b = p * qb + (b % p)
  BY <1>1, DivMod
<1>4. ASSUME qb < qa PROVE FALSE
  <2> HIDE DEF qa, qb, p
  <2>1. p * qb + p <= p * qa
    BY <1>1, <1>2, <1>3, <1>4, PageApart
  <2>2. p * qb \in Int /\ p * qa \in Int
    BY <1>1, <1>2, <1>3
  <2> QED BY <1>1, <1>2, <1>3, <2>1, <2>2
<1> QED BY <1>2, <1>3, <1>4 DEF Page

\* A write that stays within a page ends on the page, or at the start of the
\* next one if it fills the page.
LEMMA WriteWithinPage ==
  ASSUME NEW a \in Nat, NEW n \in 1 .. PageSize - (a % PageSize)
  PROVE  Page(a + n) = IF (a + n) % PageSize = 0 THEN Page(a) + 1 ELSE Page(a)
<1> DEFINE p == PageSize
           q == a \div p
           r == a % p
           s == (a + n) \div p
           t == (a + n) % p
<1>1. p \in Nat \ {0}
  BY WalAssumption
<1>2. q \in Nat /\ r \in 0 .. p - 1 /\ a = p * q + r
  BY <1>1, DivMod
<1>3. s \in Nat /\ t \in 0 .. p - 1 /\ a + n = p * s + t
  <2>1. a + n \in Nat
    BY <1>1, <1>2
  <2> QED BY <1>1, <2>1, DivMod
<1>4. n \in 1 .. p - r
  OBVIOUS
<1> SUFFICES s = IF t = 0 THEN q + 1 ELSE q
  BY DEF Page
<1> HIDE DEF p, q, r, s, t
<1>5. p * q \in Int /\ p * s \in Int /\ p * s + t = p * q + r + n
  BY <1>1, <1>2, <1>3, <1>4
<1>6. ~(s < q)
  <2> SUFFICES ASSUME s < q PROVE FALSE
    OBVIOUS
  <2>1. p * s + p <= p * q
    BY <1>1, <1>2, <1>3, PageApart
  <2> QED BY <1>1, <1>2, <1>3, <1>4, <1>5, <2>1
<1>7. ~(q + 1 < s)
  <2> SUFFICES ASSUME q + 1 < s PROVE FALSE
    OBVIOUS
  <2>1. p * (q + 1) + p <= p * s
    BY <1>1, <1>2, <1>3, PageApart
  <2>2. p * (q + 1) = p * q + p
    BY <1>1, <1>2
  <2> QED BY <1>1, <1>2, <1>3, <1>4, <1>5, <2>1, <2>2
<1>8. CASE s = q
  <2>1. t = r + n
    BY <1>1, <1>2, <1>3, <1>4, <1>5, <1>8
  <2> QED BY <1>2, <1>4, <1>8, <2>1, <1>1
<1>9. CASE s = q + 1
  <2>1. p * s = p * q + p
    BY <1>1, <1>2, <1>9
  <2>2. t = 0
    BY <1>1, <1>2, <1>3, <1>4, <1>5, <2>1
  <2> QED BY <1>9, <2>2
<1> QED BY <1>2, <1>3, <1>6, <1>7, <1>8, <1>9
-----------------------------------------------------------------------------
(* The invariant.                                                           *)

\* The state of the writer.
WriterState ==
  [pc : {"check", "parked", "write", "trim", "publish", "done"},
   position : Nat, left : Nat, sync : BOOLEAN, sync_pos : Nat,
   trim : BOOLEAN, new_offset : Nat, old_offset : Nat, stop : BOOLEAN]

\* A new log satisfies the invariant.
LEMMA WalInit == Init => WalInv
<1> SUFFICES ASSUME Init PROVE WalInv
  OBVIOUS
<1>1. WalTypeOK
  <2>1. writer \in WriterState
    BY DEF Init, Idle, WriterState
  <2>2. /\ storer \in [Storers -> CallerState]
        /\ trimmer \in CallerState
        /\ syncer \in [Syncers -> [pc : {"idle", "check", "parked", "panic"},
                                   pos : Nat, acked : Nat]]
    BY DEF Init, NotCalling, CallerState
  <2>3. pages \subseteq Nat /\ synced \in [0 .. Page(MaxPos) -> Nat]
    BY DEF Init
  <2>4. /\ queue_pos \in Nat /\ write_pos \in Nat /\ sync_pos \in Nat
        /\ offset_pos \in Nat /\ flush_pos \in Nat /\ queue \in Nat
        /\ sync_flag \in BOOLEAN /\ stop_flag \in BOOLEAN
    BY DEF Init
  <2> QED BY <2>1, <2>2, <2>3, <2>4 DEF WalTypeOK, WriterState
<1>2. PositionsAgree /\ NoLostWakeup /\ TrimCaptured /\ AllWritten
  BY DEF Init, PositionsAgree, NoLostWakeup, TrimCaptured, AllWritten, Idle,
         NotCalling
<1>3. PagesKept
  <2>1. Page(0) = 0
    BY WalAssumption DEF Page
  <2> QED BY <2>1 DEF Init, PagesKept, Idle
<1> QED BY <1>1, <1>2, <1>3 DEF WalInv

\* What notifying the writer does to it: nothing but to make a parked writer
\* look again.
LEMMA WakeFacts ==
  ASSUME WalTypeOK, WakeWriter
  PROVE  /\ writer' \in WriterState
         /\ writer'.pc = IF writer.pc = "parked" THEN "check" ELSE writer.pc
         /\ writer'.position = writer.position
         /\ writer.pc # "parked" => writer' = writer
         /\ writer.pc = "parked" => writer'.left = 0 /\ writer'.trim = FALSE
<1>1. writer \in WriterState
  BY DEF WalTypeOK, WriterState
<1>2. CASE writer.pc = "parked"
  BY <1>1, <1>2 DEF WakeWriter, Idle, WriterState
<1>3. CASE writer.pc # "parked"
  BY <1>1, <1>3 DEF WakeWriter
<1> QED BY <1>2, <1>3

\* Every step keeps the types.
LEMMA WalTypeStep ==
  ASSUME WalTypeOK, [Next]_walVars
  PROVE  WalTypeOK'
<1> USE DEF CallerState
<1>0. writer \in WriterState
  BY DEF WalTypeOK, WriterState
<1>1. ASSUME NEW s \in Storers, NEW len \in 1 .. MaxLen, store(s, len)
      PROVE  WalTypeOK'
  <2>1. writer' \in WriterState
    BY <1>1, WakeFacts DEF store
  <2>2. len \in Nat
    BY WalAssumption
  <2>3. storer' \in [Storers -> CallerState]
    BY <1>1, <2>2 DEF store, WalTypeOK
  <2> QED BY <1>1, <2>1, <2>2, <2>3 DEF store, WalTypeOK, WriterState
<1>2. ASSUME NEW s \in Storers, StoreCheck(s) PROVE WalTypeOK'
  BY <1>2 DEF StoreCheck, WalTypeOK, NotCalling, status
<1>3. ASSUME NEW s \in Syncers, sync(s) PROVE WalTypeOK'
  <2>1. writer' \in WriterState
    BY <1>0, <1>3, WakeFacts DEF sync
  <2>2. sync_flag' \in BOOLEAN
    BY <1>3 DEF sync, WalTypeOK
  <2>3. syncer' \in [Syncers -> [pc : {"idle", "check", "parked", "panic"},
                                pos : Nat, acked : Nat]]
    BY <1>3 DEF sync, WalTypeOK
  <2> QED BY <1>3, <2>1, <2>2, <2>3 DEF sync, WalTypeOK, WriterState
<1>4. ASSUME NEW s \in Syncers, SyncCheck(s) PROVE WalTypeOK'
  BY <1>4 DEF SyncCheck, WalTypeOK, status
<1>5. ASSUME NEW pos \in offset_pos + 1 .. write_pos, set_offset(pos)
      PROVE  WalTypeOK'
  <2>1. writer' \in WriterState
    BY <1>5, WakeFacts DEF set_offset
  <2>2. pos \in Nat
    BY DEF WalTypeOK
  <2>3. trimmer' \in CallerState
    BY <1>5, <2>2 DEF set_offset
  <2> QED BY <1>5, <2>1, <2>2, <2>3 DEF set_offset, WalTypeOK, WriterState
<1>6. CASE TrimCheck
  BY <1>6 DEF TrimCheck, WalTypeOK, NotCalling, status
<1>7. CASE stop
  BY <1>7, WakeFacts DEF stop, WalTypeOK, WriterState
<1>8. CASE Park
  BY <1>8 DEF Park, WalTypeOK, status
<1>9. CASE Capture
  <2>1. writer' \in WriterState
    BY <1>0, <1>9 DEF Capture, WalTypeOK, WriterState
  <2> QED BY <1>9, <2>1 DEF Capture, WalTypeOK, WriterState
<1>10. CASE write_all
  <2>1. PICK len \in 1 .. Min2(writer.left, PageSize - (writer.position % PageSize)) :
          /\ writer' = [writer EXCEPT !.position = @ + len, !.left = @ - len]
          /\ pages' = IF (writer.position + len) % PageSize = 0
                      THEN pages \cup {Page(writer.position + len)}
                      ELSE pages
    BY <1>10 DEF write_all
  <2>2. writer.position % PageSize \in 0 .. PageSize - 1
    BY <1>0, WalAssumption, DivMod DEF WriterState
  <2>3. len \in Nat /\ len <= writer.left
    BY <1>0, <2>2, WalAssumption DEF Min2, WriterState
  <2>4. writer' \in WriterState
    <3>1. writer.position + len \in Nat /\ writer.left - len \in Nat
      BY <1>0, <2>3 DEF WriterState
    <3> QED BY <1>0, <2>1, <3>1 DEF WriterState
  <2>5. Page(writer.position + len) \in Nat
    BY <1>0, <2>3, PageMonotonic DEF WriterState
  <2> QED BY <1>10, <2>1, <2>4, <2>5 DEF write_all, WalTypeOK, WriterState, status
<1>11. CASE SyncFile
  BY <1>11 DEF SyncFile, WalTypeOK
<1>12. CASE RemovePages
  BY <1>12 DEF RemovePages, WalTypeOK, status
<1>13. CASE Publish
  BY <1>13 DEF Publish, WalTypeOK, Unpark, Idle
<1>14. CASE UNCHANGED walVars
  BY <1>14 DEF walVars, status, WalTypeOK
<1> QED
  BY <1>1, <1>2, <1>3, <1>4, <1>5, <1>6, <1>7, <1>8, <1>9, <1>10, <1>11,
     <1>12, <1>13, <1>14 DEF Next, UpdateLog

\* The offsets the writer took stay between flush_pos and offset_pos.
LEMMA TrimStep ==
  ASSUME WalInv, [Next]_walVars
  PROVE  TrimCaptured' /\ AllWritten'
<1> USE DEF WalInv
<1>0. writer \in WriterState
  BY DEF WalTypeOK, WriterState
<1>a. ASSUME WakeWriter, flush_pos' = flush_pos, offset_pos' >= offset_pos,
             offset_pos' \in Nat
      PROVE  TrimCaptured' /\ AllWritten'
  <2>1. CASE writer.pc = "parked"
    BY <1>a, <2>1, WakeFacts DEF TrimCaptured, AllWritten
  <2>2. CASE writer.pc # "parked"
    <3>1. writer' = writer
      BY <1>a, <2>2, WakeFacts
    <3>2. offset_pos \in Nat /\ writer.new_offset \in Nat
      BY <1>0 DEF WalTypeOK, WriterState
    <3> QED BY <1>a, <3>1, <3>2 DEF TrimCaptured, AllWritten
  <2> QED BY <2>1, <2>2
<1>b. ASSUME UNCHANGED <<writer, flush_pos, offset_pos>>
      PROVE  TrimCaptured' /\ AllWritten'
  BY <1>b DEF TrimCaptured, AllWritten
<1>1. ASSUME NEW s \in Storers, NEW len \in 1 .. MaxLen, store(s, len)
      PROVE  TrimCaptured' /\ AllWritten'
  BY <1>1, <1>a DEF store, WalTypeOK
<1>2. ASSUME NEW s \in Storers, StoreCheck(s)
      PROVE  TrimCaptured' /\ AllWritten'
  BY <1>2, <1>b DEF StoreCheck, status
<1>3. ASSUME NEW s \in Syncers, sync(s)
      PROVE  TrimCaptured' /\ AllWritten'
  BY <1>3, <1>a, <1>b DEF sync, WalTypeOK
<1>4. ASSUME NEW s \in Syncers, SyncCheck(s)
      PROVE  TrimCaptured' /\ AllWritten'
  BY <1>4, <1>b DEF SyncCheck, status
<1>5. ASSUME NEW pos \in offset_pos + 1 .. write_pos, set_offset(pos)
      PROVE  TrimCaptured' /\ AllWritten'
  BY <1>5, <1>a DEF set_offset, WalTypeOK
<1>6. CASE TrimCheck
  BY <1>6, <1>b DEF TrimCheck, status
<1>7. CASE stop
  BY <1>7, <1>a DEF stop, WalTypeOK
<1>8. CASE Park
  BY <1>0, <1>8 DEF Park, status, TrimCaptured, AllWritten, WriterState
<1>9. CASE Capture
  <2>1. /\ writer'.pc = "write"
        /\ writer'.old_offset = flush_pos /\ writer'.new_offset = offset_pos
        /\ writer'.trim => offset_pos > flush_pos
        /\ UNCHANGED <<flush_pos, offset_pos>>
    BY <1>9 DEF Capture
  <2>2. offset_pos \in Nat /\ flush_pos \in Nat
    BY DEF WalTypeOK
  <2> QED BY <2>1, <2>2 DEF TrimCaptured, AllWritten
<1>10. CASE write_all
  BY <1>0, <1>10 DEF write_all, TrimCaptured, AllWritten, status, WriterState
<1>11. CASE SyncFile
  BY <1>0, <1>11 DEF SyncFile, TrimCaptured, AllWritten, WriterState
<1>12. CASE RemovePages
  BY <1>0, <1>12 DEF RemovePages, TrimCaptured, AllWritten, status, WriterState
<1>13. CASE Publish
  BY <1>13 DEF Publish, TrimCaptured, AllWritten, Idle
<1>14. CASE UNCHANGED walVars
  BY <1>14, <1>b DEF walVars, status
<1> QED
  BY <1>1, <1>2, <1>3, <1>4, <1>5, <1>6, <1>7, <1>8, <1>9, <1>10, <1>11,
     <1>12, <1>13, <1>14 DEF Next, UpdateLog

\* Every byte that was queued stays accounted for, and the offsets in order.
LEMMA PositionsStep ==
  ASSUME WalInv, [Next]_walVars
  PROVE  PositionsAgree'
<1> USE DEF WalInv
<1>0. writer \in WriterState
  BY DEF WalTypeOK, WriterState
<1>a. ASSUME WakeWriter, UNCHANGED <<queue_pos, write_pos, flush_pos, queue>>,
             flush_pos <= offset_pos', offset_pos' <= write_pos
      PROVE  PositionsAgree'
  <2>1. CASE writer.pc = "parked"
    BY <1>0, <1>a, <2>1, WakeFacts
    DEF PositionsAgree, NoLostWakeup, NothingToDo, WalTypeOK, WriterState
  <2>2. CASE writer.pc # "parked"
    BY <1>0, <1>a, <2>2, WakeFacts DEF PositionsAgree
  <2> QED BY <2>1, <2>2
<1>b. ASSUME UNCHANGED <<status, writer>> PROVE PositionsAgree'
  BY <1>b DEF status, PositionsAgree
<1>1. ASSUME NEW s \in Storers, NEW len \in 1 .. MaxLen, store(s, len)
      PROVE  PositionsAgree'
  <2>1. /\ queue_pos' = queue_pos + len /\ queue' = queue + len
        /\ UNCHANGED <<write_pos, offset_pos, flush_pos>>
        /\ WakeWriter
    BY <1>1 DEF store
  <2>2. len \in Nat
    BY WalAssumption
  <2>3. /\ writer'.pc = IF writer.pc = "parked" THEN "check" ELSE writer.pc
        /\ writer'.position = writer.position
        /\ writer'.left = writer.left
    BY <2>1, WakeFacts DEF PositionsAgree
  <2>4. writer.position \in Nat /\ writer.left \in Nat /\ queue \in Nat
    BY <1>0 DEF WalTypeOK, WriterState
  <2>5. writer'.position + writer'.left + queue' = queue_pos'
    BY <2>1, <2>2, <2>3, <2>4 DEF PositionsAgree
  <2> QED BY <2>1, <2>3, <2>5 DEF PositionsAgree
<1>2. ASSUME NEW s \in Storers, StoreCheck(s) PROVE PositionsAgree'
  BY <1>2, <1>b DEF StoreCheck
<1>3. ASSUME NEW s \in Syncers, sync(s) PROVE PositionsAgree'
  <2>1. UNCHANGED <<queue_pos, write_pos, flush_pos, queue, offset_pos>>
    BY <1>3 DEF sync
  <2>2. CASE WakeWriter
    BY <1>a, <2>1, <2>2 DEF PositionsAgree
  <2>3. CASE UNCHANGED writer
    BY <2>1, <2>3 DEF PositionsAgree
  <2> QED BY <1>3, <2>2, <2>3 DEF sync
<1>4. ASSUME NEW s \in Syncers, SyncCheck(s) PROVE PositionsAgree'
  BY <1>4, <1>b DEF SyncCheck
<1>5. ASSUME NEW pos \in offset_pos + 1 .. write_pos, set_offset(pos)
      PROVE  PositionsAgree'
  <2>1. flush_pos <= pos /\ pos <= write_pos
    BY DEF PositionsAgree, WalTypeOK
  <2> QED BY <1>5, <1>a, <2>1 DEF set_offset
<1>6. CASE TrimCheck
  BY <1>6, <1>b DEF TrimCheck
<1>7. CASE stop
  BY <1>7, <1>a DEF stop, PositionsAgree
<1>8. CASE Park
  BY <1>0, <1>8
  DEF Park, NothingToDo, status, PositionsAgree, WalTypeOK, WriterState
<1>9. CASE Capture
  BY <1>0, <1>9 DEF Capture, PositionsAgree, WalTypeOK, WriterState
<1>10. CASE write_all
  <2>1. PICK len \in 1 .. Min2(writer.left, PageSize - (writer.position % PageSize)) :
          writer' = [writer EXCEPT !.position = @ + len, !.left = @ - len]
    BY <1>10 DEF write_all
  <2>2. writer.pc = "write" /\ UNCHANGED status
    BY <1>10 DEF write_all
  <2>3. len \in Nat
    <3>1. writer.position % PageSize \in 0 .. PageSize - 1
      BY <1>0, WalAssumption, DivMod DEF WriterState
    <3> QED BY <1>0, <3>1, WalAssumption DEF Min2, WriterState
  <2>4. /\ writer'.pc = "write"
        /\ writer'.position = writer.position + len
        /\ writer'.left = writer.left - len
    BY <1>0, <2>1, <2>2 DEF WriterState
  <2> QED BY <1>0, <2>2, <2>3, <2>4 DEF PositionsAgree, WalTypeOK, WriterState, status
<1>11. CASE SyncFile
  BY <1>0, <1>11 DEF SyncFile, PositionsAgree, WriterState
<1>12. CASE RemovePages
  BY <1>0, <1>12 DEF RemovePages, PositionsAgree, WriterState, status
<1>13. CASE Publish
  BY <1>0, <1>13
  DEF Publish, PositionsAgree, TrimCaptured, AllWritten, Idle, WalTypeOK, WriterState
<1>14. CASE UNCHANGED walVars
  BY <1>14, <1>b DEF walVars
<1> QED
  BY <1>1, <1>2, <1>3, <1>4, <1>5, <1>6, <1>7, <1>8, <1>9, <1>10, <1>11,
     <1>12, <1>13, <1>14 DEF Next, UpdateLog

\* The oldest offset whose page still exists.
Oldest == IF writer.pc = "publish" /\ writer.trim
          THEN writer.new_offset ELSE flush_pos

\* Pages are created as the writer reaches them and removed as the offset
\* leaves them, none twice and none too early.
LEMMA PagesStep ==
  ASSUME WalInv, [Next]_walVars
  PROVE  PagesKept'
<1>0. writer \in WriterState /\ flush_pos \in Nat
  BY DEF WalInv, WalTypeOK, WriterState
<1>k. pages = Page(Oldest) .. Page(writer.position)
  BY DEF WalInv, PagesKept, Oldest
<1> SUFFICES pages' = Page(Oldest') .. Page(writer'.position)
  BY DEF PagesKept, Oldest
<1>a. ASSUME UNCHANGED <<pages, flush_pos>>,
             writer.pc # "publish", writer'.pc # "publish",
             writer'.position = writer.position
      PROVE  pages' = Page(Oldest') .. Page(writer'.position)
  BY <1>a, <1>k DEF Oldest
<1>b. ASSUME UNCHANGED <<pages, flush_pos, writer>>
      PROVE  pages' = Page(Oldest') .. Page(writer'.position)
  BY <1>b, <1>k DEF Oldest
<1>c. ASSUME UNCHANGED <<pages, flush_pos>>, WakeWriter
      PROVE  pages' = Page(Oldest') .. Page(writer'.position)
  <2>1. CASE writer.pc = "parked"
    BY <1>a, <1>c, <2>1, WakeFacts DEF WalInv
  <2>2. CASE writer.pc # "parked"
    BY <1>b, <1>c, <2>2, WakeFacts DEF WalInv
  <2> QED BY <2>1, <2>2
<1>1. ASSUME NEW s \in Storers, NEW len \in 1 .. MaxLen, store(s, len)
      PROVE  pages' = Page(Oldest') .. Page(writer'.position)
  BY <1>1, <1>c DEF store
<1>2. ASSUME NEW s \in Storers, StoreCheck(s)
      PROVE  pages' = Page(Oldest') .. Page(writer'.position)
  BY <1>2, <1>b DEF StoreCheck, status
<1>3. ASSUME NEW s \in Syncers, sync(s)
      PROVE  pages' = Page(Oldest') .. Page(writer'.position)
  BY <1>3, <1>b, <1>c DEF sync
<1>4. ASSUME NEW s \in Syncers, SyncCheck(s)
      PROVE  pages' = Page(Oldest') .. Page(writer'.position)
  BY <1>4, <1>b DEF SyncCheck, status
<1>5. ASSUME NEW pos \in offset_pos + 1 .. write_pos, set_offset(pos)
      PROVE  pages' = Page(Oldest') .. Page(writer'.position)
  BY <1>5, <1>c DEF set_offset
<1>6. CASE TrimCheck
  BY <1>6, <1>b DEF TrimCheck, status
<1>7. CASE stop
  BY <1>7, <1>c DEF stop
<1>8. CASE Park
  BY <1>0, <1>8, <1>a DEF Park, status, WriterState
<1>9. CASE Capture
  BY <1>0, <1>9, <1>a DEF Capture, WriterState
<1>10. CASE write_all
  <2> DEFINE from == Page(flush_pos)
             at == Page(writer.position)
  <2>1. PICK len \in 1 .. Min2(writer.left, PageSize - (writer.position % PageSize)) :
          /\ writer' = [writer EXCEPT !.position = @ + len, !.left = @ - len]
          /\ pages' = IF (writer.position + len) % PageSize = 0
                      THEN pages \cup {Page(writer.position + len)}
                      ELSE pages
    BY <1>10 DEF write_all
  <2>2. writer.pc = "write" /\ UNCHANGED flush_pos
    BY <1>10 DEF write_all, status
  <2>3. writer'.pc = "write" /\ writer'.position = writer.position + len
    BY <1>0, <2>1, <2>2 DEF WriterState
  <2>4. len \in 1 .. PageSize - (writer.position % PageSize)
    <3>1. writer.position % PageSize \in 0 .. PageSize - 1
      BY <1>0, WalAssumption, DivMod DEF WriterState
    <3> QED BY <1>0, <3>1, WalAssumption DEF Min2, WriterState
  <2>5. Page(writer.position + len) =
          IF (writer.position + len) % PageSize = 0 THEN at + 1 ELSE at
    BY <1>0, <2>4, WriteWithinPage DEF WriterState
  <2>6. from \in Nat /\ at \in Nat /\ from <= at
    <3>1. flush_pos <= writer.position
      BY <1>0 DEF WalInv, PositionsAgree, WalTypeOK, WriterState
    <3> QED BY <1>0, <3>1, PageMonotonic DEF WriterState
  <2>7. pages = from .. at
    BY <1>k, <2>2 DEF Oldest
  <2>8. Page(Oldest') = from
    BY <2>2, <2>3 DEF Oldest
  <2> HIDE DEF from, at
  <2>9. CASE (writer.position + len) % PageSize = 0
    <3>1. pages' = (from .. at) \cup {at + 1} /\ Page(writer'.position) = at + 1
      BY <2>1, <2>3, <2>5, <2>7, <2>9
    <3> QED BY <2>6, <2>8, <3>1
  <2>10. CASE (writer.position + len) % PageSize # 0
    BY <2>1, <2>3, <2>5, <2>7, <2>8, <2>10
  <2> QED BY <2>9, <2>10
<1>11. CASE SyncFile
  BY <1>0, <1>11, <1>a DEF SyncFile, WriterState
<1>12. CASE RemovePages
  <2>1. /\ writer.pc = "trim" /\ writer'.pc = "publish"
        /\ writer'.position = writer.position /\ writer'.trim = writer.trim
        /\ writer'.new_offset = writer.new_offset
        /\ UNCHANGED flush_pos
    BY <1>0, <1>12 DEF RemovePages, WriterState, status
  <2>2. pages = Page(flush_pos) .. Page(writer.position)
    BY <1>k, <2>1 DEF Oldest
  <2>3. CASE ~writer.trim
    BY <1>12, <2>1, <2>2, <2>3 DEF RemovePages, Oldest
  <2>4. CASE writer.trim
    <3> DEFINE from == Page(flush_pos)
               to == Page(writer.new_offset)
               at == Page(writer.position)
    <3>1. writer.old_offset = flush_pos /\ flush_pos < writer.new_offset
      BY <2>1, <2>4 DEF WalInv, TrimCaptured
    <3>2. from \in Nat /\ to \in Nat /\ from <= to
      BY <1>0, <3>1, PageMonotonic DEF WriterState
    <3>3. at \in Nat
      BY <1>0, PageMonotonic DEF WriterState
    <3>4. pages' = (from .. at) \ (from .. to - 1)
      BY <1>12, <2>2, <2>4, <3>1 DEF RemovePages
    <3>5. Page(Oldest') = to /\ Page(writer'.position) = at
      BY <2>1, <2>4 DEF Oldest
    <3> HIDE DEF from, to, at
    <3> QED BY <3>2, <3>3, <3>4, <3>5
  <2> QED BY <2>3, <2>4
<1>13. CASE Publish
  <2>1. /\ writer'.pc # "publish" /\ writer'.position = writer.position
        /\ flush_pos' = Oldest /\ UNCHANGED pages
    BY <1>0, <1>13 DEF Publish, Idle, Oldest, WriterState
  <2> QED BY <1>k, <2>1 DEF Oldest
<1>14. CASE UNCHANGED walVars
  BY <1>14, <1>b DEF walVars, status
<1> QED
  BY <1>1, <1>2, <1>3, <1>4, <1>5, <1>6, <1>7, <1>8, <1>9, <1>10, <1>11,
     <1>12, <1>13, <1>14 DEF Next, UpdateLog

\* The two halves of NoLostWakeup: the writer publishes write_pos and flush_pos
\* and wakes the callers in one step, but sync_pos some steps earlier.
OthersAwake ==
  /\ \A s \in Storers : storer[s].pc = "parked" => write_pos < storer[s].pos
  /\ trimmer.pc = "parked" => flush_pos < trimmer.pos
  /\ writer.pc = "parked" => NothingToDo
SyncersAwake ==
  \A s \in Syncers : syncer[s].pc = "parked" =>
    sync_pos <= syncer[s].pos \/ writer.pc \in {"trim", "publish"}

\* A step that makes the condition of a parked caller of store or set_offset,
\* or of the writer, true wakes it.
LEMMA OthersStep ==
  ASSUME WalInv, [Next]_walVars
  PROVE  OthersAwake'
<1> USE DEF WalInv
<1> OthersAwake
  BY DEF NoLostWakeup, OthersAwake
<1>0. writer \in WriterState
  BY DEF WalTypeOK, WriterState
<1>a. ASSUME UNCHANGED <<status, storer, trimmer>>, writer'.pc # "parked"
      PROVE  OthersAwake'
  BY <1>a DEF status, OthersAwake
<1>b. ASSUME UNCHANGED <<write_pos, flush_pos, storer, trimmer>>, WakeWriter
      PROVE  OthersAwake'
  <2>1. writer'.pc # "parked"
    BY <1>b, WakeFacts
  <2> QED BY <1>b, <2>1 DEF OthersAwake
<1>c. ASSUME UNCHANGED <<status, writer, storer, trimmer>> PROVE OthersAwake'
  BY <1>c DEF status, OthersAwake, NothingToDo
<1>1. ASSUME NEW s \in Storers, NEW len \in 1 .. MaxLen, store(s, len)
      PROVE  OthersAwake'
  <2>1. writer'.pc # "parked" /\ UNCHANGED <<write_pos, flush_pos, trimmer>>
    BY <1>1, WakeFacts DEF store
  <2>2. \A t \in Storers : storer'[t].pc = "parked" => storer'[t] = storer[t]
    BY <1>1 DEF store, WalTypeOK
  <2> QED BY <2>1, <2>2 DEF OthersAwake
<1>2. ASSUME NEW s \in Storers, StoreCheck(s) PROVE OthersAwake'
  <2>1. UNCHANGED <<status, writer, trimmer>>
    BY <1>2 DEF StoreCheck
  <2>2. \A t \in Storers : storer'[t].pc = "parked" => write_pos < storer'[t].pos
    <3>1. storer[s].pos \in Nat /\ write_pos \in Nat
      BY DEF WalTypeOK, CallerState
    <3>2. storer'[s] = IF write_pos >= storer[s].pos THEN NotCalling
                       ELSE [pc |-> "parked", pos |-> storer[s].pos]
      BY <1>2 DEF StoreCheck, WalTypeOK
    <3>3. storer'[s].pc = "parked" => write_pos < storer'[s].pos
      BY <3>1, <3>2 DEF NotCalling
    <3>4. \A t \in Storers : t # s => storer'[t] = storer[t]
      BY <1>2 DEF StoreCheck, WalTypeOK
    <3> QED BY <3>3, <3>4 DEF OthersAwake
  <2> QED BY <2>1, <2>2 DEF OthersAwake, NothingToDo, status
<1>3. ASSUME NEW s \in Syncers, sync(s) PROVE OthersAwake'
  <2>1. UNCHANGED <<write_pos, flush_pos, storer, trimmer>>
    BY <1>3 DEF sync
  <2>2. CASE WakeWriter
    BY <1>b, <2>1, <2>2
  <2>3. CASE UNCHANGED <<sync_flag, writer>>
    BY <1>3, <1>c, <2>3 DEF sync, status
  <2> QED BY <1>3, <2>2, <2>3 DEF sync
<1>4. ASSUME NEW s \in Syncers, SyncCheck(s) PROVE OthersAwake'
  BY <1>4, <1>c DEF SyncCheck
<1>5. ASSUME NEW pos \in offset_pos + 1 .. write_pos, set_offset(pos)
      PROVE  OthersAwake'
  <2>1. writer'.pc # "parked" /\ trimmer'.pc = "check"
    BY <1>5, WakeFacts DEF set_offset
  <2> QED BY <1>5, <2>1 DEF set_offset, OthersAwake
<1>6. CASE TrimCheck
  <2>1. trimmer'.pc = "parked" => flush_pos < trimmer'.pos
    BY <1>6 DEF TrimCheck, NotCalling, WalTypeOK, CallerState
  <2> QED BY <1>6, <2>1 DEF TrimCheck, OthersAwake, NothingToDo, status
<1>7. CASE stop
  BY <1>7, <1>b DEF stop
<1>8. CASE Park
  BY <1>8 DEF Park, OthersAwake, NothingToDo, status
<1>9. CASE Capture
  BY <1>9 DEF Capture, OthersAwake
<1>10. CASE write_all
  BY <1>0, <1>10, <1>a DEF write_all, WriterState
<1>11. CASE SyncFile
  BY <1>0, <1>11 DEF SyncFile, OthersAwake, WriterState
<1>12. CASE RemovePages
  BY <1>0, <1>12, <1>a DEF RemovePages, WriterState
<1>13. CASE Publish
  <2>1. writer'.pc # "parked"
    BY <1>13 DEF Publish, Idle
  <2>2. \A s \in Storers : storer'[s].pc # "parked"
    BY <1>13 DEF Publish, Unpark, WalTypeOK, CallerState
  <2>3. trimmer'.pc # "parked"
    BY <1>13 DEF Publish, Unpark, WalTypeOK, CallerState
  <2> QED BY <2>1, <2>2, <2>3 DEF OthersAwake
<1>14. CASE UNCHANGED walVars
  BY <1>14, <1>c DEF walVars
<1> QED
  BY <1>1, <1>2, <1>3, <1>4, <1>5, <1>6, <1>7, <1>8, <1>9, <1>10, <1>11,
     <1>12, <1>13, <1>14 DEF Next, UpdateLog

\* A parked caller of sync is woken soon after its condition has become true.
LEMMA SyncersStep ==
  ASSUME WalInv, [Next]_walVars
  PROVE  SyncersAwake'
<1> USE DEF WalInv
<1> SyncersAwake
  BY DEF NoLostWakeup, SyncersAwake
<1>0. writer \in WriterState
  BY DEF WalTypeOK, WriterState
<1>a. ASSUME UNCHANGED <<sync_pos, syncer>>,
             writer.pc \in {"trim", "publish"} => writer'.pc \in {"trim", "publish"}
      PROVE  SyncersAwake'
  BY <1>a DEF SyncersAwake
<1>b. ASSUME UNCHANGED <<sync_pos, syncer>>, WakeWriter PROVE SyncersAwake'
  BY <1>a, <1>b, WakeFacts
<1>c. ASSUME NEW s \in Syncers, UNCHANGED sync_pos,
             \A t \in Syncers \ {s} : syncer'[t] = syncer[t],
             syncer'[s].pc = "parked" => sync_pos <= syncer'[s].pos,
             writer.pc \in {"trim", "publish"} => writer'.pc \in {"trim", "publish"}
      PROVE  SyncersAwake'
  BY <1>c DEF SyncersAwake
<1>1. ASSUME NEW s \in Storers, NEW len \in 1 .. MaxLen, store(s, len)
      PROVE  SyncersAwake'
  BY <1>1, <1>b DEF store
<1>2. ASSUME NEW s \in Storers, StoreCheck(s) PROVE SyncersAwake'
  BY <1>2, <1>a DEF StoreCheck, status
<1>3. ASSUME NEW s \in Syncers, sync(s) PROVE SyncersAwake'
  <2>1. writer.pc \in {"trim", "publish"} => writer'.pc \in {"trim", "publish"}
    BY <1>3, WakeFacts DEF sync
  <2>2. /\ syncer'[s].pc # "parked"
        /\ \A t \in Syncers \ {s} : syncer'[t] = syncer[t]
    BY <1>3 DEF sync, WalTypeOK
  <2> QED BY <1>3, <1>c, <2>1, <2>2 DEF sync
<1>4. ASSUME NEW s \in Syncers, SyncCheck(s) PROVE SyncersAwake'
  <2>1. syncer'[s] = [pc |-> IF sync_pos > syncer[s].pos THEN "idle" ELSE "parked",
                      pos |-> syncer[s].pos, acked |-> syncer[s].acked]
    BY <1>4 DEF SyncCheck, WalTypeOK
  <2>2. sync_pos \in Nat /\ syncer[s].pos \in Nat
    BY DEF WalTypeOK
  <2>3. syncer'[s].pc = "parked" => sync_pos <= syncer'[s].pos
    BY <2>1, <2>2
  <2>4. \A t \in Syncers \ {s} : syncer'[t] = syncer[t]
    BY <1>4 DEF SyncCheck, WalTypeOK
  <2> QED BY <1>4, <1>c, <2>3, <2>4 DEF SyncCheck, status
<1>5. ASSUME NEW pos \in offset_pos + 1 .. write_pos, set_offset(pos)
      PROVE  SyncersAwake'
  BY <1>5, <1>b DEF set_offset
<1>6. CASE TrimCheck
  BY <1>6, <1>a DEF TrimCheck, status
<1>7. CASE stop
  BY <1>7, <1>b DEF stop
<1>8. CASE Park
  BY <1>8, <1>a DEF Park, status
<1>9. CASE Capture
  BY <1>9, <1>a DEF Capture
<1>10. CASE write_all
  BY <1>0, <1>10, <1>a DEF write_all, status
<1>11. CASE SyncFile
  BY <1>0, <1>11 DEF SyncFile, SyncersAwake, WriterState
<1>12. CASE RemovePages
  BY <1>0, <1>12, <1>a DEF RemovePages, status, WriterState
<1>13. CASE Publish
  BY <1>13 DEF Publish, Unpark, SyncersAwake, WalTypeOK
<1>14. CASE UNCHANGED walVars
  BY <1>14, <1>a DEF walVars, status
<1> QED
  BY <1>1, <1>2, <1>3, <1>4, <1>5, <1>6, <1>7, <1>8, <1>9, <1>10, <1>11,
     <1>12, <1>13, <1>14 DEF Next, UpdateLog

\* The invariant is inductive.
LEMMA WalInvariant == Spec => []WalInv
<1>1. Init => WalInv
  BY WalInit
<1>2. WalInv /\ [Next]_walVars => WalInv'
  <2> SUFFICES ASSUME WalInv, [Next]_walVars PROVE WalInv'
    OBVIOUS
  <2>1. WalTypeOK'
    BY WalTypeStep DEF WalInv
  <2>2. NoLostWakeup'
    BY OthersStep, SyncersStep DEF NoLostWakeup, OthersAwake, SyncersAwake
  <2> QED BY <2>1, <2>2, TrimStep, PositionsStep, PagesStep DEF WalInv
<1> QED BY <1>1, <1>2, PTL DEF Spec

\* Every field of LogStatus and every local variable keeps its type, for any
\* number of callers and any page size.
THEOREM WalTypeCorrect == Spec => []WalTypeOK
<1>1. WalInv => WalTypeOK
  BY DEF WalInv
<1> QED BY <1>1, WalInvariant, PTL

\* The assertions of update_log hold: every byte that store queued is written,
\* being written or queued, the writer resumes where it published, and
\* flush_pos <= offset_pos <= write_pos.
THEOREM PositionsAlwaysAgree == Spec => []PositionsAgree
<1>1. WalInv => PositionsAgree
  BY DEF WalInv
<1> QED BY <1>1, WalInvariant, PTL

\* The files of the log are exactly the pages from the oldest offset that may
\* be needed to the writer's position, however set_offset and store interleave.
THEOREM PagesAlwaysKept == Spec => []PagesKept
<1>1. WalInv => PagesKept
  BY DEF WalInv
<1> QED BY <1>1, WalInvariant, PTL

\* store, sync, set_offset and the writer never stay parked when what they wait
\* for has happened.
THEOREM NoWakeupIsLost == Spec => []NoLostWakeup
<1>1. WalInv => NoLostWakeup
  BY DEF WalInv
<1> QED BY <1>1, WalInvariant, PTL

\* Every step keeps sync_pos behind what is written.
LEMMA SyncBehindStep ==
  ASSUME WalInv, SyncBehindWrite, [Next]_walVars
  PROVE  SyncBehindWrite'
<1>0. /\ writer \in WriterState /\ queue \in Nat
      /\ queue_pos \in Nat /\ write_pos \in Nat /\ sync_pos \in Nat
  BY DEF WalInv, WalTypeOK, WriterState
<1>1. /\ writer.position + writer.left + queue = queue_pos
      /\ write_pos <= writer.position
  BY DEF WalInv, PositionsAgree
<1>a. ASSUME WakeWriter, UNCHANGED <<write_pos, sync_pos>>,
             queue_pos' \in Nat, queue_pos <= queue_pos'
      PROVE  SyncBehindWrite'
  <2>1. writer'.position = writer.position
    BY <1>a, WakeFacts DEF WalInv
  <2>2. write_pos' <= queue_pos' /\ sync_pos' <= writer'.position
    BY <1>0, <1>a, <2>1 DEF SyncBehindWrite
  <2>3. sync_pos > write_pos => writer' = writer
    BY <1>a, WakeFacts DEF WalInv, SyncBehindWrite
  <2> QED BY <1>a, <2>2, <2>3 DEF SyncBehindWrite
<1>b. ASSUME UNCHANGED <<queue_pos, write_pos, sync_pos, writer>>
      PROVE  SyncBehindWrite'
  BY <1>b DEF SyncBehindWrite
<1>2. ASSUME NEW s \in Storers, NEW len \in 1 .. MaxLen, store(s, len)
      PROVE  SyncBehindWrite'
  <2>1. len \in Nat
    BY WalAssumption
  <2> QED BY <1>0, <1>a, <1>2, <2>1 DEF store
<1>3. ASSUME NEW s \in Syncers, sync(s) PROVE SyncBehindWrite'
  BY <1>0, <1>3, <1>a, <1>b DEF sync
<1>4. ASSUME NEW pos \in offset_pos + 1 .. write_pos, set_offset(pos)
      PROVE  SyncBehindWrite'
  BY <1>0, <1>4, <1>a DEF set_offset
<1>5. CASE stop
  BY <1>0, <1>5, <1>a DEF stop
<1>6. CASE TrimCheck \/ UNCHANGED walVars
  BY <1>6, <1>b DEF TrimCheck, walVars, status
<1>7. ASSUME NEW s \in Storers, StoreCheck(s) PROVE SyncBehindWrite'
  BY <1>7, <1>b DEF StoreCheck, status
<1>8. ASSUME NEW s \in Syncers, SyncCheck(s) PROVE SyncBehindWrite'
  BY <1>8, <1>b DEF SyncCheck, status
<1>9. CASE Park \/ Capture
  BY <1>0, <1>9 DEF Park, Capture, SyncBehindWrite, status, WriterState
<1>10. CASE write_all
  <2>1. PICK len \in 1 .. Min2(writer.left, PageSize - (writer.position % PageSize)) :
          writer' = [writer EXCEPT !.position = @ + len, !.left = @ - len]
    BY <1>10 DEF write_all
  <2>2. writer.pc = "write" /\ UNCHANGED status
    BY <1>10 DEF write_all
  <2>3. writer'.position = writer.position + len /\ writer'.pc = "write"
    BY <1>0, <2>1, <2>2 DEF WriterState
  <2>4. len \in Nat
    <3>1. writer.position % PageSize \in 0 .. PageSize - 1
      BY <1>0, WalAssumption, DivMod DEF WriterState
    <3> QED BY <1>0, <3>1, WalAssumption DEF Min2, WriterState
  <2> QED BY <1>0, <2>2, <2>3, <2>4 DEF SyncBehindWrite, status, WriterState
<1>11. CASE SyncFile
  BY <1>0, <1>11 DEF SyncFile, SyncBehindWrite, WriterState
<1>12. CASE RemovePages
  BY <1>0, <1>12 DEF RemovePages, SyncBehindWrite, status, WriterState
<1>13. CASE Publish
  <2>1. /\ write_pos' = writer.position /\ writer'.position = writer.position
        /\ UNCHANGED <<queue_pos, sync_pos>>
    BY <1>0, <1>13 DEF Publish, Idle
  <2> QED BY <1>0, <1>1, <2>1 DEF SyncBehindWrite, WriterState
<1> QED
  BY <1>2, <1>3, <1>4, <1>5, <1>6, <1>7, <1>8, <1>9, <1>10, <1>11,
     <1>12, <1>13 DEF Next, UpdateLog

\* sync_pos is ahead of write_pos only between SyncFile and Publish of a writer
\* that was asked to sync, and never ahead of what is in the files: this is all
\* that remains of the documented order of the positions.
THEOREM SyncStaysBehindWrite == Spec => []SyncBehindWrite
<1>1. Init => SyncBehindWrite
  BY DEF Init, Idle, SyncBehindWrite
<1>2. WalInv /\ SyncBehindWrite /\ [Next]_walVars => SyncBehindWrite'
  BY SyncBehindStep
<1> QED BY <1>1, <1>2, WalInvariant, PTL DEF Spec
=============================================================================
