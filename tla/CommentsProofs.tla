----------------------------- MODULE CommentsProofs -----------------------------
(***************************************************************************)
(* Proofs about the comments of a post: types, the section in Redis, what  *)
(* a tab shows of the list, and that neither replies nor words are doubled.*)
(***************************************************************************)
EXTENDS Comments, SequenceTheorems, TLAPS

USE SizesAssumption, BoundsAssumption

\* Roots are numbered as they are written, so there are never more than that.
Counted == created + writes <= Youngest /\ Len(roots) <= created

TypeInv == TypeOK /\ Counted

-----------------------------------------------------------------------------
(* Lists and pages *)

\* The lists are the sequences of roots that are not too long.
LEMMA ListsAreSequences ==
    ASSUME NEW l
    PROVE  l \in Lists <=> l \in Seq(Roots) /\ Len(l) <= Youngest
  <1>1. Youngest \in Nat
    BY DEF Youngest
  <1>2. ASSUME l \in Lists PROVE l \in Seq(Roots) /\ Len(l) <= Youngest
    <2>1. PICK n \in 0..Youngest : l \in [1..n -> Roots]
      BY <1>2 DEF Lists
    <2>. QED  BY <1>1, <2>1
  <1>3. ASSUME l \in Seq(Roots), Len(l) <= Youngest PROVE l \in Lists
    <2>1. Len(l) \in 0..Youngest /\ l \in [1..Len(l) -> Roots]
      BY <1>1, <1>3
    <2>. QED  BY <2>1 DEF Lists
  <1>. QED  BY <1>2, <1>3

\* The empty sequence is a list.
LEMMA EmptyList == <<>> \in Lists
  <1>1. <<>> \in [1..0 -> Roots] /\ 0 \in 0..Youngest
    BY DEF Youngest
  <1>. QED  BY <1>1 DEF Lists

\* A page is part of its list and no longer than what is left of it.
LEMMA PageType ==
    ASSUME NEW list \in Seq(Roots), NEW offset \in Nat
    PROVE  /\ Page(list, offset) \in Seq(Roots)
           /\ offset <= Len(list) => offset + Len(Page(list, offset)) <= Len(list)
           /\ offset <= Len(list) =>
                \A i \in 1..Len(Page(list, offset)) : Page(list, offset)[i] = list[offset + i]
  <1>. DEFINE n == IF offset + PageSize < Len(list) THEN offset + PageSize ELSE Len(list)
  <1>1. n \in Nat /\ n <= Len(list) /\ offset + 1 \in Int
    OBVIOUS
  <1>2. \A i \in (offset + 1)..n : list[i] \in Roots
    BY <1>1
  <1>3. /\ SubSeq(list, offset + 1, n) \in Seq(Roots)
        /\ Len(SubSeq(list, offset + 1, n)) = IF offset + 1 <= n THEN n - (offset + 1) + 1 ELSE 0
        /\ \A i \in 1..(n - (offset + 1) + 1) :
              SubSeq(list, offset + 1, n)[i] = list[offset + 1 + i - 1]
    <2>. HIDE DEF n
    <2>. QED  BY <1>1, <1>2, SubSeqProperties
  <1>4. Page(list, offset) = SubSeq(list, offset + 1, n)
    BY DEF Page
  <1>. HIDE DEF n
  <1>. QED  BY <1>1, <1>3, <1>4

\* A page goes on where the beginning of the list ends.
LEMMA PageExtends ==
    ASSUME NEW list \in Seq(Roots), NEW offset \in 0..Len(list)
    PROVE  SubSeq(list, 1, offset) \o Page(list, offset)
             = SubSeq(list, 1, offset + Len(Page(list, offset)))
  <1>. DEFINE page == Page(list, offset)
              a == SubSeq(list, 1, offset)
              end == offset + Len(page)
              b == SubSeq(list, 1, end)
  <1>1. page \in Seq(Roots) /\ end \in 0..Len(list)
        /\ \A i \in 1..Len(page) : page[i] = list[offset + i]
    BY PageType
  <1>2. a \in Seq(Roots) /\ Len(a) = offset /\ \A i \in 1..offset : a[i] = list[i]
    <2>1. \A i \in 1..offset : list[i] \in Roots
      OBVIOUS
    <2>. QED  BY <2>1, SubSeqProperties
  <1>3. b \in Seq(Roots) /\ Len(b) = end /\ \A i \in 1..end : b[i] = list[i]
    <2>1. \A i \in 1..end : list[i] \in Roots
      BY <1>1
    <2>. HIDE DEF end
    <2>. QED  BY <1>1, <2>1, SubSeqProperties
  <1>. HIDE DEF page, a, b
  <1>4. /\ a \o page \in Seq(Roots) /\ Len(a \o page) = end
        /\ \A i \in 1..end : (a \o page)[i] = IF i <= offset THEN a[i] ELSE page[i - offset]
    BY <1>1, <1>2, ConcatProperties
  <1>5. ASSUME NEW i \in 1..end PROVE (a \o page)[i] = b[i]
    <2>1. CASE i <= offset
      BY <2>1, <1>2, <1>3, <1>4
    <2>2. CASE ~(i <= offset)
      <3>1. i - offset \in 1..Len(page) /\ offset + (i - offset) = i
        BY <2>2, <1>1
      <3>. QED  BY <2>2, <3>1, <1>1, <1>3, <1>4
    <2>. QED  BY <2>1, <2>2
  <1>6. a \o page = b
    BY <1>1, <1>3, <1>4, <1>5, SeqEqual
  <1>. QED  BY <1>6 DEF a, b, page

\* The first page is the beginning of its list.
LEMMA FirstPage ==
    ASSUME NEW list \in Seq(Roots)
    PROVE  Page(list, 0) = SubSeq(list, 1, Len(Page(list, 0)))
  <1>. DEFINE page == Page(list, 0)
  <1>1. page \in Seq(Roots) /\ 0 \in 0..Len(list)
    BY PageType
  <1>2. SubSeq(list, 1, 0) \o page = SubSeq(list, 1, 0 + Len(page))
    BY <1>1, PageExtends
  <1>3. SubSeq(list, 1, 0) = <<>>
    BY SubSeqEmpty
  <1>. HIDE DEF page
  <1>4. <<>> \o page = page /\ 0 + Len(page) = Len(page)
    BY <1>1, ConcatEmptySeq
  <1>5. SubSeq(list, 1, 0 + Len(page)) = SubSeq(list, 1, Len(page))
    BY <1>4
  <1>6. page = SubSeq(list, 1, Len(page))
    BY <1>2, <1>3, <1>4, <1>5
  <1>. QED  BY <1>6 DEF page

\* A list stays one when a root is written at its front or leaves it.
LEMMA WrittenType ==
    ASSUME NEW l \in Seq(Roots), NEW r \in Roots
    PROVE  <<r>> \o l \in Seq(Roots) /\ Len(<<r>> \o l) = Len(l) + 1
  BY ConcatProperties

\* So it does when one is hidden or deleted.
LEMMA RemovedType ==
    ASSUME NEW l \in Seq(Roots), NEW i \in 1..Len(l)
    PROVE  RemoveAt(l, i) \in Seq(Roots) /\ Len(RemoveAt(l, i)) = Len(l) - 1
  <1>. DEFINE a == SubSeq(l, 1, i - 1)
              b == SubSeq(l, i + 1, Len(l))
  <1>1. \A j \in 1..(i - 1) : l[j] \in Roots
    OBVIOUS
  <1>2. \A j \in (i + 1)..Len(l) : l[j] \in Roots
    OBVIOUS
  <1>3. a \in Seq(Roots) /\ Len(a) = i - 1
    BY <1>1, SubSeqProperties
  <1>4. b \in Seq(Roots) /\ Len(b) = Len(l) - i
    BY <1>2, SubSeqProperties
  <1>. HIDE DEF a, b
  <1>5. a \o b \in Seq(Roots) /\ Len(a \o b) = Len(l) - 1
    BY <1>3, <1>4, ConcatProperties
  <1>. QED  BY <1>5 DEF RemoveAt, a, b

-----------------------------------------------------------------------------
(* Type correctness *)

Requests == [step: Steps, offset: Nat, list: Lists, total: 0..Youngest]
Tabs == [shown: Seq(Roots), offset: Nat, more: BOOLEAN, list: Lists, torn: BOOLEAN]
Threads == [button: {"on", "off", "gone"}, handlers: Nat, fetches: Nat, listed: Nat]
Words == [typed: BOOLEAN, busy: BOOLEAN, posted: Nat, lost: BOOLEAN]

\* What a section or an answer holds makes a block.
LEMMA BlockType ==
    ASSUME NEW p, p.list \in Lists, p.total \in 0..Youngest
    PROVE  Block(p) \in Tabs
  <1>1. p.list \in Seq(Roots)
    BY ListsAreSequences
  <1>2. Page(p.list, 0) \in Seq(Roots)
    BY <1>1, PageType
  <1>. DEFINE page == Page(p.list, 0)
  <1>3. page \in Seq(Roots) /\ Len(page) \in Nat /\ Len(p.list) \in Nat
    BY <1>1, <1>2
  <1>4. Youngest \in Nat
    BY DEF Youngest
  <1>5. Block(p) = [shown |-> page, offset |-> Len(page), more |-> p.total > Len(page),
                    list |-> p.list, torn |-> p.total # Len(p.list)]
    BY DEF Block
  <1>. HIDE DEF page
  <1>. QED  BY <1>3, <1>4, <1>5 DEF Tabs

\* The tab as its first load rendered it.
LEMMA TypeInit == Init => TypeInv
  <1>. SUFFICES ASSUME Init PROVE TypeInv
    OBVIOUS
  <1>1. Youngest \in Nat /\ Start <= Youngest /\ Youngest = Start + MaxWrites
    BY DEF Youngest
  <1>2. roots \in Seq(Roots) /\ Len(roots) = Start
    <2>1. \A i \in 1..Start : Start + 1 - i \in Roots
      BY <1>1 DEF Roots
    <2>. QED  BY <2>1 DEF Init
  <1>3. roots \in Lists
    BY <1>1, <1>2, ListsAreSequences
  <1>4. Idle \in Requests
    <2>. QED  BY <1>1, EmptyList DEF Idle, Requests, Steps
  <1>5. req \in [Slots -> Requests]
    BY <1>4 DEF Init
  <1>6. tab \in Tabs
    <2>. DEFINE p == [list |-> roots, total |-> Start]
    <2>1. p.list \in Lists /\ p.total \in 0..Youngest
      BY <1>1, <1>3
    <2>2. tab = Block(p)
      BY DEF Init
    <2>. HIDE DEF p
    <2>. QED  BY <2>1, <2>2, BlockType
  <1>7. thread \in Threads /\ words \in Words
    BY DEF Init, Folded, Blank, Threads, Words
  <1>8. Counted
    BY <1>1, <1>2 DEF Counted, Init
  <1>9. /\ created \in Start..Youngest /\ writes \in 0..MaxWrites
        /\ section = None /\ news \in Nat /\ late \in BOOLEAN /\ faults \in 0..MaxFaults
    <2>1. /\ created = Start /\ writes = MaxWrites /\ section = None /\ news = 0
          /\ late = FALSE /\ faults = 0
      BY DEF Init
    <2>2. MaxWrites \in 0..MaxWrites /\ 0 \in 0..MaxFaults /\ 0 \in Nat
          /\ Start \in Start..Youngest
      BY <1>1
    <2>3. late \in BOOLEAN
      BY <2>1
    <2>. QED  BY <2>1, <2>2, <2>3
  <1>10. TypeOK
    BY <1>3, <1>5, <1>6, <1>7, <1>9 DEF TypeOK, Requests, Tabs, Threads, Words
  <1>. QED  BY <1>8, <1>10 DEF TypeInv

\* Going on to another step keeps a request what it is.
LEMMA GoType ==
    ASSUME req \in [Slots -> Requests], NEW s \in Slots, NEW step \in Steps, Go(s, step)
    PROVE  req' \in [Slots -> Requests]
  BY DEF Go, Requests

\* Words that are written are words still.
LEMMA WrittenWords ==
    ASSUME NEW w \in Words
    PROVE  [w EXCEPT !.posted = @ + 1] \in Words
  BY DEF Words

\* A request with other rows is one still.
LEMMA RequestType ==
    ASSUME NEW q \in Requests, NEW step \in Steps, NEW list \in Lists, NEW total \in 0..Youngest
    PROVE  /\ [q EXCEPT !.step = step, !.list = list, !.total = total] \in Requests
           /\ [q EXCEPT !.step = step, !.list = list] \in Requests
           /\ [q EXCEPT !.step = step, !.total = total] \in Requests
  BY DEF Requests

\* Neither do the handlers of the server.
LEMMA TypeServe ==
    ASSUME TypeInv, NEW s \in Slots, Serve(s)
    PROVE  TypeInv'
  <1>1. Youngest \in Nat /\ Youngest = Start + MaxWrites /\ roots \in Seq(Roots)
    BY ListsAreSequences DEF TypeInv, TypeOK, Youngest
  <1>2. req \in [Slots -> Requests] /\ words \in Words
    BY DEF TypeInv, TypeOK, Requests, Words
  <1>10. writes \in 0..MaxWrites /\ created \in Start..Youngest
    BY DEF TypeInv, TypeOK
  <1>. USE DEF TypeInv, TypeOK, Counted
  <1>3. CASE Write(s)
    <2>1. req' \in [Slots -> Requests]
      BY <1>2, <1>3, GoType DEF Write, Steps
    <2>2. words' \in Words
      <3>1. [words EXCEPT !.posted = @ + 1] \in Words
        BY WrittenWords, <1>2
      <3>. QED  BY <1>2, <1>3, <3>1 DEF Write
    <2>3. writes \in Nat /\ writes > 0 /\ writes' = writes - 1 /\ writes' \in 0..MaxWrites
      <3>1. writes > 0 /\ writes' = writes - 1
        BY <1>3 DEF Write
      <3>. HIDE DEF TypeInv, TypeOK, Counted
      <3>. QED  BY <1>10, <3>1
    <2>4. /\ created' \in Start..Youngest /\ created' + writes' <= Youngest
          /\ roots' \in Seq(Roots) /\ Len(roots') <= created'
      <3>1. CASE created' = created + 1 /\ roots' = <<created + 1>> \o roots
        <4>1. created + 1 \in Roots
          BY <1>1, <2>3 DEF Roots
        <4>2. roots' \in Seq(Roots) /\ Len(roots') = Len(roots) + 1
          BY <1>1, <3>1, <4>1, WrittenType
        <4>3. Len(roots) \in Nat
          BY <1>1
        <4>. QED  BY <1>1, <2>3, <3>1, <4>2, <4>3
      <3>2. CASE created' = created /\ \E i \in DOMAIN roots : roots' = RemoveAt(roots, i)
        <4>1. PICK i \in DOMAIN roots : roots' = RemoveAt(roots, i)
          BY <3>2
        <4>2. i \in 1..Len(roots) /\ Len(roots) \in Nat
          BY <1>1
        <4>3. roots' \in Seq(Roots) /\ Len(roots') = Len(roots) - 1
          BY <1>1, <4>1, <4>2, RemovedType
        <4>. QED  BY <1>1, <2>3, <3>2, <4>2, <4>3
      <3>. QED  BY <1>3, <3>1, <3>2 DEF Write
    <2>5. roots' \in Lists
      BY <1>1, <2>3, <2>4, ListsAreSequences
    <2>. QED  BY <1>3, <2>1, <2>2, <2>3, <2>4, <2>5 DEF Write, Requests, Words
  <1>4. CASE Forget(s)
    <2>1. req' \in [Slots -> Requests]
      BY <1>2, <1>4, GoType DEF Forget, Steps
    <2>. QED  BY <1>4, <2>1 DEF Forget, client, Requests
  <1>5. CASE Bump(s)
    <2>1. req' \in [Slots -> Requests]
      BY <1>2, <1>5, GoType DEF Bump, Steps
    <2>. QED  BY <1>5, <2>1 DEF Bump, client, Requests
  <1>6. CASE Get(s)
    <2>1. CASE section = None
      <3>1. req' \in [Slots -> Requests]
        BY <1>2, <1>6, <2>1, GoType DEF Get, Steps
      <3>. QED  BY <1>6, <3>1 DEF Get, server, client, Requests
    <2>2. CASE section # None
      <3>1. section.list \in Lists /\ section.total \in 0..Youngest
        BY <2>2 DEF Payloads
      <3>2. [req[s] EXCEPT !.step = "answer", !.list = section.list, !.total = section.total]
              \in Requests
        BY <1>2, <3>1, RequestType DEF Steps
      <3>3. req' = [req EXCEPT ![s] = [req[s] EXCEPT !.step = "answer", !.list = section.list,
                                                     !.total = section.total]]
        BY <1>6, <2>2 DEF Get
      <3>4. req' \in [Slots -> Requests]
        BY <1>2, <3>2, <3>3
      <3>. QED  BY <1>6, <2>2, <3>4 DEF Get, server, client, Requests
    <2>. QED  BY <2>1, <2>2
  <1>7. CASE Rows(s)
    <2>1. req' \in [Slots -> Requests]
      BY <1>2, <1>7 DEF Rows, Requests, Steps
    <2>. QED  BY <1>7, <2>1 DEF Rows, server, client, Requests
  <1>8. CASE Total(s)
    <2>1. Len(roots) \in 0..Youngest
      BY <1>1
    <2>2. (IF s = "more" THEN "answer" ELSE "put") \in Steps
      BY DEF Steps
    <2>. DEFINE step == IF s = "more" THEN "answer" ELSE "put"
    <2>3. [req[s] EXCEPT !.step = step, !.total = Len(roots)] \in Requests
      BY <1>2, <2>1, <2>2, RequestType
    <2>4. req' = [req EXCEPT ![s] = [req[s] EXCEPT !.step = step, !.total = Len(roots)]]
      BY <1>8 DEF Total
    <2>5. req' \in [Slots -> Requests]
      BY <1>2, <2>3, <2>4
    <2>. QED  BY <1>8, <2>5 DEF Total, server, client, Requests
  <1>9. CASE Put(s)
    <2>1. req' \in [Slots -> Requests]
      BY <1>2, <1>9, GoType DEF Put, Steps
    <2>2. section' \in Payloads
      BY <1>2, <1>9 DEF Put, Payloads, Requests
    <2>. QED  BY <1>9, <2>1, <2>2 DEF Put, client, Requests
  <1>. QED  BY <1>3, <1>4, <1>5, <1>6, <1>7, <1>8, <1>9 DEF Serve

\* No step leaves the tab, the section or a request ill formed.
LEMMA TypeStep == TypeInv /\ [Next]_vars => TypeInv'
  <1>. SUFFICES ASSUME TypeInv, [Next]_vars PROVE TypeInv'
    OBVIOUS
  <1>1. /\ req \in [Slots -> Requests] /\ words \in Words /\ tab \in Tabs /\ thread \in Threads
        /\ faults \in 0..MaxFaults /\ late \in BOOLEAN /\ news \in Nat
    BY DEF TypeInv, TypeOK, Requests, Words, Tabs, Threads
  <1>2. Idle \in Requests /\ [Idle EXCEPT !.step = "rows", !.offset = tab.offset] \in Requests
    <2>1. tab.offset \in Nat /\ 0 \in 0..Youngest
      BY <1>1 DEF Tabs, Youngest
    <2>. QED  BY <2>1, EmptyList DEF Idle, Requests, Steps
  <1>3. Folded \in Threads /\ Blank \in Words /\ [Blank EXCEPT !.typed = TRUE] \in Words
    BY DEF Folded, Threads, Blank, Words
  <1>. USE DEF TypeInv, TypeOK, Counted
  <1>4. ASSUME NEW s \in Slots, Serve(s) PROVE TypeInv'
    <2>. HIDE DEF TypeInv
    <2>. QED  BY <1>4, TypeServe
  <1>5. ASSUME NEW s \in Slots, Replace(s) PROVE TypeInv'
    <2>1. tab' \in Tabs
      <3>1. req[s].list \in Lists /\ req[s].total \in 0..Youngest
        BY <1>1 DEF Requests
      <3>. QED  BY <1>5, <3>1, BlockType DEF Replace
    <2>2. req' \in [Slots -> Requests]
      BY <1>1, <1>2, <1>5 DEF Replace
    <2>3. thread' \in Threads /\ words' \in Words
      BY <1>3, <1>5 DEF Replace
    <2>. QED  BY <1>5, <2>1, <2>2, <2>3 DEF Replace, server, Requests, Words, Tabs, Threads
  <1>6. ASSUME NEW s \in Slots, Fail(s) PROVE TypeInv'
    <2>1. req' \in [Slots -> Requests]
      BY <1>1, <1>2, <1>6 DEF Fail
    <2>2. words' \in Words
      <3>1. [words EXCEPT !.busy = FALSE, !.lost = TRUE] \in Words
        BY <1>1 DEF Words
      <3>. QED  BY <1>1, <1>6, <3>1 DEF Fail
    <2>3. faults' \in 0..MaxFaults
      <3>. HIDE DEF TypeInv
      <3>. QED  BY <1>1, <1>6 DEF Fail
    <2>4. late' \in BOOLEAN
      BY <1>6 DEF Fail
    <2>. QED  BY <1>6, <2>1, <2>2, <2>3, <2>4 DEF Fail, server, Requests, Words
  <1>7. CASE AppendRoots
    <2>1. req' \in [Slots -> Requests]
      BY <1>1, <1>2, <1>7 DEF AppendRoots
    <2>2. thread' \in Threads
      <3>1. InitThreadReplies \in Threads
        BY <1>1 DEF InitThreadReplies, Threads
      <3>. QED  BY <1>1, <1>7, <3>1 DEF AppendRoots
    <2>3. tab' \in Tabs
      <3>. DEFINE r == req["more"]
                  page == Page(r.list, r.offset)
      <3>1. r.list \in Seq(Roots) /\ r.offset \in Nat /\ r.total \in Nat
        <4>. HIDE DEF TypeInv
        <4>1. r \in Requests
          BY <1>1 DEF Slots
        <4>2. r.list \in Lists /\ r.offset \in Nat /\ r.total \in 0..Youngest
          <5>. HIDE DEF r
          <5>. QED  BY <4>1 DEF Requests
        <4>. HIDE DEF r
        <4>. QED  BY <4>2, ListsAreSequences
      <3>2. page \in Seq(Roots)
        BY <3>1, PageType
      <3>3. tab.shown \in Seq(Roots)
        BY <1>1 DEF Tabs
      <3>4. AppendRootsChunk(tab.shown, page) \in Seq(Roots) /\ r.offset + Len(page) \in Nat
        <4>. HIDE DEF r, page
        <4>. QED  BY <3>1, <3>2, <3>3, ConcatProperties DEF AppendRootsChunk
      <3>. DEFINE more == r.total > r.offset + Len(page)
                  torn == tab.torn \/ r.list # tab.list \/ r.total # Len(r.list)
      <3>5. tab' = [tab EXCEPT !.shown = AppendRootsChunk(tab.shown, page),
                               !.offset = r.offset + Len(page), !.more = more, !.torn = torn]
        BY <1>7 DEF AppendRoots
      <3>6. more \in BOOLEAN /\ torn \in BOOLEAN
        OBVIOUS
      <3>. HIDE DEF r, page, more, torn, TypeInv
      <3>. QED  BY <1>1, <3>4, <3>5, <3>6 DEF Tabs
    <2>. QED  BY <1>7, <2>1, <2>2, <2>3 DEF AppendRoots, server, Requests, Tabs, Threads
  <1>8. CASE Expire
    <2>1. /\ section' = None /\ late' \in BOOLEAN
          /\ UNCHANGED <<roots, created, writes, news, req, client, faults>>
      BY <1>8 DEF Expire
    <2>. QED  BY <2>1 DEF client
  <1>9. CASE Other
    <2>1. req' \in [Slots -> Requests]
      BY <1>1, <1>9, GoType DEF Other, Steps, Slots
    <2>. QED  BY <1>9, <2>1 DEF Other, server, client, Requests
  <1>10. CASE Notice
    <2>1. req' \in [Slots -> Requests]
      BY <1>1, <1>10, GoType DEF Notice, Steps, Slots
    <2>2. news' \in Nat
      <3>. HIDE DEF TypeInv
      <3>. QED  BY <1>1, <1>10 DEF Notice
    <2>. QED  BY <1>10, <2>1, <2>2 DEF Notice, client, Requests
  <1>11. CASE Report
    <2>1. req' \in [Slots -> Requests]
      BY <1>1, <1>2, <1>11 DEF Report
    <2>. QED  BY <1>11, <2>1 DEF Report, server, client, Requests
  <1>12. CASE ShowReplies \/ AppendReplies \/ FailReplies
    <2>1. thread' \in Threads
      <3>1. CASE ShowReplies
        <4>1. thread.fetches + thread.handlers \in Nat
          BY <1>1 DEF Threads
        <4>. QED  BY <1>1, <3>1, <4>1 DEF ShowReplies, Threads
      <3>2. CASE AppendReplies
        <4>1. thread.fetches - 1 \in Nat /\ thread.listed + 1 \in Nat
          BY <1>1, <3>2 DEF AppendReplies, Threads
        <4>2. thread' = [thread EXCEPT !.button = "gone", !.fetches = thread.fetches - 1,
                                       !.listed = thread.listed + 1]
          BY <3>2 DEF AppendReplies
        <4>. QED  BY <1>1, <4>1, <4>2 DEF Threads
      <3>3. CASE FailReplies
        <4>1. (IF thread.button = "gone" THEN thread.button ELSE "on") \in {"on", "off", "gone"}
          OBVIOUS
        <4>2. thread.fetches - 1 \in Nat
          BY <1>1, <3>3 DEF FailReplies, Threads
        <4>3. thread' = [thread EXCEPT !.fetches = thread.fetches - 1,
                !.button = IF thread.button = "gone" THEN thread.button ELSE "on"]
          BY <3>3 DEF FailReplies
        <4>. QED  BY <1>1, <4>1, <4>2, <4>3 DEF Threads
      <3>. QED  BY <1>12, <3>1, <3>2, <3>3
    <2>2. faults' \in 0..MaxFaults
      <3>. HIDE DEF TypeInv
      <3>. QED  BY <1>1, <1>12 DEF ShowReplies, AppendReplies, FailReplies
    <2>3. UNCHANGED <<roots, created, writes, section, news, req, tab, words, late>>
      BY <1>12 DEF ShowReplies, AppendReplies, FailReplies, server
    <2>. QED  BY <2>1, <2>2, <2>3 DEF Threads
  <1>13. CASE Type \/ Submit \/ Refuse
    <2>1. words' \in Words
      <3>1. [words EXCEPT !.busy = TRUE] \in Words /\ [words EXCEPT !.busy = FALSE] \in Words
        BY <1>1 DEF Words
      <3>. QED  BY <1>3, <1>13, <3>1 DEF Type, Submit, Refuse
    <2>2. req' \in [Slots -> Requests]
      BY <1>1, <1>2, <1>13, GoType DEF Type, Submit, Refuse, Steps, Slots
    <2>3. UNCHANGED <<roots, created, writes, section, news, tab, thread, late, faults>>
      BY <1>13 DEF Type, Submit, Refuse, server
    <2>. QED  BY <2>1, <2>2, <2>3 DEF Words, Requests
  <1>14. CASE UNCHANGED vars
    BY <1>14 DEF vars, server, client
  <1>. QED  BY <1>4, <1>5, <1>6, <1>7, <1>8, <1>9, <1>10, <1>11, <1>12, <1>13, <1>14 DEF Next

\* The well-formedness of everything, for pages, lists and writes of any number.
THEOREM TypeCorrect == Spec => [](TypeOK /\ Counted)
  <1>1. Init => TypeInv
    BY TypeInit
  <1>2. TypeInv /\ [Next]_vars => TypeInv'
    BY TypeStep
  <1>. QED  BY <1>1, <1>2, PTL DEF Spec, TypeInv

-----------------------------------------------------------------------------
(* The section in Redis *)

\* A further page is read and never written, and asked for where the tab ends.
MoreOK ==
    /\ req["more"].step \in {"idle", "rows", "total", "answer"}
    /\ req["more"].step # "idle" => req["more"].offset = tab.offset

\* Nothing is asked for when the tab opens.
LEMMA MoreInit == Init => MoreOK
  BY DEF Init, MoreOK, Idle, Slots

\* Every step keeps what is known of a page on its way.
LEMMA MoreStep == TypeInv /\ MoreOK /\ [Next]_vars => MoreOK'
  <1>. SUFFICES ASSUME TypeInv, MoreOK, [Next]_vars PROVE MoreOK'
    OBVIOUS
  <1>1. req \in [Slots -> Requests] /\ "more" \in Slots
    BY DEF TypeInv, TypeOK, Requests, Slots
  <1>2. ASSUME NEW s \in Slots, Serve(s) PROVE MoreOK'
    <2>1. tab' = tab
      BY <1>2 DEF Serve, Write, Forget, Bump, Get, Rows, Total, Put, client
    <2>2. CASE s # "more"
      <3>1. req'["more"] = req["more"]
        BY <1>1, <1>2, <2>2 DEF Serve, Write, Forget, Bump, Get, Rows, Total, Put, Go
      <3>. QED  BY <2>1, <3>1 DEF MoreOK
    <2>3. CASE s = "more"
      <3>1. Rows("more") \/ Total("more")
        BY <1>2, <2>3 DEF Serve, Write, Forget, Bump, Get, Put, At, MoreOK
      <3>2. /\ req'["more"].step \in {"total", "answer"}
            /\ req'["more"].offset = req["more"].offset /\ req["more"].step # "idle"
        <4>1. req["more"] \in Requests
          BY <1>1
        <4>2. CASE Rows("more")
          BY <1>1, <4>1, <4>2 DEF Rows, At, Requests
        <4>3. CASE Total("more")
          <5>1. req' = [req EXCEPT !["more"] =
                          [req["more"] EXCEPT !.step = "answer", !.total = Len(roots)]]
            BY <4>3 DEF Total
          <5>. QED  BY <1>1, <4>1, <4>3, <5>1 DEF Total, At, Requests
        <4>. QED  BY <3>1, <4>2, <4>3
      <3>. QED  BY <2>1, <3>2 DEF MoreOK
    <2>. QED  BY <2>2, <2>3
  <1>3. ASSUME NEW s \in Slots, Replace(s) PROVE MoreOK'
    BY <1>1, <1>3 DEF Replace, MoreOK, Idle
  <1>4. ASSUME NEW s \in Slots, Fail(s) PROVE MoreOK'
    BY <1>1, <1>4 DEF Fail, MoreOK, Idle
  <1>5. CASE AppendRoots
    BY <1>1, <1>5 DEF AppendRoots, MoreOK, Idle
  <1>6. CASE Report
    BY <1>1, <1>6 DEF Report, client, MoreOK, Idle
  <1>7. CASE Other \/ Notice \/ Submit \/ Refuse
    <2>1. req'["more"] = req["more"] /\ tab' = tab
      BY <1>1, <1>7 DEF Other, Notice, Submit, Refuse, Go, client
    <2>. QED  BY <2>1 DEF MoreOK
  <1>8. CASE Expire \/ ShowReplies \/ AppendReplies \/ FailReplies \/ Type \/ UNCHANGED vars
    <2>1. req' = req /\ tab' = tab
      BY <1>8 DEF Expire, ShowReplies, AppendReplies, FailReplies, Type, vars, client
    <2>. QED  BY <2>1 DEF MoreOK
  <1>. QED  BY <1>2, <1>3, <1>4, <1>5, <1>6, <1>7, <1>8 DEF Next

\* A section that is not the table's is owed to a writer about to forget it, or late.
LEMMA SectionStep == TypeInv /\ MoreOK /\ SectionIsCurrent /\ [Next]_vars => SectionIsCurrent'
  <1>. SUFFICES ASSUME TypeInv, MoreOK, SectionIsCurrent, [Next]_vars PROVE SectionIsCurrent'
    OBVIOUS
  <1>1. req \in [Slots -> Requests] /\ "more" \in Slots
    BY DEF TypeInv, TypeOK, Requests, Slots
  <1>2. ASSUME UNCHANGED <<roots, section, late>>,
               \A s \in Slots : req[s].step = "forget" => req'[s].step = "forget"
        PROVE  SectionIsCurrent'
    BY <1>2 DEF SectionIsCurrent, At
  <1>3. ASSUME NEW s \in Slots, Serve(s) PROVE SectionIsCurrent'
    <2>1. CASE Write(s)
      <3>1. req'[s].step = "forget"
        BY <1>1, <2>1 DEF Write, Go, Requests
      <3>. QED  BY <3>1 DEF SectionIsCurrent, At
    <2>2. CASE Forget(s)
      BY <2>2 DEF Forget, SectionIsCurrent
    <2>3. CASE Put(s)
      BY <2>3 DEF Put, SectionIsCurrent
    <2>4. CASE Bump(s) \/ Get(s) \/ Rows(s) \/ Total(s)
      <3>1. UNCHANGED <<roots, section, late>> /\ req[s].step # "forget"
        BY <2>4 DEF Bump, Get, Rows, Total, server, At
      <3>2. \A t \in Slots : t # s => req'[t] = req[t]
        BY <1>1, <2>4 DEF Bump, Get, Rows, Total, Go
      <3>. QED  BY <1>2, <3>1, <3>2
    <2>. QED  BY <1>3, <2>1, <2>2, <2>3, <2>4 DEF Serve
  <1>4. ASSUME NEW s \in Slots, Replace(s) PROVE SectionIsCurrent'
    <2>1. UNCHANGED <<roots, section, late>> /\ req[s].step = "answer"
      BY <1>4 DEF Replace, server, At
    <2>2. \A t \in Slots : t # s /\ t # "more" => req'[t] = req[t]
      BY <1>1, <1>4 DEF Replace
    <2>. QED  BY <1>2, <2>1, <2>2 DEF MoreOK
  <1>5. ASSUME NEW s \in Slots, Fail(s) PROVE SectionIsCurrent'
    <2>1. /\ roots' = roots /\ section' = section
          /\ late' = (late \/ At(s, "forget"))
      BY <1>5 DEF Fail, server
    <2>2. \A t \in Slots : t # s => req'[t] = req[t]
      BY <1>1, <1>5 DEF Fail
    <2>. QED  BY <2>1, <2>2 DEF SectionIsCurrent, At
  <1>6. CASE Expire
    BY <1>6 DEF Expire, SectionIsCurrent
  <1>7. CASE AppendRoots \/ Report
    <2>1. UNCHANGED <<roots, section, late>>
      BY <1>7 DEF AppendRoots, Report, server
    <2>2. \A t \in Slots : t # "more" => req'[t] = req[t]
      BY <1>1, <1>7 DEF AppendRoots, Report
    <2>. QED  BY <1>2, <2>1, <2>2 DEF MoreOK
  <1>8. CASE Other \/ Notice \/ Submit \/ Refuse
    <2>1. UNCHANGED <<roots, section, late>>
      BY <1>8 DEF Other, Notice, Submit, Refuse, server
    <2>2. \A s \in Slots : req[s].step = "forget" => req'[s].step = "forget"
      BY <1>1, <1>8 DEF Other, Notice, Submit, Refuse, Go, At, Requests
    <2>. QED  BY <1>2, <2>1, <2>2
  <1>9. CASE ShowReplies \/ AppendReplies \/ FailReplies \/ Type \/ UNCHANGED vars
    <2>1. UNCHANGED <<roots, section, late, req>>
      BY <1>9 DEF ShowReplies, AppendReplies, FailReplies, Type, vars, server
    <2>. QED  BY <1>2, <2>1
  <1>. QED  BY <1>3, <1>4, <1>5, <1>6, <1>7, <1>8, <1>9 DEF Next

\* The cached section is the list of the table, but for the two races named.
THEOREM SectionHolds == Spec => []SectionIsCurrent
  <1>1. Init => SectionIsCurrent
    BY DEF Init, SectionIsCurrent
  <1>. QED  BY <1>1, TypeInit, TypeStep, MoreInit, MoreStep, SectionStep, PTL DEF Spec

-----------------------------------------------------------------------------
(* What the tab shows *)

\* The tab asks for no page beyond its list.
Prefix == ShowsPrefix /\ (~tab.torn => tab.offset <= Len(tab.list))

\* A block shows the beginning of its list.
LEMMA BlockPrefix ==
    ASSUME NEW p, p.list \in Lists, p.total \in 0..Youngest, tab' = Block(p)
    PROVE  Prefix'
  <1>1. p.list \in Seq(Roots) /\ 0 \in 0..Len(p.list)
    BY ListsAreSequences
  <1>. DEFINE page == Page(p.list, 0)
  <1>2. Len(page) <= Len(p.list) /\ Len(page) \in Nat
    BY <1>1, PageType
  <1>3. page = SubSeq(p.list, 1, Len(page))
    BY <1>1, FirstPage
  <1>4. tab' = [shown |-> page, offset |-> Len(page), more |-> p.total > Len(page),
                list |-> p.list, torn |-> p.total # Len(p.list)]
    BY DEF Block
  <1>5. p.total \in Nat /\ Len(p.list) \in Nat
    BY <1>1 DEF Youngest
  <1>. HIDE DEF page
  <1>6. /\ tab'.shown = page /\ tab'.offset = Len(page) /\ tab'.list = p.list
        /\ tab'.more = (p.total > Len(page)) /\ tab'.torn = (p.total # Len(p.list))
    BY <1>4
  <1>7. CASE p.total = Len(p.list)
    <2>1. tab'.more <=> tab'.offset < Len(tab'.list)
      BY <1>2, <1>5, <1>6, <1>7
    <2>2. tab'.offset <= Len(tab'.list)
      BY <1>2, <1>6
    <2>3. tab'.shown = SubSeq(tab'.list, 1, tab'.offset)
      BY <1>3, <1>6
    <2>. QED  BY <2>1, <2>2, <2>3 DEF Prefix, ShowsPrefix
  <1>8. CASE p.total # Len(p.list)
    <2>1. tab'.torn
      BY <1>6, <1>8
    <2>. QED  BY <2>1 DEF Prefix, ShowsPrefix
  <1>. QED  BY <1>7, <1>8

\* A page that was asked for where the tab ends, and read from its list, goes on there.
LEMMA AppendPrefix == TypeInv /\ MoreOK /\ Prefix /\ AppendRoots => Prefix'
  <1>. SUFFICES ASSUME TypeInv, MoreOK, Prefix, AppendRoots, ~tab'.torn
                PROVE  /\ tab'.shown = SubSeq(tab'.list, 1, tab'.offset)
                       /\ tab'.more <=> tab'.offset < Len(tab'.list)
                       /\ tab'.offset <= Len(tab'.list)
    BY DEF Prefix, ShowsPrefix
  <1>. DEFINE r == req["more"]
              page == Page(r.list, r.offset)
              more == r.total > r.offset + Len(page)
              torn == tab.torn \/ r.list # tab.list \/ r.total # Len(r.list)
  <1>1. tab' = [tab EXCEPT !.shown = tab.shown \o page, !.offset = r.offset + Len(page),
                           !.more = more, !.torn = torn]
    BY DEF AppendRoots, AppendRootsChunk
  <1>2. tab \in Tabs /\ r \in Requests /\ r.offset = tab.offset
    BY DEF TypeInv, TypeOK, Tabs, Requests, Slots, AppendRoots, At, MoreOK
  <1>3. /\ tab'.shown = tab.shown \o page /\ tab'.offset = r.offset + Len(page)
        /\ tab'.more = more /\ tab'.torn = torn /\ tab'.list = tab.list
    <2>. HIDE DEF r, page, more, torn
    <2>. QED  BY <1>1, <1>2 DEF Tabs
  <1>4. ~tab.torn /\ r.list = tab.list /\ r.total = Len(tab.list)
    BY <1>3
  <1>5. tab.list \in Seq(Roots) /\ r.offset \in 0..Len(tab.list)
    <2>1. tab.list \in Lists /\ tab.offset \in Nat
      BY <1>2 DEF Tabs
    <2>2. tab.list \in Seq(Roots)
      BY <2>1, ListsAreSequences
    <2>3. tab.offset <= Len(tab.list)
      BY <1>4 DEF Prefix
    <2>. QED  BY <1>2, <2>1, <2>2, <2>3
  <1>6. tab.shown = SubSeq(tab.list, 1, r.offset)
    BY <1>2, <1>4 DEF Prefix, ShowsPrefix
  <1>7. tab.shown \o page = SubSeq(tab.list, 1, r.offset + Len(page))
    BY <1>4, <1>5, <1>6, PageExtends
  <1>8. r.offset + Len(page) <= Len(tab.list) /\ Len(page) \in Nat
    BY <1>4, <1>5, PageType
  <1>9. more <=> r.offset + Len(page) < Len(tab.list)
    <2>. HIDE DEF r, page
    <2>. QED  BY <1>4, <1>5, <1>8
  <1>. HIDE DEF r, page, more, torn
  <1>. QED  BY <1>3, <1>7, <1>8, <1>9

\* Nothing else touches the tab.
LEMMA PrefixStep == TypeInv /\ MoreOK /\ Prefix /\ [Next]_vars => Prefix'
  <1>. SUFFICES ASSUME TypeInv, MoreOK, Prefix, [Next]_vars PROVE Prefix'
    OBVIOUS
  <1>1. CASE tab' = tab
    BY <1>1 DEF Prefix, ShowsPrefix
  <1>2. ASSUME NEW s \in Slots, Replace(s) PROVE Prefix'
    <2>1. req[s] \in Requests
      BY DEF TypeInv, TypeOK, Requests
    <2>2. req[s].list \in Lists /\ req[s].total \in 0..Youngest /\ tab' = Block(req[s])
      BY <1>2, <2>1 DEF Requests, Replace
    <2>. QED  BY <2>2, BlockPrefix
  <1>3. CASE AppendRoots
    BY <1>3, AppendPrefix
  <1>4. ASSUME NEW s \in Slots, Serve(s) \/ Fail(s) PROVE tab' = tab
    BY <1>4 DEF Serve, Write, Forget, Bump, Get, Rows, Total, Put, Fail, client
  <1>5. ASSUME Expire \/ Other \/ Notice \/ Report \/ ShowReplies \/ AppendReplies
               \/ FailReplies \/ Type \/ Submit \/ Refuse \/ UNCHANGED vars
        PROVE  tab' = tab
    BY <1>5 DEF Expire, Other, Notice, Report, ShowReplies, AppendReplies, FailReplies, Type,
                Submit, Refuse, vars, client
  <1>. QED  BY <1>1, <1>2, <1>3, <1>4, <1>5 DEF Next

\* For lists and pages of any size the tab shows the first roots of one list, each
\* once, and asks for more exactly while some are left, unless the list was torn.
THEOREM PrefixIsShown == Spec => []ShowsPrefix
  <1>1. Init => Prefix
    <2>. SUFFICES ASSUME Init PROVE Prefix
      OBVIOUS
    <2>. DEFINE p == [list |-> roots, total |-> Start]
    <2>1. roots \in Lists /\ Start \in 0..Youngest
      BY TypeInit DEF TypeInv, TypeOK, Youngest
    <2>2. roots \in Seq(Roots) /\ Len(roots) = Start
      <3>1. Len(roots) = Start
        BY DEF Init
      <3>. QED  BY <2>1, <3>1, ListsAreSequences
    <2>. DEFINE page == Page(roots, 0)
    <2>3. page \in Seq(Roots) /\ Len(page) <= Start
      BY <2>2, PageType
    <2>4. page = SubSeq(roots, 1, Len(page))
      BY <2>2, FirstPage
    <2>5. tab = [shown |-> page, offset |-> Len(page), more |-> Start > Len(page),
                 list |-> roots, torn |-> Start # Len(roots)]
      BY DEF Init, Block
    <2>. HIDE DEF page
    <2>. QED  BY <2>2, <2>3, <2>4, <2>5 DEF Prefix, ShowsPrefix
  <1>2. Prefix => ShowsPrefix
    BY DEF Prefix
  <1>. QED  BY <1>1, <1>2, TypeInit, TypeStep, MoreInit, MoreStep, PrefixStep, PTL DEF Spec

-----------------------------------------------------------------------------
(* Replies and words *)

\* A thread that can be opened lists nothing, and no two fetches are under way.
ThreadOK ==
    /\ thread.handlers = 1
    /\ thread.listed + thread.fetches <= 1
    /\ thread.button = "on" => thread.listed = 0 /\ thread.fetches = 0
    /\ thread.button = "off" => thread.listed = 0

\* Every step keeps what is known of the thread.
LEMMA ThreadStep == TypeInv /\ ThreadOK /\ [Next]_vars => ThreadOK'
  <1>. SUFFICES ASSUME TypeInv, ThreadOK, [Next]_vars PROVE ThreadOK'
    OBVIOUS
  <1>1. thread \in Threads
    BY DEF TypeInv, TypeOK, Threads
  <1>2. CASE thread' = thread
    BY <1>2 DEF ThreadOK
  <1>3. ASSUME NEW s \in Slots, Replace(s) PROVE ThreadOK'
    BY <1>3 DEF Replace, Folded, ThreadOK
  <1>4. CASE AppendRoots
    <2>1. thread' = thread
      BY <1>1, <1>4 DEF AppendRoots, InitThreadReplies, ThreadOK, Threads
    <2>. QED  BY <2>1, <1>2
  <1>5. CASE ShowReplies
    BY <1>1, <1>5 DEF ShowReplies, ThreadOK, Threads
  <1>6. CASE AppendReplies
    BY <1>1, <1>6 DEF AppendReplies, ThreadOK, Threads
  <1>7. CASE FailReplies
    BY <1>1, <1>7 DEF FailReplies, ThreadOK, Threads
  <1>8. ASSUME NEW s \in Slots, Serve(s) \/ Fail(s) PROVE thread' = thread
    BY <1>8 DEF Serve, Write, Forget, Bump, Get, Rows, Total, Put, Fail, client
  <1>9. ASSUME Expire \/ Other \/ Notice \/ Report \/ Type \/ Submit \/ Refuse \/ UNCHANGED vars
        PROVE  thread' = thread
    BY <1>9 DEF Expire, Other, Notice, Report, Type, Submit, Refuse, vars, client
  <1>. QED  BY <1>2, <1>3, <1>4, <1>5, <1>6, <1>7, <1>8, <1>9 DEF Next

\* A thread lists its replies once, whatever is appended, failed and fetched again.
THEOREM RepliesAreListedOnce == Spec => []RepliesListedOnce
  <1>1. Init => ThreadOK
    BY DEF Init, Folded, ThreadOK
  <1>2. TypeInv /\ ThreadOK => RepliesListedOnce
    BY DEF TypeInv, TypeOK, ThreadOK, RepliesListedOnce
  <1>. QED  BY <1>1, <1>2, TypeInit, TypeStep, ThreadStep, PTL DEF Spec

\* While no answer was lost, words are written by the one request the form waits for.
WordsOK ==
    /\ words.busy => words.typed /\ req["post"].step # "idle"
    /\ ~words.lost => words.posted <= 1
    /\ ~words.lost /\ words.posted = 1 => words.busy /\ req["post"].step # "write"

\* Every step keeps what is known of the words.
LEMMA WordsStep == TypeInv /\ MoreOK /\ WordsOK /\ [Next]_vars => WordsOK'
  <1>. SUFFICES ASSUME TypeInv, MoreOK, WordsOK, [Next]_vars PROVE WordsOK'
    OBVIOUS
  <1>1. req \in [Slots -> Requests] /\ words \in Words /\ "post" \in Slots
    BY DEF TypeInv, TypeOK, Requests, Words, Slots
  <1>2. CASE UNCHANGED <<words, req>> \/ (words' = words /\ req'["post"] = req["post"])
    BY <1>2 DEF WordsOK
  <1>3. ASSUME NEW s \in Slots, Serve(s) PROVE WordsOK'
    <2>1. CASE s # "post"
      <3>1. words' = words /\ req'["post"] = req["post"]
        BY <1>1, <1>3, <2>1 DEF Serve, Write, Forget, Bump, Get, Rows, Total, Put, Go, client
      <3>. QED  BY <1>2, <3>1
    <2>2. CASE s = "post" /\ Write(s)
      <3>1. req'["post"].step = "forget" /\ req["post"].step = "write"
        BY <1>1, <2>2 DEF Write, Go, At, Requests
      <3>2. words' = IF words.busy THEN [words EXCEPT !.posted = words.posted + 1] ELSE words
        BY <2>2 DEF Write
      <3>. QED  BY <1>1, <3>1, <3>2 DEF WordsOK, Words
    <2>3. CASE s = "post" /\ (Forget(s) \/ Bump(s) \/ Get(s) \/ Rows(s) \/ Total(s) \/ Put(s))
      <3>1. words' = words
        BY <2>3 DEF Forget, Bump, Get, Rows, Total, Put, client
      <3>2. req'["post"].step \notin {"idle", "write"}
        <4>1. req["post"] \in Requests
          BY <1>1
        <4>2. CASE Forget(s) \/ Bump(s) \/ Put(s)
          BY <1>1, <2>3, <4>2 DEF Forget, Bump, Put, Go, Requests
        <4>3. CASE Get(s)
          <5>1. CASE section = None
            BY <1>1, <2>3, <4>1, <4>3, <5>1 DEF Get, Go, Requests
          <5>2. CASE section # None
            <6>1. req' = [req EXCEPT !["post"] =
                            [req["post"] EXCEPT !.step = "answer", !.list = section.list,
                                                !.total = section.total]]
              BY <2>3, <4>3, <5>2 DEF Get
            <6>. QED  BY <1>1, <4>1, <6>1 DEF Requests
          <5>. QED  BY <5>1, <5>2
        <4>4. CASE Rows(s)
          BY <1>1, <2>3, <4>1, <4>4 DEF Rows, Requests
        <4>5. CASE Total(s)
          <5>1. req' = [req EXCEPT !["post"] =
                          [req["post"] EXCEPT !.step = "put", !.total = Len(roots)]]
            BY <2>3, <4>5 DEF Total
          <5>. QED  BY <1>1, <4>1, <5>1 DEF Requests
        <4>. QED  BY <2>3, <4>2, <4>3, <4>4, <4>5
      <3>. QED  BY <3>1, <3>2 DEF WordsOK
    <2>. QED  BY <1>3, <2>1, <2>2, <2>3 DEF Serve
  <1>4. ASSUME NEW s \in Slots, Replace(s) PROVE WordsOK'
    BY <1>4 DEF Replace, Blank, WordsOK
  <1>5. ASSUME NEW s \in Slots, Fail(s) PROVE WordsOK'
    <2>1. CASE s = "post" /\ words.busy
      BY <1>1, <1>5, <2>1 DEF Fail, Idle, WordsOK, Words
    <2>2. CASE s = "post" /\ ~words.busy
      <3>1. words' = words
        BY <1>5, <2>2 DEF Fail
      <3>. QED  BY <2>2, <3>1 DEF WordsOK
    <2>3. CASE s # "post"
      <3>1. words' = words /\ req'["post"] = req["post"]
        BY <1>1, <1>5, <2>3 DEF Fail
      <3>. QED  BY <1>2, <3>1
    <2>. QED  BY <2>1, <2>2, <2>3
  <1>6. CASE Type
    BY <1>1, <1>6 DEF Type, Blank, WordsOK, Words
  <1>7. CASE Submit
    <2>1. req'["post"].step = "write" /\ req["post"].step = "idle"
      BY <1>1, <1>7 DEF Submit, Go, At, Requests
    <2>. QED  BY <1>1, <1>7, <2>1 DEF Submit, WordsOK, Words
  <1>8. CASE Refuse
    <2>1. req["post"].step = "write" /\ words' = [words EXCEPT !.busy = FALSE]
      BY <1>8 DEF Refuse, At
    <2>. QED  BY <1>1, <2>1 DEF WordsOK, Words
  <1>9. CASE AppendRoots \/ Report \/ Other \/ Notice
    <2>1. words' = words /\ req'["post"] = req["post"]
      BY <1>1, <1>9 DEF AppendRoots, Report, Other, Notice, Go, client
    <2>. QED  BY <1>2, <2>1
  <1>10. CASE Expire \/ ShowReplies \/ AppendReplies \/ FailReplies \/ UNCHANGED vars
    <2>1. UNCHANGED <<words, req>>
      BY <1>10 DEF Expire, ShowReplies, AppendReplies, FailReplies, vars, client
    <2>. QED  BY <1>2, <2>1
  <1>. QED  BY <1>3, <1>4, <1>5, <1>6, <1>7, <1>8, <1>9, <1>10 DEF Next

\* What a reader typed is written twice only when the answer to it was lost.
THEOREM WordsAreWrittenOnce == Spec => []PostedTwiceOnlyAfterLoss
  <1>1. Init => WordsOK
    BY DEF Init, Blank, WordsOK
  <1>2. TypeInv /\ WordsOK => PostedTwiceOnlyAfterLoss
    BY DEF TypeInv, TypeOK, WordsOK, PostedTwiceOnlyAfterLoss
  <1>. QED  BY <1>1, <1>2, TypeInit, TypeStep, MoreInit, MoreStep, WordsStep, PTL DEF Spec
=============================================================================
