------------------------------- MODULE Comments -------------------------------
(***************************************************************************)
(* The comments of one post: the list in the table, the section cached in  *)
(* Redis (first page and total), and a tab which shows the section, loads  *)
(* further pages as its reader scrolls, opens the replies of a thread and  *)
(* posts what the reader types.                                            *)
(*                                                                         *)
(* A page of roots is asked for by offset, and both it and the section are *)
(* read by two statements, the rows and then the total.  An answer to a    *)
(* comment or to the stream replaces the whole block of the tab.           *)
(***************************************************************************)
EXTENDS Naturals, Sequences, SequencesExt

CONSTANTS
    None,       \* no cached section
    PageSize,   \* ROOT_PAGE_SIZE
    Start,      \* roots when the tab is opened
    MaxWrites,  \* bound: roots written, hidden or deleted while it is open
    MaxFaults   \* bound: requests that die on their way

ASSUME SizesAssumption == PageSize \in Nat \ {0} /\ Start \in Nat
ASSUME BoundsAssumption == MaxWrites \in Nat /\ MaxFaults \in Nat

Youngest == Start + MaxWrites
Roots == 1..Youngest
Lists == UNION {[1..n -> Roots] : n \in 0..Youngest}
Payloads == [list: Lists, total: 0..Youngest]

ASSUME NoneAssumption == None \notin Payloads

\* A request of the tab (a comment, a refresh, a further page) or another's write.
Slots == {"post", "refresh", "more", "other"}
Steps == {"idle", "write", "forget", "bump", "get", "rows", "total", "put", "answer"}

VARIABLES
    roots,    \* visible roots, newest first
    created,  \* the youngest root; roots are numbered as they are written
    writes,   \* writes to come
    section,  \* payload in Redis, or None
    news,     \* bumps of the engagement version the stream has not reported
    req,      \* per slot [step, offset, list, total]
    tab,      \* what the tab shows and knows
    thread,   \* the replies of the first thread shown
    words,    \* what is typed in the comment form
    late,     \* observer: the section was put late, or its writer died
    faults

\* getVisibleRootCommentsForPost: at most a page of the list from an offset on
Page(list, offset) ==
    SubSeq(list, offset + 1,
           IF offset + PageSize < Len(list) THEN offset + PageSize ELSE Len(list))

\* list: the roots its rows were read from; torn: its total or a page of it was
\* read from others.
Block(payload) ==
    [shown |-> Page(payload.list, 0),
     offset |-> Len(Page(payload.list, 0)),
     more |-> payload.total > Len(Page(payload.list, 0)),
     list |-> payload.list, torn |-> payload.total # Len(payload.list)]

Idle == [step |-> "idle", offset |-> 0, list |-> <<>>, total |-> 0]

\* posted: how often these words were written; lost: an answer did not come.
Blank == [typed |-> FALSE, busy |-> FALSE, posted |-> 0, lost |-> FALSE]

\* A thread as rendered, its button bound by initThreadReplies.
Folded == [button |-> "on", handlers |-> 1, fetches |-> 0, listed |-> 0]

server == <<roots, created, writes, section, news>>
client == <<tab, thread, words>>
vars == <<server, req, client, late, faults>>

At(s, step) == req[s].step = step
Go(s, step) == req' = [req EXCEPT ![s].step = step]

-----------------------------------------------------------------------------
(* The server *)

\* CommentService::create, hide and delete
Write(s) ==
    /\ At(s, "write")
    /\ writes > 0 /\ writes' = writes - 1
    /\ \/ created' = created + 1 /\ roots' = <<created + 1>> \o roots
       \/ /\ s = "other"
          /\ \E i \in DOMAIN roots : roots' = RemoveAt(roots, i)
          /\ UNCHANGED created
    /\ words' = IF s = "post" /\ words.busy THEN [words EXCEPT !.posted = @ + 1] ELSE words
    /\ Go(s, "forget")
    /\ UNCHANGED <<section, news, tab, thread, late, faults>>

\* Mutant: only the version is bumped.
ForgetMutant(s) ==
    /\ At(s, "forget")
    /\ Go(s, "bump")
    /\ UNCHANGED <<server, client, late, faults>>

Forget(s) ==
    /\ At(s, "forget")
    /\ section' = None /\ late' = FALSE
    /\ Go(s, "bump")
    /\ UNCHANGED <<roots, created, writes, news, client, faults>>

Bump(s) ==
    /\ At(s, "bump")
    /\ news' = news + 1
    /\ Go(s, IF s = "other" THEN "idle" ELSE "get")
    /\ UNCHANGED <<roots, created, writes, section, client, late, faults>>

\* resolveSectionPayload
Get(s) ==
    /\ At(s, "get")
    /\ IF section = None THEN Go(s, "rows")
       ELSE req' = [req EXCEPT ![s] = [@ EXCEPT !.step = "answer", !.list = section.list,
                                                !.total = section.total]]
    /\ UNCHANGED <<server, client, late, faults>>

\* getVisibleRootCommentsForPost
Rows(s) ==
    /\ At(s, "rows")
    /\ req' = [req EXCEPT ![s] = [@ EXCEPT !.step = "total", !.list = roots]]
    /\ UNCHANGED <<server, client, late, faults>>

\* countVisibleRootsForPost, or the stats of the section
Total(s) ==
    /\ At(s, "total")
    /\ req' = [req EXCEPT ![s] = [@ EXCEPT !.step = IF s = "more" THEN "answer" ELSE "put",
                                           !.total = Len(roots)]]
    /\ UNCHANGED <<server, client, late, faults>>

Put(s) ==
    /\ At(s, "put")
    /\ section' = [list |-> req[s].list, total |-> req[s].total]
    /\ late' = (req[s].list # roots \/ req[s].total # Len(roots))
    /\ Go(s, "answer")
    /\ UNCHANGED <<roots, created, writes, news, client, faults>>

\* SECTION_CACHE_TTL_SECONDS
Expire ==
    /\ section # None
    /\ section' = None /\ late' = FALSE
    /\ UNCHANGED <<roots, created, writes, news, req, client, faults>>

\* Another reader posts a comment, or a moderator hides one.
Other ==
    /\ At("other", "idle") /\ writes > 0
    /\ Go("other", "write")
    /\ UNCHANGED <<server, client, late, faults>>

-----------------------------------------------------------------------------
(* The tab *)

\* Mutant: what is typed is carried over to the new block.
ReplaceMutant(s) ==
    /\ s \in {"post", "refresh"} /\ At(s, "answer")
    /\ tab' = Block(req[s]) /\ thread' = Folded
    /\ words' = [words EXCEPT !.busy = FALSE]
    /\ req' = [req EXCEPT ![s] = Idle, !["more"] = Idle]
    /\ UNCHANGED <<server, late, faults>>

\* Mutant: a page asked for by the block before is appended to this one.
ReplaceKeepingMutant(s) ==
    /\ s \in {"post", "refresh"} /\ At(s, "answer")
    /\ tab' = Block(req[s]) /\ thread' = Folded /\ words' = Blank
    /\ req' = [req EXCEPT ![s] = Idle]
    /\ UNCHANGED <<server, late, faults>>

\* replaceEngagementContent: the block, its form and its handlers are new; a page
\* still on its way belongs to nodes that are gone.
Replace(s) ==
    /\ s \in {"post", "refresh"} /\ At(s, "answer")
    /\ tab' = Block(req[s]) /\ thread' = Folded /\ words' = Blank
    /\ req' = [req EXCEPT ![s] = Idle, !["more"] = Idle]
    /\ UNCHANGED <<server, late, faults>>

\* engagement.updated: a version the block has, or the tab's own, is ignored.
Notice ==
    /\ news > 0 /\ \E n \in 0..(news - 1) : news' = n
    /\ \/ At("refresh", "idle") /\ Go("refresh", "get")
       \/ UNCHANGED req
    /\ UNCHANGED <<roots, created, writes, section, client, late, faults>>

\* Mutant: the observer is disconnected by the first page.
ReportMutant ==
    /\ tab.more /\ At("more", "idle") /\ tab.offset = PageSize
    /\ req' = [req EXCEPT !["more"] = [Idle EXCEPT !.step = "rows", !.offset = tab.offset]]
    /\ UNCHANGED <<server, client, late, faults>>

\* The sentinel has come within 200px; what the observer tells otherwise, or while a
\* page is loading, changes nothing.
Report ==
    /\ tab.more /\ At("more", "idle")
    /\ req' = [req EXCEPT !["more"] = [Idle EXCEPT !.step = "rows", !.offset = tab.offset]]
    /\ UNCHANGED <<server, client, late, faults>>

\* Mutant: the handler is added again to a button that has one.
InitThreadRepliesMutant == [thread EXCEPT !.handlers = @ + 1]

InitThreadReplies == [thread EXCEPT !.handlers = IF @ = 0 THEN 1 ELSE @]

\* A page goes in before the sentinel, after what is there.
AppendRootsChunk(shown, page) == shown \o page

\* loadMore of the roots; every thread shown is initialised again.
AppendRoots ==
    /\ At("more", "answer")
    /\ LET r == req["more"]
           page == Page(r.list, r.offset)
       IN  tab' = [tab EXCEPT !.shown = AppendRootsChunk(@, page), !.offset = r.offset + Len(page),
                              !.more = r.total > r.offset + Len(page),
                              !.torn = @ \/ r.list # tab.list \/ r.total # Len(r.list)]
    /\ thread' = IF thread.button = "gone" THEN thread ELSE InitThreadReplies
    /\ req' = [req EXCEPT !["more"] = Idle]
    /\ UNCHANGED <<server, words, late, faults>>

\* The button of the thread: every handler it has fetches the replies.
ShowReplies ==
    /\ thread.button = "on"
    /\ thread' = [thread EXCEPT !.button = "off", !.fetches = @ + thread.handlers]
    /\ UNCHANGED <<server, req, tab, words, late, faults>>

\* The sentinel of the replies is not displayed, so one page is all there is.
AppendReplies ==
    /\ thread.fetches > 0
    /\ thread' = [thread EXCEPT !.button = "gone", !.fetches = @ - 1, !.listed = @ + 1]
    /\ UNCHANGED <<server, req, tab, words, late, faults>>

Type ==
    /\ ~words.typed /\ writes > 0
    /\ words' = [Blank EXCEPT !.typed = TRUE]
    /\ UNCHANGED <<server, req, tab, thread, late, faults>>

\* submitEngagementForm; the button is disabled until there is an answer.
Submit ==
    /\ words.typed /\ ~words.busy /\ At("post", "idle")
    /\ words' = [words EXCEPT !.busy = TRUE]
    /\ Go("post", "write")
    /\ UNCHANGED <<server, tab, thread, late, faults>>

\* An InvalidCommentException, a failed validation or the rate limit.
Refuse ==
    /\ At("post", "write")
    /\ words' = [words EXCEPT !.busy = FALSE]
    /\ req' = [req EXCEPT !["post"] = Idle]
    /\ UNCHANGED <<server, tab, thread, late, faults>>

-----------------------------------------------------------------------------

\* A request dies on the server, or its answer on the way to the tab.
Fail(s) ==
    /\ req[s].step # "idle" /\ faults < MaxFaults
    /\ faults' = faults + 1
    /\ late' = (late \/ At(s, "forget"))
    /\ words' = IF s = "post" /\ words.busy
                THEN [words EXCEPT !.busy = FALSE, !.lost = TRUE] ELSE words
    /\ req' = [req EXCEPT ![s] = Idle]
    /\ UNCHANGED <<server, tab, thread>>

FailReplies ==
    /\ thread.fetches > 0 /\ faults < MaxFaults
    /\ faults' = faults + 1
    /\ thread' = [thread EXCEPT !.fetches = @ - 1, !.button = IF @ = "gone" THEN @ ELSE "on"]
    /\ UNCHANGED <<server, req, tab, words, late>>

Init ==
    /\ roots = [i \in 1..Start |-> Start + 1 - i]
    /\ created = Start /\ writes = MaxWrites /\ section = None /\ news = 0
    /\ req = [s \in Slots |-> Idle]
    /\ tab = Block([list |-> roots, total |-> Start])
    /\ thread = Folded /\ words = Blank /\ late = FALSE /\ faults = 0

Serve(s) ==
    Write(s) \/ Forget(s) \/ Bump(s) \/ Get(s) \/ Rows(s) \/ Total(s) \/ Put(s)

Next ==
    \/ \E s \in Slots : Serve(s) \/ Replace(s) \/ Fail(s)
    \/ AppendRoots \/ Expire \/ Other \/ Notice \/ Report
    \/ ShowReplies \/ AppendReplies \/ FailReplies \/ Type \/ Submit \/ Refuse

Spec == Init /\ [][Next]_vars

\* Requests are served, answers arrive and entries expire.
Fairness ==
    /\ \A s \in Slots : WF_vars(Serve(s)) /\ WF_vars(Replace(s))
    /\ WF_vars(AppendRoots) /\ WF_vars(Expire)

FairSpec == Spec /\ Fairness

-----------------------------------------------------------------------------
(* Properties *)

TypeOK ==
    /\ roots \in Lists /\ created \in Start..Youngest /\ writes \in 0..MaxWrites
    /\ section \in Payloads \cup {None} /\ news \in Nat
    /\ req \in [Slots -> [step: Steps, offset: Nat, list: Lists, total: 0..Youngest]]
    /\ tab \in [shown: Seq(Roots), offset: Nat, more: BOOLEAN, list: Lists, torn: BOOLEAN]
    /\ thread \in [button: {"on", "off", "gone"}, handlers: Nat, fetches: Nat, listed: Nat]
    /\ words \in [typed: BOOLEAN, busy: BOOLEAN, posted: Nat, lost: BOOLEAN]
    /\ late \in BOOLEAN /\ faults \in 0..MaxFaults

\* However pages, refreshes and answers to comments come in, the tab shows the first
\* roots of one list, each once, and asks for more exactly while some are left: only
\* a page, or a total, read after the list changed makes it repeat or miss a root.
ShowsPrefix ==
    ~tab.torn => /\ tab.shown = SubSeq(tab.list, 1, tab.offset)
                 /\ tab.more <=> tab.offset < Len(tab.list)

\* The cached section is the list of the table, until its writer forgets it, unless
\* a reader put what it had read before a write, or the writer died.
SectionIsCurrent ==
    section # None /\ section.list # roots => late \/ \E s \in Slots : At(s, "forget")

\* The words in the form are written twice only if an answer was lost.
PostedTwiceOnlyAfterLoss == words.posted > 1 => words.lost

\* A thread lists its replies once, however often it is initialised and fetched.
RepliesListedOnce == thread.listed <= 1

\* A reader who goes on scrolling comes to the end of the list, whatever is written,
\* refreshed or lost meanwhile.
EndIsReached == WF_vars(Report) => []<>~tab.more
=============================================================================
