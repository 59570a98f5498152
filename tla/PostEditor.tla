------------------------------ MODULE PostEditor ------------------------------
(***************************************************************************)
(* The edit page of one post: its form, the TinyMCE editor or the raw HTML *)
(* textarea behind the body field, and the Save button, which is enabled   *)
(* by comparing the fields with a baseline taken once the body is readable.*)
(*                                                                         *)
(* Every handler runs to its end; between handlers lie the load of the     *)
(* editor, the timers that wait for it, a frame before the baseline is     *)
(* taken, and the answer to a submission.  A field is "kept" while it is   *)
(* what the server stores.                                                 *)
(***************************************************************************)
EXTENDS Naturals

CONSTANTS
    None,         \* no baseline yet; nothing sent
    MaxAttempts   \* times the form looks for the editor before it gives up

ASSUME AttemptsAssumption == MaxAttempts \in Nat \ {0}

Modes == {"simple", "pro"}
Texts == {"kept", "edited", "empty"}
Values == {"kept", "changed"}

\* clean: the HTML is as TinyMCE writes it, its code blocks decorated.
Content == [text: Texts, clean: BOOLEAN]
Nothing == [text |-> "empty", clean |-> TRUE]
Cleaned(c) == [c EXCEPT !.clean = TRUE]

\* title stands for every field the form tracks beside body and mode.
Form == [title: Values, visibility: Values, mode: Modes]
Editor == [step: {"absent", "starting", "loading", "ready"}, for: {"page", "switch"},
           content: Content, watched: BOOLEAN, told: BOOLEAN]
Snapshots == [title: Values, mode: Modes, body: Content]
Submissions == [kind: {"update", "preview"}, form: Form, body: Content]

ASSUME NoneAssumption == None \notin Snapshots /\ None \notin Submissions

VARIABLES
    page,        \* the edit page is "open" or "closed"
    stored,      \* editor mode the server stores
    form,        \* controls other than the body
    area,        \* the textarea
    editor,      \* tinymce.get('body')
    bound,       \* the mode switch has its handler
    baseline,    \* baselineState
    button,      \* the Save button is enabled
    submitting,  \* saveButton.dataset.submitting
    retries,     \* attempts of attachBodyChangeListener waiting for their timer
    frame,       \* captureBaselineWhenReady waits for an animation frame
    sent,        \* what has been submitted, until it is answered
    meant,       \* observer: the body as the user last saw or wrote it
    rebased,     \* observer: the baseline was taken over an unsaved change
    unheard      \* observer: the body changed since without telling the button

watch == <<baseline, retries, frame, rebased>>
save == <<button, unheard>>
vars == <<page, stored, form, area, editor, bound, save, submitting, watch, sent, meant>>

Absent == [step |-> "absent", for |-> "page", content |-> Nothing,
           watched |-> FALSE, told |-> FALSE]
Found == editor.step \in {"loading", "ready"}

\* readTextareaContent and readFieldValue('body'); an editor that has not
\* finished loading has no content to give.
Body(e, a) == IF e.step = "ready" THEN e.content ELSE IF e.step = "loading" THEN Nothing ELSE a
\* What is behind the field, whatever can be read of it.
Held == IF editor.step = "ready" THEN editor.content ELSE area

Snapshot == [title |-> form.title, mode |-> form.mode, body |-> Body(editor, area)]
HasDirtyFields(before, now) == now # before
HasChanges == baseline # None /\ HasDirtyFields(baseline, Snapshot)

\* What a submission would change, in the fields the button compares and in all.
TrackedChange ==
    Snapshot.title # "kept" \/ Snapshot.mode # stored \/ Snapshot.body.text # "kept"
Unsaved == TrackedChange \/ form.visibility # "kept"

\* Mutant: the button is left as it is.
UpdateSaveButtonMutant == UNCHANGED save

UpdateSaveButton ==
    IF submitting THEN UNCHANGED save
    ELSE button' = HasChanges' /\ unheard' = FALSE

SyncRichText == area' = Held

\* captureBaseline, where there is none
CaptureBaseline ==
    /\ baseline' = IF baseline = None THEN Snapshot ELSE baseline
    /\ rebased' = IF baseline = None THEN TrackedChange ELSE rebased
    /\ IF baseline = None THEN SyncRichText ELSE UNCHANGED area

-----------------------------------------------------------------------------
(* The page is loaded, the editor after it *)

\* The form with the values f and the body a; without TinyMCE, Absent stays.
Load(f, a) ==
    LET pro == f.mode = "pro"
    IN  /\ page' = "open" /\ form' = f /\ area' = a /\ meant' = a.text
        /\ editor' \in IF pro THEN {Absent} ELSE {Absent, [Absent EXCEPT !.step = "starting"]}
        /\ bound' = pro
        /\ baseline' = IF pro THEN [title |-> f.title, mode |-> f.mode, body |-> a] ELSE None
        /\ rebased' = (pro /\ (f.title # "kept" \/ f.mode # stored' \/ a.text # "kept"))
        /\ retries' = IF pro THEN {} ELSE {1}
        /\ button' = FALSE /\ unheard' = FALSE /\ submitting' = FALSE
        /\ frame' = FALSE /\ sent' = None

Open ==
    /\ page = "closed"
    /\ UNCHANGED stored
    /\ \E clean \in BOOLEAN :
          Load([title |-> "kept", visibility |-> "kept", mode |-> stored],
               [text |-> "kept", clean |-> clean])

\* tinymce.init has made the editor known
Register ==
    /\ editor.step = "starting"
    /\ editor' = [editor EXCEPT !.step = "loading"]
    /\ UNCHANGED <<page, stored, form, area, bound, save, submitting, watch, sent, meant>>

\* Mutant: only the switch goes on, the form is not told.
ReadyMutant ==
    /\ editor.step = "loading"
    /\ LET switch == editor.for = "switch"
       IN  /\ editor' = [editor EXCEPT !.step = "ready", !.content = Cleaned(area),
                                       !.watched = @ \/ switch]
           /\ frame' = (frame \/ switch)
           /\ baseline' = IF switch THEN None ELSE baseline
    /\ bound' = TRUE
    /\ UNCHANGED <<page, stored, form, area, save, submitting, retries, rebased, sent, meant>>

\* The editor is initialised: the load or the switch that waited for it goes on.
Ready ==
    /\ editor.step = "loading"
    /\ LET switch == editor.for = "switch"
       IN  /\ editor' = [editor EXCEPT !.step = "ready", !.content = Cleaned(area),
                                       !.watched = @ \/ switch]
           /\ frame' = (frame \/ editor.told \/ switch)
           /\ baseline' = IF switch THEN None ELSE baseline
    /\ bound' = TRUE
    /\ UNCHANGED <<page, stored, form, area, save, submitting, retries, rebased, sent, meant>>

\* attachBodyChangeListener, when its timer fires for the n-th time
Retry(n) ==
    /\ n \in retries
    /\ LET left == retries \ {n}
       IN  \/ /\ form.mode = "pro" \/ (~Found /\ n = MaxAttempts)
              /\ retries' = left
              /\ CaptureBaseline
              /\ UNCHANGED <<form, editor, frame>>
              /\ UpdateSaveButton
           \/ /\ form.mode = "simple" /\ ~Found /\ n < MaxAttempts
              /\ retries' = left \cup {n + 1}
              /\ UNCHANGED <<form, area, editor, baseline, frame, rebased, save>>
           \/ /\ form.mode = "simple" /\ Found
              /\ retries' = left
              /\ editor' = [editor EXCEPT !.watched = TRUE, !.told = @ \/ editor.step = "loading"]
              /\ frame' = (frame \/ editor.step = "ready")
              /\ UNCHANGED <<form, area, baseline, rebased, save>>
    /\ UNCHANGED <<page, stored, bound, submitting, sent, meant>>

\* captureBaselineWhenReady
Frame ==
    /\ frame
    /\ frame' = FALSE
    /\ CaptureBaseline
    /\ UNCHANGED <<page, stored, form, editor, bound, submitting, retries, sent, meant>>
    /\ UpdateSaveButton

-----------------------------------------------------------------------------
(* The user edits *)

ChangeField ==
    /\ page = "open"
    /\ \E field \in {"title", "visibility"}, value \in Values :
          form' = [form EXCEPT ![field] = value]
    /\ UNCHANGED <<page, stored, area, editor, bound, submitting, watch, sent, meant>>
    /\ UpdateSaveButton

\* The textarea is visible until the editor takes its place, and in pro mode.
EditBody ==
    /\ page = "open"
    /\ \E text \in {"kept", "edited"} :
          /\ meant' = text
          /\ \/ /\ editor.step = "ready"
                /\ editor' = [editor EXCEPT !.content.text = text]
                /\ UNCHANGED area
             \/ /\ editor.step \in {"absent", "starting"}
                /\ area' = [area EXCEPT !.text = text]
                /\ UNCHANGED editor
    /\ UNCHANGED <<page, stored, form, bound, submitting, watch, sent>>
    /\ IF editor.step = "ready" /\ ~editor.watched THEN UNCHANGED save ELSE UpdateSaveButton

\* Tab in the raw editor: the handler sets the value and no event tells the form.
Indent ==
    /\ page = "open" /\ form.mode = "pro" /\ bound /\ editor.step = "absent"
    /\ \E text \in {"kept", "edited"} : meant' = text /\ area' = [area EXCEPT !.text = text]
    /\ unheard' = TRUE
    /\ UNCHANGED <<page, stored, form, editor, bound, button, submitting, watch, sent>>

\* Mutant: the textarea keeps what it had before the editor.
SwitchMutant(mode) ==
    /\ page = "open" /\ bound /\ mode # form.mode
    /\ form' = [form EXCEPT !.mode = mode]
    /\ UNCHANGED <<page, stored, area, bound, submitting, retries, frame, sent, meant>>
    /\ editor' = IF mode = "pro" THEN Absent
                 ELSE [Absent EXCEPT !.step = "loading", !.for = "switch"]
    /\ baseline' = IF mode = "pro" THEN Snapshot' ELSE baseline
    /\ rebased' = IF mode = "pro" THEN TrackedChange' ELSE rebased
    /\ UpdateSaveButton

\* reinitEditor; an editor removed before it is ready resumes nothing.
Switch(mode) ==
    /\ page = "open" /\ bound /\ mode # form.mode
    /\ form' = [form EXCEPT !.mode = mode]
    /\ area' = Body(editor, area)
    /\ UNCHANGED <<page, stored, bound, submitting, retries, frame, sent, meant>>
    /\ editor' = IF mode = "pro" THEN Absent
                 ELSE [Absent EXCEPT !.step = "loading", !.for = "switch"]
    /\ baseline' = IF mode = "pro" THEN Snapshot' ELSE baseline
    /\ rebased' = IF mode = "pro" THEN TrackedChange' ELSE rebased
    /\ UpdateSaveButton

\* The same before the switch has its handler: only the radio button moves.
Choose(mode) ==
    /\ page = "open" /\ ~bound /\ mode # form.mode
    /\ form' = [form EXCEPT !.mode = mode]
    /\ UNCHANGED <<page, stored, area, editor, bound, submitting, watch, sent, meant>>
    /\ UpdateSaveButton

-----------------------------------------------------------------------------
(* Submission *)

\* Save or Preview, which opens in another tab and leaves this page.
Submit(kind) ==
    /\ page = "open" /\ (kind = "update" => button)
    /\ SyncRichText
    /\ IF HasChanges /\ ~submitting
       THEN /\ button' = FALSE /\ UNCHANGED unheard /\ submitting' = TRUE
            /\ sent' = [kind |-> kind, form |-> form, body |-> area']
       ELSE UNCHANGED <<save, submitting, sent>>
    /\ UNCHANGED <<page, stored, form, editor, bound, watch, meant>>

Awaited == sent # None /\ sent.kind = "update"

\* The post is saved and shown; the user may open it for editing again.
Accept ==
    /\ Awaited
    /\ page' = "closed" /\ stored' = sent.form.mode
    /\ form' = [title |-> "kept", visibility |-> "kept", mode |-> sent.form.mode]
    /\ area' = Nothing /\ meant' = "empty" /\ editor' = Absent /\ bound' = FALSE
    /\ baseline' = None /\ rebased' = FALSE /\ retries' = {} /\ frame' = FALSE
    /\ button' = FALSE /\ unheard' = FALSE /\ submitting' = FALSE /\ sent' = None

\* The page comes back with the input that was refused.
Reject ==
    /\ Awaited
    /\ UNCHANGED stored
    /\ Load(sent.form, sent.body)

\* No answer; the browser goes back to the page as it was.
Lose ==
    /\ Awaited
    /\ sent' = None
    /\ UNCHANGED <<page, stored, form, area, editor, bound, save, submitting, watch, meant>>

-----------------------------------------------------------------------------

Init ==
    /\ page = "closed" /\ stored \in Modes
    /\ form = [title |-> "kept", visibility |-> "kept", mode |-> stored]
    /\ area = Nothing /\ meant = "empty" /\ editor = Absent /\ bound = FALSE
    /\ baseline = None /\ rebased = FALSE /\ retries = {} /\ frame = FALSE
    /\ button = FALSE /\ unheard = FALSE /\ submitting = FALSE /\ sent = None

Edit == ChangeField \/ EditBody \/ Indent \/ \E mode \in Modes : Switch(mode) \/ Choose(mode)
Tick == \E n \in 1..MaxAttempts : Retry(n)

Next ==
    \/ Open \/ Register \/ Ready \/ Tick \/ Frame \/ Edit
    \/ \E kind \in {"update", "preview"} : Submit(kind)
    \/ Accept \/ Reject \/ Lose

Spec == Init /\ [][Next]_vars

\* The editor that was found loads, timers fire and frames are drawn.
Fairness == WF_vars(Register) /\ WF_vars(Ready) /\ WF_vars(Tick) /\ WF_vars(Frame)

FairSpec == Spec /\ Fairness

-----------------------------------------------------------------------------
(* Properties *)

TypeOK ==
    /\ page \in {"open", "closed"} /\ stored \in Modes
    /\ form \in Form /\ area \in Content /\ editor \in Editor
    /\ bound \in BOOLEAN /\ button \in BOOLEAN /\ submitting \in BOOLEAN
    /\ baseline \in Snapshots \cup {None}
    /\ retries \subseteq 1..MaxAttempts /\ frame \in BOOLEAN
    /\ sent \in Submissions \cup {None}
    /\ meant \in Texts /\ rebased \in BOOLEAN /\ unheard \in BOOLEAN

\* The page holds the text the user last wrote through every switch and load of
\* the editor; it is lost only by leaving an editor that is still loading.
Holds == page = "open" => Held.text = meant
TextLostOnlyByEarlySwitch ==
    [][ Holds /\ ~Holds' => editor.step = "loading" /\ form'.mode # form.mode ]_vars

\* What is submitted is the page as the user sees it, whichever editor is open.
SendsWhatIsShown ==
    [][ sent' \notin {sent, None} => sent'.form = form /\ sent'.body = Held ]_vars

\* When no editor is on its way, Save is enabled exactly when there is something
\* to save: unless visibility alone has changed, which POST_FORM_BASE_FIELDS leaves
\* out; and unless the baseline was taken over a change, the form gave up on the
\* editor before it came, the last edit was a Tab, or the page has submitted once.
Settled == baseline # None /\ editor.step \in {"absent", "ready"} /\ ~frame
GaveUp == editor.step = "ready" /\ ~editor.watched
Comparable == page = "open" /\ Settled /\ ~GaveUp /\ ~submitting /\ ~rebased /\ ~unheard
OnlyVisibility == form.visibility # "kept" /\ ~TrackedChange
SaveTellsUnsaved == Comparable => (button <=> Unsaved /\ ~OnlyVisibility)

\* An open page gets its editor and its baseline, unless its user switches or
\* submits for ever: whoever edits on comes to see what is unsaved.
PageSettles ==
    \/ []<><<form'.mode # form.mode \/ sent' # sent>>_vars
    \/ page = "open" ~> (page = "open" => Settled)

-----------------------------------------------------------------------------
(* What the page tells its user, checked as it says it *)

\* lang/en/posts.php:73, the hint on a disabled Save button: a changed field of the
\* form enables saving.
ChangedFieldsEnableSaving == Comparable /\ Unsaved => button
=============================================================================
