--------------------------- MODULE PostEditorProofs ---------------------------
(***************************************************************************)
(* Proofs about the edit page of a post: its type invariant, that what is  *)
(* sent is what is shown, that only leaving an editor which is still       *)
(* loading loses text, and that the Save button tells what is unsaved.     *)
(***************************************************************************)
EXTENDS PostEditor, TLAPS

USE AttemptsAssumption, NoneAssumption

-----------------------------------------------------------------------------
(* Operators *)

\* What a snapshot takes of a well-formed page is well formed.
LEMMA SnapshotType ==
    ASSUME TypeOK
    PROVE  Snapshot \in Snapshots
  BY DEF TypeOK, Snapshot, Snapshots, Body, Nothing, Form, Editor, Content, Texts

\* The text behind the body field is well formed.
LEMMA HeldType ==
    ASSUME TypeOK
    PROVE  Held \in Content
  BY DEF TypeOK, Held, Editor, Content

\* An absent editor, and one that is about to load, are editors.
LEMMA AbsentType ==
    /\ Absent \in Editor
    /\ [Absent EXCEPT !.step = "starting"] \in Editor
    /\ [Absent EXCEPT !.step = "loading", !.for = "switch"] \in Editor
  BY DEF Absent, Editor, Nothing, Content, Texts

\* HasChanges is a truth value.
LEMMA ButtonType ==
    ASSUME UpdateSaveButton, button \in BOOLEAN, unheard \in BOOLEAN
    PROVE  button' \in BOOLEAN /\ unheard' \in BOOLEAN
  BY DEF UpdateSaveButton, save, HasChanges, HasDirtyFields

\* Taking the baseline keeps the page well formed.
LEMMA CaptureType ==
    ASSUME TypeOK, CaptureBaseline
    PROVE  baseline' \in Snapshots \cup {None} /\ rebased' \in BOOLEAN /\ area' \in Content
  BY SnapshotType, HeldType DEF TypeOK, CaptureBaseline, SyncRichText, TrackedChange

\* A page that is loaded with a well-formed form and body is well formed.
LEMMA LoadType ==
    ASSUME NEW f \in Form, NEW a \in Content, stored' \in Modes, Load(f, a)
    PROVE  TypeOK'
  <1>1. f.title \in Values /\ f.mode \in Modes /\ a.text \in Texts
    BY DEF Form, Content
  <1>2. [title |-> f.title, mode |-> f.mode, body |-> a] \in Snapshots
    BY <1>1 DEF Snapshots
  <1>3. editor' \in Editor
    BY AbsentType DEF Load
  <1>4. baseline' \in Snapshots \cup {None} /\ retries' \subseteq 1..MaxAttempts
    BY <1>2 DEF Load
  <1>5. /\ page' = "open" /\ form' = f /\ area' = a /\ meant' \in Texts
        /\ bound' \in BOOLEAN /\ rebased' \in BOOLEAN /\ button' = FALSE /\ unheard' = FALSE
        /\ submitting' = FALSE /\ frame' = FALSE /\ sent' = None
    BY <1>1 DEF Load
  <1>. QED  BY <1>3, <1>4, <1>5 DEF TypeOK

-----------------------------------------------------------------------------
(* Type correctness *)

\* An unopened page is well formed.
LEMMA TypeInit == Init => TypeOK
  <1>. SUFFICES ASSUME Init PROVE TypeOK
    OBVIOUS
  <1>1. form \in Form /\ area \in Content /\ meant \in Texts
    BY DEF Init, Form, Values, Content, Nothing, Texts
  <1>2. editor \in Editor
    BY AbsentType DEF Init
  <1>3. retries \subseteq 1..MaxAttempts
    BY DEF Init
  <1>. QED  BY <1>1, <1>2, <1>3 DEF Init, TypeOK

\* An attempt to find the editor keeps the page well formed.
LEMMA TypeRetry ==
    ASSUME TypeOK, NEW n \in 1..MaxAttempts, Retry(n)
    PROVE  TypeOK'
  <1>1. CASE form.mode = "pro" \/ (~Found /\ n = MaxAttempts)
    <2>1. retries' = retries \ {n} /\ CaptureBaseline /\ UpdateSaveButton
          /\ UNCHANGED <<form, editor, frame, page, stored, bound, submitting, sent, meant>>
      BY <1>1 DEF Retry, TypeOK, Modes
    <2>. QED  BY <2>1, CaptureType, ButtonType DEF TypeOK
  <1>2. CASE form.mode = "simple" /\ ~Found /\ n < MaxAttempts
    <2>1. retries' = (retries \ {n}) \cup {n + 1}
          /\ UNCHANGED <<form, area, editor, baseline, frame, rebased, save, page, stored, bound,
                         submitting, sent, meant>>
      BY <1>2 DEF Retry
    <2>. QED  BY <1>2, <2>1 DEF TypeOK, save
  <1>3. CASE form.mode = "simple" /\ Found
    <2>1. /\ retries' = retries \ {n}
          /\ editor' = [editor EXCEPT !.watched = TRUE, !.told = @ \/ editor.step = "loading"]
          /\ frame' = (frame \/ editor.step = "ready")
          /\ UNCHANGED <<form, area, baseline, rebased, save, page, stored, bound, submitting,
                         sent, meant>>
      BY <1>3 DEF Retry
    <2>2. editor' \in Editor
      BY <2>1 DEF TypeOK, Editor
    <2>. QED  BY <2>1, <2>2 DEF TypeOK, save
  <1>4. form.mode \in {"simple", "pro"} /\ n <= MaxAttempts
    BY DEF TypeOK, Form, Modes
  <1>. QED  BY <1>1, <1>2, <1>3, <1>4

\* No handler leaves the page ill formed.
LEMMA TypeStep == TypeOK /\ [Next]_vars => TypeOK'
  <1>. SUFFICES ASSUME TypeOK, [Next]_vars PROVE TypeOK'
    OBVIOUS
  <1>1. CASE Open
    <2>1. PICK clean \in BOOLEAN :
             Load([title |-> "kept", visibility |-> "kept", mode |-> stored],
                  [text |-> "kept", clean |-> clean])
      BY <1>1 DEF Open
    <2>2. /\ [title |-> "kept", visibility |-> "kept", mode |-> stored] \in Form
          /\ [text |-> "kept", clean |-> clean] \in Content /\ stored' \in Modes
      BY <1>1 DEF Open, TypeOK, Form, Values, Content, Texts
    <2>. QED  BY <2>1, <2>2, LoadType
  <1>2. CASE Register
    <2>1. editor' \in Editor
      BY <1>2 DEF Register, TypeOK, Editor
    <2>. QED  BY <1>2, <2>1 DEF Register, TypeOK, save, watch
  <1>3. CASE Ready
    <2>1. editor' \in Editor
      BY <1>3 DEF Ready, TypeOK, Editor, Cleaned, Content
    <2>. QED  BY <1>3, <2>1 DEF Ready, TypeOK, save
  <1>4. CASE Tick
    BY <1>4, TypeRetry DEF Tick
  <1>5. CASE Frame
    <2>1. CaptureBaseline /\ UpdateSaveButton /\ frame' = FALSE
          /\ UNCHANGED <<page, stored, form, editor, bound, submitting, retries, sent, meant>>
      BY <1>5 DEF Frame
    <2>. QED  BY <2>1, CaptureType, ButtonType DEF TypeOK
  <1>6. CASE ChangeField
    <2>1. form' \in Form
      BY <1>6 DEF ChangeField, TypeOK, Form
    <2>2. UpdateSaveButton
      BY <1>6 DEF ChangeField
    <2>. QED  BY <1>6, <2>1, <2>2, ButtonType DEF ChangeField, TypeOK, watch
  <1>7. CASE EditBody
    <2>1. editor' \in Editor /\ area' \in Content /\ meant' \in Texts
      BY <1>7 DEF EditBody, TypeOK, Editor, Content, Texts
    <2>2. button' \in BOOLEAN /\ unheard' \in BOOLEAN
      BY <1>7, ButtonType DEF EditBody, TypeOK, save
    <2>. QED  BY <1>7, <2>1, <2>2 DEF EditBody, TypeOK, watch
  <1>8. CASE Indent
    <2>1. area' \in Content /\ meant' \in Texts
      BY <1>8 DEF Indent, TypeOK, Content, Texts
    <2>. QED  BY <1>8, <2>1 DEF Indent, TypeOK, watch
  <1>9. ASSUME NEW mode \in Modes, Switch(mode) PROVE TypeOK'
    <2>1. form' \in Form
      BY <1>9 DEF Switch, TypeOK, Form
    <2>2. area' \in Content
      BY <1>9 DEF Switch, TypeOK, Body, Nothing, Editor, Content, Texts
    <2>3. editor' \in Editor
      BY <1>9, AbsentType DEF Switch
    <2>4. Snapshot' \in Snapshots /\ TrackedChange' \in BOOLEAN
      BY <2>1, <2>2, <2>3 DEF Snapshot, Snapshots, Body, Nothing, Form, Editor, Content, Texts, TrackedChange
    <2>5. baseline' \in Snapshots \cup {None} /\ rebased' \in BOOLEAN
      BY <1>9, <2>4 DEF Switch, TypeOK
    <2>6. button' \in BOOLEAN /\ unheard' \in BOOLEAN
      BY <1>9, ButtonType DEF Switch, TypeOK
    <2>. QED  BY <1>9, <2>1, <2>2, <2>3, <2>5, <2>6 DEF Switch, TypeOK
  <1>10. ASSUME NEW mode \in Modes, Choose(mode) PROVE TypeOK'
    <2>1. form' \in Form
      BY <1>10 DEF Choose, TypeOK, Form
    <2>2. UpdateSaveButton
      BY <1>10 DEF Choose
    <2>. QED  BY <1>10, <2>1, <2>2, ButtonType DEF Choose, TypeOK, watch
  <1>11. ASSUME NEW kind \in {"update", "preview"}, Submit(kind) PROVE TypeOK'
    <2>1. area' \in Content
      BY <1>11, HeldType DEF Submit, SyncRichText
    <2>2. [kind |-> kind, form |-> form, body |-> area'] \in Submissions
      BY <2>1 DEF TypeOK, Submissions
    <2>3. /\ sent' \in Submissions \cup {None} /\ submitting' \in BOOLEAN
          /\ button' \in BOOLEAN /\ unheard' \in BOOLEAN
      BY <1>11, <2>2 DEF Submit, TypeOK, save
    <2>. QED  BY <1>11, <2>1, <2>3 DEF Submit, TypeOK, watch
  <1>12. CASE Accept
    <2>1. sent.form.mode \in Modes
      BY <1>12 DEF Accept, Awaited, TypeOK, Submissions, Form
    <2>2. form' \in Form /\ area' \in Content /\ meant' \in Texts
      BY <1>12, <2>1 DEF Accept, Form, Values, Nothing, Content, Texts
    <2>. QED  BY <1>12, <2>1, <2>2, AbsentType DEF Accept, TypeOK
  <1>13. CASE Reject
    <2>1. sent.form \in Form /\ sent.body \in Content /\ stored' \in Modes
      BY <1>13 DEF Reject, Awaited, TypeOK, Submissions
    <2>. QED  BY <1>13, <2>1, LoadType DEF Reject
  <1>14. CASE Lose
    BY <1>14 DEF Lose, TypeOK, save, watch
  <1>15. CASE UNCHANGED vars
    BY <1>15 DEF vars, save, watch, TypeOK
  <1>. QED
    BY <1>1, <1>2, <1>3, <1>4, <1>5, <1>6, <1>7, <1>8, <1>9, <1>10, <1>11, <1>12, <1>13, <1>14, <1>15
    DEF Next, Edit

\* Every variable of the page keeps its type, for any number of attempts.
THEOREM TypeCorrect == Spec => []TypeOK
  BY TypeInit, TypeStep, PTL DEF Spec

-----------------------------------------------------------------------------
(* What is sent *)

\* Only a submission sends, and it sends the form and the body behind the field.
LEMMA SendsStep ==
    [Next]_vars => (sent' \notin {sent, None} => sent'.form = form /\ sent'.body = Held)
  <1>. SUFFICES ASSUME [Next]_vars, sent' \notin {sent, None}
                PROVE  sent'.form = form /\ sent'.body = Held
    OBVIOUS
  <1>1. ASSUME NEW kind \in {"update", "preview"}, Submit(kind)
        PROVE  sent'.form = form /\ sent'.body = Held
    <2>1. area' = Held
      BY <1>1 DEF Submit, SyncRichText
    <2>2. sent' = [kind |-> kind, form |-> form, body |-> area']
      BY <1>1 DEF Submit
    <2>. QED  BY <2>1, <2>2
  <1>2. CASE Open \/ Reject
    BY <1>2 DEF Open, Reject, Load
  <1>3. CASE Register \/ Ready \/ Frame \/ Tick
    BY <1>3 DEF Register, Ready, Frame, Tick, Retry
  <1>4. CASE Edit
    BY <1>4 DEF Edit, ChangeField, EditBody, Indent, Switch, Choose
  <1>5. CASE Accept \/ Lose
    BY <1>5 DEF Accept, Lose
  <1>6. CASE UNCHANGED vars
    BY <1>6 DEF vars
  <1>. QED  BY <1>1, <1>2, <1>3, <1>4, <1>5, <1>6 DEF Next

\* What is submitted is the page as the user sees it, whatever the editor was doing
\* in the meantime.
THEOREM SubmissionsAreShown == Spec => SendsWhatIsShown
  BY SendsStep, PTL DEF Spec, SendsWhatIsShown

-----------------------------------------------------------------------------
(* What is kept *)

\* A page just loaded holds the text it was loaded with.
LEMMA LoadHolds ==
    ASSUME NEW f, NEW a, Load(f, a)
    PROVE  Holds'
  <1>1. editor'.step # "ready" /\ area' = a /\ meant' = a.text
    BY DEF Load, Absent
  <1>. QED  BY <1>1 DEF Holds, Held

\* Taking the baseline leaves the text behind the field as it is.
LEMMA CaptureHolds ==
    ASSUME Holds, CaptureBaseline, UNCHANGED <<page, editor, meant>>
    PROVE  Holds'
  BY DEF Holds, Held, CaptureBaseline, SyncRichText

\* Whatever happens, the text is held on, but for a switch away from an editor that
\* is still loading.
LEMMA HoldsStep ==
    TypeOK /\ [Next]_vars
        => (Holds /\ ~Holds' => editor.step = "loading" /\ form'.mode # form.mode)
  <1>. SUFFICES ASSUME TypeOK, [Next]_vars, Holds, ~Holds'
                PROVE  editor.step = "loading" /\ form'.mode # form.mode
    OBVIOUS
  <1>1. CASE Open \/ Reject
    BY <1>1, LoadHolds DEF Open, Reject
  <1>2. CASE Register \/ Ready
    <2>1. editor.step \in {"starting", "loading"} /\ UNCHANGED <<page, area, meant>>
      BY <1>2 DEF Register, Ready
    <2>2. \/ editor'.step = "loading"
          \/ editor'.step = "ready" /\ editor'.content = Cleaned(area)
      BY <1>2 DEF Register, Ready, TypeOK, Editor
    <2>3. Cleaned(area).text = area.text
      BY DEF Cleaned, TypeOK, Content
    <2>. QED  BY <2>1, <2>2, <2>3 DEF Holds, Held
  <1>3. CASE Frame
    BY <1>3, CaptureHolds DEF Frame
  <1>4. ASSUME NEW n \in 1..MaxAttempts, Retry(n) PROVE FALSE
    <2>1. CASE CaptureBaseline /\ UNCHANGED editor
      BY <1>4, <2>1, CaptureHolds DEF Retry
    <2>2. CASE UNCHANGED <<area, editor>>
      BY <1>4, <2>2 DEF Retry, Holds, Held
    <2>3. CASE /\ UNCHANGED area
               /\ editor' = [editor EXCEPT !.watched = TRUE, !.told = @ \/ editor.step = "loading"]
      <3>1. editor'.step = editor.step /\ editor'.content = editor.content
        BY <2>3 DEF TypeOK, Editor
      <3>. QED  BY <1>4, <2>3, <3>1 DEF Retry, Holds, Held
    <2>. QED  BY <1>4, <2>1, <2>2, <2>3 DEF Retry
  <1>5. CASE ChangeField \/ \E mode \in Modes : Choose(mode)
    BY <1>5 DEF ChangeField, Choose, Holds, Held
  <1>6. CASE EditBody
    BY <1>6 DEF EditBody, Holds, Held, TypeOK, Editor, Content
  <1>7. CASE Indent
    BY <1>7 DEF Indent, Holds, Held, TypeOK, Editor, Content
  <1>8. ASSUME NEW mode \in Modes, Switch(mode)
        PROVE  editor.step = "loading" /\ form'.mode # form.mode
    <2>1. form'.mode = mode /\ mode # form.mode
      BY <1>8 DEF Switch, TypeOK, Form
    <2>2. editor'.step # "ready" /\ area' = Body(editor, area) /\ UNCHANGED <<page, meant>>
      BY <1>8 DEF Switch, Absent
    <2>3. page = "open"
      BY <1>8 DEF Switch
    <2>4. CASE editor.step # "loading"
      BY <2>2, <2>3, <2>4 DEF Holds, Held, Body
    <2>. QED  BY <2>1, <2>4
  <1>9. ASSUME NEW kind \in {"update", "preview"}, Submit(kind) PROVE FALSE
    BY <1>9 DEF Submit, SyncRichText, Holds, Held
  <1>10. CASE Accept
    BY <1>10 DEF Accept, Holds
  <1>11. CASE Lose \/ UNCHANGED vars
    BY <1>11 DEF Lose, vars, Holds, Held
  <1>. QED
    BY <1>1, <1>2, <1>3, <1>4, <1>5, <1>6, <1>7, <1>8, <1>9, <1>10, <1>11 DEF Next, Edit, Tick

\* The text the user wrote stays behind the body field through every load and switch
\* of the editor; it is lost only by leaving an editor that is still loading.
THEOREM TextIsKept == Spec => TextLostOnlyByEarlySwitch
  BY TypeCorrect, HoldsStep, PTL DEF Spec, TextLostOnlyByEarlySwitch

-----------------------------------------------------------------------------
(* The Save button *)

\* The form looks for the editor in one chain of timers, and stops when it has found
\* it; while the editor of the page loads, one that is watched has no baseline yet.
FromPage == editor.for = "page" /\ editor.step # "absent"
OneChain == \A m, n \in retries : m = n
Polled ==
    /\ editor.told => editor.watched
    /\ editor.for = "switch" /\ editor.step = "ready" => editor.watched
    /\ FromPage /\ ~editor.watched => ~frame
    /\ FromPage /\ editor.step # "ready" =>
         ~frame /\ (editor.watched => editor.told /\ baseline = None)
    /\ FromPage /\ retries # {} => baseline = None /\ ~editor.watched
    /\ editor.step = "ready" => editor.content.clean

\* A baseline that was not taken over a change is what the server stores,
BaselineStored ==
    baseline # None /\ ~rebased =>
        baseline.title = "kept" /\ baseline.mode = stored /\ baseline.body.text = "kept"

\* written as the field that is open writes it,
BaselineClean ==
    baseline # None /\ ~rebased /\ editor.step \in {"absent", "ready"} /\ ~GaveUp
        => baseline.body.clean = Snapshot.body.clean

\* and the button compares the page with it.
ButtonCompares ==
    page = "open" /\ Settled /\ ~GaveUp /\ ~submitting /\ ~unheard => (button <=> HasChanges)

SaveInv == TypeOK /\ OneChain /\ Polled /\ BaselineStored /\ BaselineClean /\ ButtonCompares

\* A page just loaded.
LEMMA LoadSaves ==
    ASSUME NEW f \in Form, NEW a \in Content, stored' \in Modes, Load(f, a)
    PROVE  SaveInv'
  <1>1. TypeOK'
    BY LoadType
  <1>2. /\ editor'.step \in {"absent", "starting"} /\ ~editor'.watched /\ ~editor'.told
        /\ editor'.for = "page" /\ frame' = FALSE /\ retries' \in {{}, {1}}
    BY DEF Load, Absent
  <1>3. /\ form' = f /\ area' = a /\ button' = FALSE
        /\ baseline' = IF f.mode = "pro" THEN [title |-> f.title, mode |-> f.mode, body |-> a]
                       ELSE None
        /\ f.mode = "pro" =>
             /\ editor' = Absent
             /\ rebased' = (f.title # "kept" \/ f.mode # stored' \/ a.text # "kept")
    BY DEF Load
  <1>4. OneChain'
    BY <1>2 DEF OneChain
  <1>5. CASE f.mode = "pro"
    <2>1. editor'.step = "absent" /\ baseline' = Snapshot'
      BY <1>3, <1>5 DEF Absent, Snapshot, Body
    <2>2. BaselineStored'
      BY <1>3, <1>5 DEF BaselineStored
    <2>3. Polled'
      BY <1>2, <2>1 DEF Polled, FromPage
    <2>4. BaselineClean'
      BY <2>1 DEF BaselineClean
    <2>5. ButtonCompares'
      BY <1>3, <2>1 DEF ButtonCompares, HasChanges, HasDirtyFields
    <2>. QED  BY <1>1, <1>4, <2>2, <2>3, <2>4, <2>5 DEF SaveInv
  <1>6. CASE f.mode # "pro"
    <2>1. baseline' = None
      BY <1>3, <1>6
    <2>. QED  BY <1>1, <1>2, <1>4, <2>1
         DEF SaveInv, Polled, FromPage, BaselineStored, BaselineClean, ButtonCompares, Settled
  <1>. QED  BY <1>5, <1>6

\* Whoever updates the button leaves it right.
LEMMA ButtonUpdated ==
    ASSUME UpdateSaveButton, submitting' = submitting
    PROVE  ButtonCompares'
  BY DEF UpdateSaveButton, ButtonCompares

\* Taking the baseline leaves it what is stored, and the snapshot what it was.
LEMMA CaptureSaves ==
    ASSUME TypeOK, BaselineStored, BaselineClean, CaptureBaseline,
           UNCHANGED <<form, editor, stored>>
    PROVE  BaselineStored' /\ BaselineClean'
  <1>1. CASE baseline = None
    <2>1. baseline' = Snapshot /\ rebased' = TrackedChange /\ area' = Held
      BY <1>1 DEF CaptureBaseline, SyncRichText
    <2>2. BaselineStored'
      BY <2>1 DEF BaselineStored, TrackedChange
    <2>3. editor.step \in {"absent", "ready"} => Snapshot' = Snapshot
      BY <2>1 DEF Snapshot, Body, Held
    <2>. QED  BY <2>1, <2>2, <2>3 DEF BaselineClean
  <1>2. CASE baseline # None
    <2>1. UNCHANGED <<baseline, rebased, area>>
      BY <1>2 DEF CaptureBaseline
    <2>2. Snapshot' = Snapshot
      BY <2>1 DEF Snapshot, Body
    <2>. QED  BY <2>1, <2>2 DEF BaselineStored, BaselineClean, GaveUp
  <1>. QED  BY <1>1, <1>2

\* A timer of the form keeps the invariant.
LEMMA RetrySaves ==
    ASSUME SaveInv, NEW n \in 1..MaxAttempts, Retry(n)
    PROVE  SaveInv'
  <1>. USE DEF SaveInv
  <1>1. TypeOK'
    BY TypeRetry
  <1>2. n \in retries /\ retries \ {n} = {} /\ form.mode \in {"simple", "pro"}
    BY DEF OneChain, Retry, TypeOK, Form, Modes
  <1>3. UNCHANGED <<page, stored, bound, submitting, sent, meant>>
    BY DEF Retry
  <1>4. CASE form.mode = "pro" \/ (~Found /\ n = MaxAttempts)
    <2>1. retries' = {} /\ CaptureBaseline /\ UpdateSaveButton /\ UNCHANGED <<form, editor, frame>>
      BY <1>2, <1>4 DEF Retry
    <2>2. BaselineStored' /\ BaselineClean'
      BY <1>3, <2>1, CaptureSaves
    <2>3. Polled'
      BY <1>2, <2>1 DEF Polled, FromPage
    <2>4. ButtonCompares'
      BY <1>3, <2>1, ButtonUpdated
    <2>. QED  BY <1>1, <2>1, <2>2, <2>3, <2>4 DEF OneChain
  <1>5. CASE form.mode = "simple" /\ ~Found /\ n < MaxAttempts
    <2>1. /\ retries' = {n + 1}
          /\ UNCHANGED <<form, area, editor, baseline, frame, rebased, button, unheard>>
      BY <1>2, <1>5 DEF Retry, save
    <2>2. Polled'
      BY <1>2, <2>1 DEF Polled, FromPage
    <2>3. Snapshot' = Snapshot
      BY <2>1 DEF Snapshot, Body
    <2>. QED  BY <1>1, <1>3, <2>1, <2>2, <2>3
         DEF OneChain, BaselineStored, BaselineClean, ButtonCompares, GaveUp, Settled, HasChanges
  <1>6. CASE form.mode = "simple" /\ Found
    <2>1. /\ retries' = {} /\ frame' = (frame \/ editor.step = "ready")
          /\ editor' = [editor EXCEPT !.watched = TRUE, !.told = @ \/ editor.step = "loading"]
          /\ UNCHANGED <<form, area, baseline, rebased, button, unheard>>
      BY <1>2, <1>6 DEF Retry, save
    <2>2. /\ editor'.step = editor.step /\ editor'.for = editor.for
          /\ editor'.content = editor.content /\ editor'.watched = TRUE
          /\ editor'.told = (editor.told \/ editor.step = "loading")
      BY <2>1 DEF TypeOK, Editor
    <2>3. editor.step \in {"loading", "ready"} /\ editor.for \in {"page", "switch"}
      BY <1>6 DEF Found, TypeOK, Editor
    <2>4. Polled'
      BY <1>2, <2>1, <2>2, <2>3 DEF Polled, FromPage
    <2>5. Snapshot' = Snapshot
      BY <2>1, <2>2 DEF Snapshot, Body
    <2>6. baseline # None /\ editor.step = "ready" => editor.watched
      BY <1>2, <2>3 DEF Polled, FromPage
    <2>7. BaselineClean'
      BY <2>1, <2>2, <2>3, <2>5, <2>6 DEF BaselineClean, GaveUp
    <2>8. ButtonCompares'
      BY <2>1, <2>2, <2>3 DEF ButtonCompares, Settled
    <2>. QED  BY <1>1, <1>3, <2>1, <2>4, <2>7, <2>8 DEF OneChain, BaselineStored
  <1>. QED  BY <1>2, <1>4, <1>5, <1>6

\* An unopened page.
LEMMA SaveInit == Init => SaveInv
  BY TypeInit
  DEF Init, SaveInv, OneChain, Polled, FromPage, Absent, BaselineStored, BaselineClean, ButtonCompares

\* The editor of the page or of a switch starts or finishes loading.
LEMMA LoadingSaves ==
    ASSUME SaveInv, TypeOK', Register \/ Ready
    PROVE  SaveInv'
  <1>. USE DEF SaveInv
  <1>1. CASE Register
    <2>1. /\ editor.step = "starting" /\ editor'.step = "loading" /\ editor'.for = editor.for
          /\ editor'.watched = editor.watched /\ editor'.told = editor.told
          /\ UNCHANGED <<page, stored, baseline, retries, frame, rebased>>
      BY <1>1 DEF Register, TypeOK, Editor, watch
    <2>. QED
      BY <2>1 DEF OneChain, Polled, FromPage, BaselineStored, BaselineClean, ButtonCompares, Settled
  <1>2. CASE Ready
    <2>1. /\ editor.step = "loading" /\ editor'.step = "ready" /\ editor'.for = editor.for
          /\ editor'.watched = (editor.watched \/ editor.for = "switch")
          /\ editor'.told = editor.told /\ editor'.content = Cleaned(area)
          /\ frame' = (frame \/ editor.told \/ editor.for = "switch")
          /\ baseline' = IF editor.for = "switch" THEN None ELSE baseline
          /\ UNCHANGED <<page, stored, retries, rebased>>
      BY <1>2 DEF Ready, TypeOK, Editor
    <2>2. editor.for \in {"page", "switch"} /\ editor'.content.clean
      BY <2>1 DEF TypeOK, Editor, Cleaned, Content
    <2>3. Polled'
      BY <2>1, <2>2 DEF Polled, FromPage
    <2>4. baseline' # None => GaveUp'
      BY <2>1, <2>2 DEF Polled, FromPage, GaveUp
    <2>. QED
      BY <2>1, <2>3, <2>4 DEF OneChain, BaselineStored, BaselineClean, ButtonCompares, Settled
  <1>. QED  BY <1>1, <1>2

\* A frame is drawn.
LEMMA FrameSaves ==
    ASSUME SaveInv, TypeOK', Frame
    PROVE  SaveInv'
  <1>. USE DEF SaveInv
  <1>1. /\ frame /\ frame' = FALSE /\ CaptureBaseline /\ UpdateSaveButton
        /\ UNCHANGED <<page, stored, form, editor, bound, submitting, retries, sent, meant>>
    BY DEF Frame
  <1>2. BaselineStored' /\ BaselineClean' /\ ButtonCompares'
    BY <1>1, CaptureSaves, ButtonUpdated
  <1>3. Polled'
    BY <1>1 DEF Polled, FromPage
  <1>. QED  BY <1>1, <1>2, <1>3 DEF OneChain

\* The user changes a field, the mode, or the text of the body.
LEMMA EditSaves ==
    ASSUME SaveInv, TypeOK', ChangeField \/ EditBody \/ Indent \/ \E mode \in Modes : Choose(mode)
    PROVE  SaveInv'
  <1>. USE DEF SaveInv
  <1>1. UNCHANGED <<page, stored, submitting, baseline, retries, frame, rebased>>
    BY DEF ChangeField, EditBody, Indent, Choose, watch
  <1>2. /\ editor'.step = editor.step /\ editor'.for = editor.for
        /\ editor'.watched = editor.watched /\ editor'.told = editor.told
        /\ editor'.content.clean = editor.content.clean
        /\ area'.clean = area.clean
    BY DEF ChangeField, EditBody, Indent, Choose, TypeOK, Editor, Content
  <1>3. OneChain' /\ Polled' /\ BaselineStored'
    BY <1>1, <1>2 DEF OneChain, Polled, FromPage, BaselineStored
  <1>4. Snapshot'.body.clean = Snapshot.body.clean
    BY <1>2 DEF Snapshot, Body
  <1>5. BaselineClean'
    BY <1>1, <1>2, <1>4 DEF BaselineClean, GaveUp
  <1>6. CASE UpdateSaveButton
    BY <1>1, <1>3, <1>5, <1>6, ButtonUpdated
  <1>7. CASE editor.step = "ready" /\ ~editor.watched
    BY <1>2, <1>3, <1>5, <1>7 DEF ButtonCompares, GaveUp
  <1>8. CASE Indent
    BY <1>3, <1>5, <1>8 DEF Indent, ButtonCompares
  <1>. QED  BY <1>6, <1>7, <1>8 DEF ChangeField, EditBody, Choose

\* The user changes the editor.
LEMMA SwitchSaves ==
    ASSUME SaveInv, TypeOK', NEW mode \in Modes, Switch(mode)
    PROVE  SaveInv'
  <1>. USE DEF SaveInv
  <1>1. /\ UNCHANGED <<page, stored, submitting, retries, frame>> /\ UpdateSaveButton
        /\ baseline' = IF mode = "pro" THEN Snapshot' ELSE baseline
        /\ rebased' = IF mode = "pro" THEN TrackedChange' ELSE rebased
        /\ editor' = IF mode = "pro" THEN Absent
                     ELSE [Absent EXCEPT !.step = "loading", !.for = "switch"]
    BY DEF Switch
  <1>2. ButtonCompares'
    BY <1>1, ButtonUpdated
  <1>3. ~editor'.told /\ editor'.step \in {"absent", "loading"} /\ ~FromPage'
    BY <1>1 DEF Absent, FromPage
  <1>4. Polled'
    BY <1>3 DEF Polled
  <1>5. BaselineStored'
    BY <1>1 DEF BaselineStored, TrackedChange
  <1>6. BaselineClean'
    BY <1>1 DEF BaselineClean, Absent
  <1>. QED  BY <1>1, <1>2, <1>4, <1>5, <1>6 DEF OneChain

\* The page is submitted.
LEMMA SubmitSaves ==
    ASSUME SaveInv, TypeOK', NEW kind \in {"update", "preview"}, Submit(kind)
    PROVE  SaveInv'
  <1>. USE DEF SaveInv
  <1>1. /\ UNCHANGED <<page, stored, form, editor, baseline, retries, frame, rebased>>
        /\ area' = Held
        /\ submitting' \/ UNCHANGED <<button, unheard, submitting>>
    BY DEF Submit, SyncRichText, watch, save
  <1>2. editor.step \in {"absent", "ready"} => Snapshot' = Snapshot
    BY <1>1 DEF Snapshot, Body, Held
  <1>3. OneChain' /\ Polled' /\ BaselineStored'
    BY <1>1 DEF OneChain, Polled, FromPage, BaselineStored
  <1>4. BaselineClean'
    BY <1>1, <1>2 DEF BaselineClean, GaveUp
  <1>5. ButtonCompares'
    BY <1>1, <1>2 DEF ButtonCompares, Settled, GaveUp, HasChanges, HasDirtyFields
  <1>. QED  BY <1>3, <1>4, <1>5

\* Every handler keeps the invariant.
LEMMA SaveStep == SaveInv /\ [Next]_vars => SaveInv'
  <1>. SUFFICES ASSUME SaveInv, [Next]_vars PROVE SaveInv'
    OBVIOUS
  <1>1. TypeOK /\ TypeOK'
    BY TypeStep DEF SaveInv
  <1>2. CASE Open
    <2>1. PICK clean \in BOOLEAN :
             Load([title |-> "kept", visibility |-> "kept", mode |-> stored],
                  [text |-> "kept", clean |-> clean])
      BY <1>2 DEF Open
    <2>2. /\ [title |-> "kept", visibility |-> "kept", mode |-> stored] \in Form
          /\ [text |-> "kept", clean |-> clean] \in Content /\ stored' \in Modes
      BY <1>1, <1>2 DEF Open, TypeOK, Form, Values, Content, Texts
    <2>. QED  BY <2>1, <2>2, LoadSaves
  <1>3. CASE Register \/ Ready
    BY <1>1, <1>3, LoadingSaves
  <1>4. CASE Tick
    BY <1>4, RetrySaves DEF Tick
  <1>5. CASE Frame
    BY <1>1, <1>5, FrameSaves
  <1>6. CASE Edit
    BY <1>1, <1>6, EditSaves, SwitchSaves DEF Edit
  <1>7. ASSUME NEW kind \in {"update", "preview"}, Submit(kind) PROVE SaveInv'
    BY <1>1, <1>7, SubmitSaves
  <1>8. CASE Accept
    <2>1. page' = "closed" /\ baseline' = None /\ editor' = Absent /\ retries' = {}
      BY <1>8 DEF Accept
    <2>. QED
      BY <1>1, <2>1 DEF SaveInv, OneChain, Polled, FromPage, Absent, BaselineStored, BaselineClean,
                        ButtonCompares
  <1>9. CASE Reject
    <2>1. sent.form \in Form /\ sent.body \in Content /\ stored' \in Modes
      BY <1>1, <1>9 DEF Reject, Awaited, TypeOK, Submissions
    <2>. QED  BY <1>9, <2>1, LoadSaves DEF Reject
  <1>10. CASE Lose \/ UNCHANGED vars
    <2>1. UNCHANGED <<page, stored, form, area, editor, bound, save, submitting, watch, meant>>
      BY <1>10 DEF Lose, vars, save, watch
    <2>2. UNCHANGED <<page, stored, form, area, editor, button, unheard, submitting, baseline,
                      retries, frame, rebased>>
      BY <2>1 DEF save, watch
    <2>3. Snapshot' = Snapshot
      BY <2>2 DEF Snapshot, Body
    <2>. QED
      BY <1>1, <2>2, <2>3 DEF SaveInv, OneChain, Polled, FromPage, BaselineStored, BaselineClean,
                              ButtonCompares, Settled, GaveUp, HasChanges, HasDirtyFields
  <1>. QED
    BY <1>2, <1>3, <1>4, <1>5, <1>6, <1>7, <1>8, <1>9, <1>10 DEF Next

\* A page whose baseline is what the server stores has changes exactly when something it
\* tracks is unsaved.
LEMMA ChangesAreTracked ==
    ASSUME SaveInv, Settled, ~GaveUp, ~rebased
    PROVE  HasChanges <=> TrackedChange
  <1>. USE DEF SaveInv
  <1>1. baseline # None /\ baseline \in Snapshots /\ Snapshot \in Snapshots
    BY SnapshotType DEF Settled, TypeOK
  <1>2. /\ baseline.title = "kept" /\ baseline.mode = stored /\ baseline.body.text = "kept"
        /\ baseline.body.clean = Snapshot.body.clean
    BY <1>1 DEF BaselineStored, BaselineClean, Settled
  <1>3. CASE TrackedChange
    BY <1>1, <1>2, <1>3 DEF TrackedChange, HasChanges, HasDirtyFields
  <1>4. CASE ~TrackedChange
    <2>1. /\ Snapshot.title = baseline.title /\ Snapshot.mode = baseline.mode
          /\ Snapshot.body.text = baseline.body.text
      BY <1>2, <1>4 DEF TrackedChange
    <2>2. Snapshot.body = baseline.body
      BY <1>1, <1>2, <2>1 DEF Snapshots, Content
    <2>3. Snapshot = baseline
      BY <1>1, <2>1, <2>2 DEF Snapshots
    <2>. QED  BY <1>4, <2>3 DEF HasChanges, HasDirtyFields
  <1>. QED  BY <1>3, <1>4

\* Once its editor has settled, an open page lets its user save exactly when there is
\* something to save other than its visibility, for any number of attempts to find the
\* editor.
THEOREM SaveIsTold == Spec => []SaveTellsUnsaved
  <1>1. SaveInv => SaveTellsUnsaved
    BY ChangesAreTracked DEF SaveTellsUnsaved, Comparable, Unsaved, OnlyVisibility, SaveInv,
                            ButtonCompares
  <1>. QED  BY SaveInit, SaveStep, <1>1, PTL DEF Spec

=============================================================================
