----------------------------- MODULE PagesProofs -----------------------------
(***************************************************************************)
(* Theorems about Pages: for any number of pictures, requests, characters  *)
(* and files.  The two pages share no state, so each has an invariant of   *)
(* its own, which the steps of the other page leave alone.                 *)
(***************************************************************************)
EXTENDS Pages, FiniteSetTheorems, SequenceTheorems, TLAPS

-----------------------------------------------------------------------------
(* The slug *)

\* As long as no input method has put in anything else, the slug is made of
\* characters it may hold.
SlugOK ==
    /\ slug \in Seq(Chars) /\ Len(slug) <= MaxLength
    /\ composed \in BOOLEAN
    /\ ~composed => slug \in Seq({"ok"})

\* The tip: one timer of each kind at most, and if both run it was called up again.
TipOK ==
    /\ tip \in [hidden: BOOLEAN, visible: BOOLEAN, timers: 0..1, fades: 0..1]
    /\ recalled \in BOOLEAN
    /\ TipStaysWhileDue
    /\ tip.timers > 0 /\ tip.fades > 0 => recalled

\* The preview: without a doubt, at most the file chosen last is being read.
PreviewOK ==
    /\ choices \in 0..MaxChoices /\ choice \in 0..choices /\ backdrop \in 0..choices
    /\ readers \subseteq 1..choices /\ doubt \in BOOLEAN
    /\ ~doubt => \/ readers = {} /\ choice \in {0, backdrop}
                 \/ \E f \in 1..choices : readers = {f} /\ choice \in {0, f}

FieldsInv == SlugOK /\ TipOK /\ PreviewOK

\* The bounded sequences are the sequences that are short enough.
LEMMA BoundedSeqs ==
    ASSUME NEW S, NEW n \in Nat
    PROVE  BoundedSeq(S, n) = {s \in Seq(S) : Len(s) <= n}
<1>1. ASSUME NEW s \in BoundedSeq(S, n) PROVE s \in Seq(S) /\ Len(s) <= n
  <2>1. PICK m \in 0..n : s \in [1..m -> S]  BY DEF BoundedSeq, SeqOf
  <2>2. m \in Nat /\ s \in Seq(S)  BY <2>1, SeqDef
  <2>3. DOMAIN s = 1..m /\ DOMAIN s = 1..Len(s) /\ Len(s) \in Nat
        BY <2>1, <2>2, LenProperties
  <2>4. Len(s) = m  BY <2>2, <2>3
  <2> QED BY <2>2, <2>4
<1>2. ASSUME NEW s \in Seq(S), Len(s) <= n PROVE s \in BoundedSeq(S, n)
  <2>1. Len(s) \in 0..n /\ s \in [1..Len(s) -> S]  BY <1>2, LenProperties
  <2> QED BY <2>1 DEF BoundedSeq, SeqOf
<1> QED BY <1>1, <1>2

\* What is put into the slug is cut to size, and nothing comes in that was in
\* neither of the two.
LEMMA InsertKeeps ==
    ASSUME NEW S, NEW current \in Seq(S), NEW text \in Seq(S),
           NEW start \in 0..Len(current), NEW end \in 0..Len(current)
    PROVE  /\ InsertSlugAtSelection(current, start, end, text) \in Seq(S)
           /\ Len(InsertSlugAtSelection(current, start, end, text)) <= MaxLength
<1> DEFINE head == SubSeq(current, 1, start)
           tail == SubSeq(current, end + 1, Len(current))
           next == head \o text \o tail
           n == IF Len(next) < MaxLength THEN Len(next) ELSE MaxLength
<1>1. /\ Len(current) \in Nat
      /\ \A i \in 1..start : current[i] \in S
      /\ \A i \in (end + 1)..Len(current) : current[i] \in S
  <2>1. Len(current) \in Nat  BY LenProperties
  <2>2. \A i \in 1..Len(current) : current[i] \in S  BY ElementOfSeq
  <2> QED BY <2>1, <2>2
<1>2. head \in Seq(S)  BY <1>1, SubSeqProperties
<1>3. tail \in Seq(S)
  <2>1. end + 1 \in Int /\ Len(current) \in Int  BY <1>1
  <2> QED BY <1>1, <2>1, SubSeqProperties
<1>4. next \in Seq(S)
  <2> HIDE DEF head, tail
  <2>1. head \o text \in Seq(S)  BY <1>2, ConcatProperties
  <2> QED BY <1>3, <2>1, ConcatProperties
<1> HIDE DEF next
<1>5. Len(next) \in Nat /\ n \in 0..Len(next) /\ n <= MaxLength
      BY <1>4, FieldsAssumption, LenProperties
<1> HIDE DEF n
<1>6. \A i \in 1..n : next[i] \in S  BY <1>4, <1>5, ElementOfSeq
<1>7. SubSeq(next, 1, n) \in Seq(S) /\ Len(SubSeq(next, 1, n)) <= MaxLength
  <2>1. 1 \in Int /\ n \in Int  BY <1>5
  <2>2. /\ SubSeq(next, 1, n) \in Seq(S)
        /\ Len(SubSeq(next, 1, n)) = IF 1 <= n THEN n - 1 + 1 ELSE 0
        BY <1>6, <2>1, SubSeqProperties
  <2> QED BY <1>5, <2>2
<1> QED BY <1>7 DEF InsertSlugAtSelection, next, n

\* The browser cuts what is typed before it puts it in.
LEMMA TypedKeeps ==
    ASSUME NEW S, slug \in Seq(S), Len(slug) <= MaxLength, NEW text \in Seq(S),
           NEW s \in Selections
    PROVE  Typed(s, text) \in Seq(S) /\ Len(Typed(s, text)) <= MaxLength
<1> DEFINE room == MaxLength - (Len(slug) - (s[2] - s[1]))
           n == IF Len(text) < room THEN Len(text) ELSE room
<1>1. /\ s[1] \in 0..Len(slug) /\ s[2] \in 0..Len(slug) /\ s[1] <= s[2]
      /\ Len(slug) \in Nat /\ Len(text) \in Nat /\ MaxLength \in Nat
      BY FieldsAssumption, LenProperties DEF Selections
<1>2. n \in 0..Len(text)  BY <1>1
<1> HIDE DEF n
<1>3. SubSeq(text, 1, n) \in Seq(S)
  <2>1. \A i \in 1..n : text[i] \in S  BY <1>1, <1>2, ElementOfSeq
  <2>2. 1 \in Int /\ n \in Int  BY <1>1, <1>2
  <2> QED BY <2>1, <2>2, SubSeqProperties
<1> QED BY <1>1, <1>3, InsertKeeps DEF Typed, InsertSlugTextAtSelection, n

\* Filtering leaves allowed characters only, and no more than there were.
LEMMA FilterKeeps ==
    ASSUME NEW text \in Texts
    PROVE  text \in Seq(Chars) /\ FilterSlugText(text) \in Seq({"ok"})
<1>1. text \in Seq(Chars)  BY BoundedSeqs DEF Texts
<1> DEFINE A == {j \in DOMAIN text : text[j] = "ok"}
<1>2. Cardinality(A) \in Nat
  <2>1. DOMAIN text = 1..Len(text) /\ Len(text) \in Int  BY <1>1, LenProperties
  <2>2. IsFiniteSet(DOMAIN text)  BY <2>1, FS_Interval
  <2>3. IsFiniteSet(A)  BY <2>2, FS_Subset
  <2> QED BY <2>3, FS_CardinalityType
<1> HIDE DEF A
<1>3. [i \in 1..Cardinality(A) |-> "ok"] \in [1..Cardinality(A) -> {"ok"}]  OBVIOUS
<1>4. [i \in 1..Cardinality(A) |-> "ok"] \in Seq({"ok"})  BY <1>2, <1>3, SeqDef
<1> QED BY <1>1, <1>4 DEF FilterSlugText, A

\* An input method may put in anything; whatever else happens to the slug keeps it.
LEMMA SlugStep == ASSUME SlugOK, FieldsNext PROVE SlugOK'
<1>1. \/ slug' = slug /\ (composed' = composed \/ composed' = TRUE)
      \/ \E s \in Selections, text \in Seq({"ok"}) :
            /\ slug' \in {Typed(s, text), InsertSlugTextAtSelection(s, text)}
            /\ composed' = composed \/ composed' = TRUE
      \/ \E s \in Selections, text \in Seq(Chars) : slug' = Typed(s, text) /\ composed' = TRUE
  <2>1. CASE BeforeInput
    <3>1. PICK s \in Selections, text \in Texts, composing \in BOOLEAN :
            /\ slug' = IF IsAllowedSlugChar(text) \/ composing THEN Typed(s, text) ELSE slug
            /\ composed' = (composed \/ (composing /\ ~IsAllowedSlugChar(text)))
          BY <2>1 DEF BeforeInput
    <3>2. text \in Seq(Chars)  BY FilterKeeps
    <3>3. IsAllowedSlugChar(text) => text \in Seq({"ok"})  BY DEF IsAllowedSlugChar
    <3>4. composed \in BOOLEAN  BY DEF SlugOK
    <3> QED BY <3>1, <3>2, <3>3, <3>4
  <2>2. CASE Delete
    <3>1. <<>> \in Seq({"ok"})  OBVIOUS
    <3> QED BY <2>2, <3>1 DEF Delete
  <2>3. CASE Paste
    <3>1. PICK s \in Selections, text \in Texts :
            slug' = IF FilterSlugText(text) = <<>> THEN slug
                    ELSE InsertSlugTextAtSelection(s, FilterSlugText(text))
          BY <2>3 DEF Paste
    <3>2. composed' = composed  BY <2>3 DEF Paste
    <3> QED BY <3>1, <3>2, FilterKeeps
  <2>4. CASE Space \/ HideTimer \/ FadeTimer  BY <2>4 DEF Space, HideTimer, FadeTimer
  <2>5. CASE UpdateBackgroundPreview \/ \E file \in 1..MaxChoices : OnLoad(file) \/ ReadError(file)
        BY <2>5 DEF UpdateBackgroundPreview, OnLoad, ReadError, slugVars
  <2> QED BY <2>1, <2>2, <2>3, <2>4, <2>5 DEF FieldsNext
<1>2. \A S, t : {"ok"} \subseteq S /\ t \in Seq({"ok"}) => t \in Seq(S)  BY SeqMonotonic
<1>3. {"ok"} \subseteq Chars  BY DEF Chars
<1>4. CASE slug' = slug /\ (composed' = composed \/ composed' = TRUE)  BY <1>4 DEF SlugOK
<1>5. ASSUME NEW s \in Selections, NEW text \in Seq({"ok"}),
             slug' \in {Typed(s, text), InsertSlugTextAtSelection(s, text)},
             composed' = composed \/ composed' = TRUE
      PROVE  SlugOK'
  <2>1. s[1] \in 0..Len(slug) /\ s[2] \in 0..Len(slug)  BY DEF Selections
  <2>2. ASSUME NEW S, slug \in Seq(S), text \in Seq(S)
        PROVE  slug' \in Seq(S) /\ Len(slug') <= MaxLength
    <3>1. CASE slug' = Typed(s, text)  BY <2>2, <3>1, TypedKeeps DEF SlugOK
    <3>2. CASE slug' = InsertSlugTextAtSelection(s, text)
          BY <2>1, <2>2, <3>2, InsertKeeps DEF InsertSlugTextAtSelection
    <3> QED BY <1>5, <3>1, <3>2
  <2>3. text \in Seq(Chars)  BY <1>2, <1>3
  <2>4. slug \in Seq(Chars) /\ composed \in BOOLEAN /\ (~composed => slug \in Seq({"ok"}))
        BY DEF SlugOK
  <2>5. slug' \in Seq(Chars) /\ Len(slug') <= MaxLength  BY <2>2, <2>3, <2>4
  <2>6. composed' \in BOOLEAN /\ (~composed' => slug' \in Seq({"ok"}))
        BY <1>5, <2>2, <2>4
  <2> QED BY <2>5, <2>6 DEF SlugOK
<1>6. ASSUME NEW s \in Selections, NEW text \in Seq(Chars), slug' = Typed(s, text),
             composed' = TRUE
      PROVE  SlugOK'
      BY <1>6, TypedKeeps DEF SlugOK
<1> QED BY <1>1, <1>4, <1>5, <1>6

\* Each call of the tip replaces the timer that runs; a fade ends before that timer.
LEMMA TipStep == ASSUME TipOK, FieldsNext PROVE TipOK'
<1> DEFINE Tips == [hidden: BOOLEAN, visible: BOOLEAN, timers: 0..1, fades: 0..1]
<1>1. /\ tip \in Tips /\ recalled \in BOOLEAN
      /\ tip.timers > 0 => tip.visible /\ (recalled \/ ~tip.hidden)
      /\ tip.timers > 0 /\ tip.fades > 0 => recalled
      BY DEF TipOK, TipStaysWhileDue
<1>2. CASE tip' = tip /\ recalled' = recalled
      BY <1>1, <1>2 DEF TipOK, TipStaysWhileDue
<1>3. 0 \in 0..1 /\ 1 \in 0..1 /\ ~(0 > 0)  OBVIOUS
<1>4. CASE ShowSlugForbiddenTip
  <2>1. /\ tip' = [tip EXCEPT !.hidden = FALSE, !.visible = TRUE, !.timers = 1]
        /\ recalled' = (recalled \/ tip.fades > 0)
        BY <1>4 DEF ShowSlugForbiddenTip
  <2>2. tip' \in Tips /\ tip'.visible = TRUE /\ tip'.hidden = FALSE /\ tip'.fades = tip.fades
        BY <1>1, <1>3, <2>1
  <2>3. recalled' \in BOOLEAN /\ (tip'.fades > 0 => recalled')
        BY <2>1, <2>2
  <2> QED BY <2>2, <2>3 DEF TipOK, TipStaysWhileDue
<1>5. CASE HideTimer
  <2>1. /\ tip.timers > 0 /\ recalled' = FALSE
        /\ tip' = [tip EXCEPT !.visible = FALSE, !.timers = tip.timers - 1, !.fades = 1]
        BY <1>5 DEF HideTimer
  <2>2. tip.timers - 1 = 0  BY <1>1, <2>1
  <2>3. tip' = [tip EXCEPT !.visible = FALSE, !.timers = 0, !.fades = 1]  BY <2>1, <2>2
  <2>4. tip' \in Tips /\ tip'.timers = 0  BY <1>1, <1>3, <2>3
  <2>5. ~(tip'.timers > 0)  BY <1>3, <2>4
  <2> QED BY <2>1, <2>4, <2>5 DEF TipOK, TipStaysWhileDue
<1>6. CASE FadeTimer
  <2>1. /\ tip.fades > 0 /\ recalled' = recalled
        /\ tip' = [tip EXCEPT !.hidden = TRUE, !.fades = 0]
        BY <1>6 DEF FadeTimer
  <2>2. /\ tip' \in Tips
        /\ tip'.timers = tip.timers /\ tip'.visible = tip.visible /\ tip'.fades = 0
        BY <1>1, <1>3, <2>1
  <2>3. ~(tip'.fades > 0) /\ (tip'.timers > 0 => recalled' /\ tip'.visible)
        BY <1>1, <1>3, <2>1, <2>2
  <2> QED BY <1>1, <2>1, <2>2, <2>3 DEF TipOK, TipStaysWhileDue
<1>7. \/ tip' = tip /\ recalled' = recalled
      \/ ShowSlugForbiddenTip \/ HideTimer \/ FadeTimer
      BY DEF FieldsNext, BeforeInput, Delete, Paste, Space, UpdateBackgroundPreview, OnLoad,
             ReadError, slugVars
<1> QED BY <1>2, <1>4, <1>5, <1>6, <1>7

\* A second file chosen while one is read is the doubt.
LEMMA PreviewStep == ASSUME PreviewOK, FieldsNext PROVE PreviewOK'
<1> USE FieldsAssumption DEF PreviewOK
<1>1. CASE UpdateBackgroundPreview
  <2>1. CASE /\ choices < MaxChoices
             /\ choices' = choices + 1 /\ choice' = choices'
             /\ readers' = readers \cup {choice'}
             /\ doubt' = (readers # {})
    <3>1. backdrop' = backdrop  BY <1>1 DEF UpdateBackgroundPreview
    <3>2. /\ choices' \in 0..MaxChoices /\ choice' \in 0..choices'
          /\ backdrop' \in 0..choices' /\ readers' \subseteq 1..choices'
          BY <2>1, <3>1
    <3>3. choices' = choices + 1 /\ choice' = choices + 1 /\ choices \in Nat  BY <2>1
    <3>5. choice' \in 1..choices'  BY <3>3
    <3>6. readers = {} => readers' = {choice'}  BY <2>1
    <3>4. doubt' \in BOOLEAN /\ (~doubt' => readers = {})  BY <2>1
    <3> QED BY <3>2, <3>4, <3>5, <3>6
  <2>2. CASE choice # 0 /\ choice' = 0 /\ UNCHANGED <<choices, readers, doubt>>
    <3>1. backdrop' = backdrop  BY <1>1 DEF UpdateBackgroundPreview
    <3> QED BY <2>2, <3>1
  <2> QED BY <1>1, <2>1, <2>2 DEF UpdateBackgroundPreview
<1>2. ASSUME NEW file \in 1..MaxChoices, OnLoad(file) PROVE PreviewOK'
      BY <1>2 DEF OnLoad
<1>3. ASSUME NEW file \in 1..MaxChoices, ReadError(file) PROVE PreviewOK'
      BY <1>3 DEF ReadError
<1>4. CASE UNCHANGED backgroundVars  BY <1>4 DEF backgroundVars
<1>5. BeforeInput \/ Delete \/ Paste \/ Space \/ HideTimer \/ FadeTimer => UNCHANGED backgroundVars
      BY DEF BeforeInput, Delete, Paste, Space, HideTimer, FadeTimer
<1> QED BY <1>1, <1>2, <1>3, <1>4, <1>5 DEF FieldsNext

\* The form of a post, whichever page is shown.
LEMMA FieldsInvariance == Spec => []FieldsInv
<1>1. Init => FieldsInv
  <2> SUFFICES ASSUME FieldsInit PROVE FieldsInv  BY DEF Init
  <2>1. SlugOK
    <3>1. <<>> \in Seq({"ok"}) /\ <<"ok">> \in Seq({"ok"})
          /\ <<>> \in Seq(Chars) /\ <<"ok">> \in Seq(Chars)
          /\ Len(<<>>) = 0 /\ Len(<<"ok">>) = 1
          BY DEF Chars
    <3>2. slug \in {<<>>, <<"ok">>} /\ composed = FALSE  BY DEF FieldsInit
    <3>3. 0 <= MaxLength /\ 1 <= MaxLength  BY FieldsAssumption
    <3> QED BY <3>1, <3>2, <3>3 DEF SlugOK
  <2>2. TipOK
    <3>1. /\ tip = [hidden |-> TRUE, visible |-> FALSE, timers |-> 0, fades |-> 0]
          /\ recalled = FALSE /\ 0 \in 0..1
          BY DEF FieldsInit
    <3>2. ~(tip.timers > 0)  BY <3>1
    <3> QED BY <3>1, <3>2 DEF TipOK, TipStaysWhileDue
  <2>3. PreviewOK
    <3>1. /\ choice = 0 /\ choices = 0 /\ readers = {} /\ backdrop = 0 /\ doubt = FALSE
          /\ 0 \in 0..MaxChoices /\ 0 \in 0..0
          BY FieldsAssumption DEF FieldsInit
    <3> QED BY <3>1 DEF PreviewOK
  <2> QED BY <2>1, <2>2, <2>3 DEF FieldsInv
<1>2. FieldsInv /\ [Next]_vars => FieldsInv'
  <2> SUFFICES ASSUME FieldsInv, [Next]_vars PROVE FieldsInv'  OBVIOUS
  <2>1. CASE FieldsNext  BY <2>1, SlugStep, TipStep, PreviewStep DEF FieldsInv
  <2>2. CASE UNCHANGED fieldVars
        BY <2>2 DEF fieldVars, slugVars, backgroundVars, FieldsInv, SlugOK, TipOK,
                    TipStaysWhileDue, PreviewOK
  <2> QED BY <2>1, <2>2 DEF Next, OnProfile, OnPost, vars
<1> QED BY <1>1, <1>2, PTL DEF Spec

\* Whatever the handlers are given, of any length, the slug stays one that fits a URL.
THEOREM SlugIsUrlSafe == Spec => []SlugStaysUrlSafe
<1>1. FieldsInv => SlugStaysUrlSafe
  <2> SUFFICES ASSUME SlugOK, ~composed, NEW i \in DOMAIN slug PROVE slug[i] = "ok"
      BY DEF FieldsInv, SlugStaysUrlSafe, SlugOK
  <2>1. slug \in Seq({"ok"}) /\ i \in 1..Len(slug)  BY LenProperties DEF SlugOK
  <2> QED BY <2>1, ElementOfSeq
<1> QED BY <1>1, FieldsInvariance, PTL

\* The tip is up while a timer is due.
THEOREM TipIsDue == Spec => []TipStaysWhileDue
<1>1. FieldsInv => TipStaysWhileDue  BY DEF FieldsInv, TipOK
<1> QED BY <1>1, FieldsInvariance, PTL

\* The preview shows the file that will be uploaded, of any number of them.
THEOREM PreviewIsChoice == Spec => []PreviewShowsChoice
<1>1. FieldsInv => PreviewShowsChoice  BY DEF FieldsInv, PreviewOK, PreviewShowsChoice
<1> QED BY <1>1, FieldsInvariance, PTL

-----------------------------------------------------------------------------
(* The profile page *)

Crops == [image: 0..MaxPicks, cropper: 0..MaxPicks, ready: BOOLEAN, save: BOOLEAN]
Requests == [kind: {"upload", "delete"}, pick: 0..MaxPicks, step: Steps, previous: 0..MaxRequests]

\* The cropper works on the picture shown, or on none yet, and then Save is enabled.
PicturesOK ==
    /\ picker => picks < MaxPicks
    /\ crop.image \in 0..picks /\ crop.cropper \in {0, crop.image}
    /\ dialog = "showing" => crop.image # 0 /\ crop.cropper = 0
    /\ crop.cropper = 0 => crop.save

\* A picture is stored once: while its encoding is under way it has not been sent, and
\* while it may be saved it is neither being encoded nor sent.
Uploads(p) == {r \in DOMAIN requests : requests[r].pick = p}
Unused(p) == encoding[p] = 0 /\ Uploads(p) = {}
MaySave(p) == p > picks \/ (p = crop.image /\ (crop.cropper = 0 \/ crop.save))
UploadsOK ==
    "stale" \notin mishap =>
        \A p \in Picks :
            /\ encoding[p] > 0 => encoding[p] = 1 /\ Uploads(p) = {}
            /\ \A r, s \in Uploads(p) : r = s
            /\ MaySave(p) => Unused(p)

\* Without overlap and without deaths only the latest request may have work to do, and
\* how far it has got says what the disk holds.
Latest == Len(requests)
Undied == \A r \in 1..Latest : requests[r].step # "died"
OneByOne == \A r \in 1..Latest : r < Latest => requests[r].step \in Ended
Stored == avatar = Intended /\ files = {avatar} \ {0}
LatestOK ==
    LET q == requests[Latest]
    IN  IF Latest = 0 \/ q.step \in {"sent", "done", "refused"} THEN Stored
        ELSE /\ avatar = Intended /\ q.previous = avatar
             /\ \/ q.step = "drop" /\ files = {avatar} \ {0}
                \/ q.step = "store" /\ files = {} /\ q.kind = "upload"
                \/ q.step = "update" /\ files = IF q.kind = "upload" THEN {Latest} ELSE {}
AvatarOK == "overlap" \notin mishap => OneByOne /\ (Undied => LatestOK)

ProfileInv ==
    ProfileTypeOK /\ PicturesOK /\ DialogCanBeSaved /\ UploadsOK /\ AvatarOK

-----------------------------------------------------------------------------
(* What the steps do *)

Serves(r) == Begin(r) \/ Drop(r) \/ Store(r) \/ Update(r) \/ Die(r)

\* Three events render the page anew.
LEMMA ProfileSteps ==
    ASSUME ProfileTypeOK, ProfileNext
    PROVE  \/ OpenPicker \/ Pick \/ Shown \/ Ready \/ Dismiss \/ Hidden \/ Save
           \/ \E p \in Picks : Blob(p)
           \/ RemoveAvatar \/ ChangeProfile \/ SubmitProfile \/ Lose
           \/ \E f \in {"kept", "changed"} : Load(f)
           \/ \E r \in Files : Serves(r)
<1>1. profile.sent \in {"none", "kept", "changed"}  BY DEF ProfileTypeOK, Fields
<1> QED BY <1>1 DEF ProfileNext, AnswerProfile, AnswerAvatar, Reload, Serves

\* The picture on show, after each way to change it.
LEMMA CropFields ==
    ASSUME ProfileTypeOK, NEW i \in 0..MaxPicks, NEW b \in BOOLEAN
    PROVE  /\ Cleanup(i) \in Crops /\ Cleanup(i).image = i /\ Cleanup(i).cropper = 0
           /\ Cleanup(i).save = TRUE /\ Cleanup(i).ready = FALSE
           /\ NoCrop \in Crops /\ NoCrop.image = 0 /\ NoCrop.cropper = 0 /\ NoCrop.save = TRUE
           /\ InitCropper(crop) \in Crops /\ InitCropper(crop).image = crop.image
           /\ InitCropper(crop).cropper = crop.image /\ InitCropper(crop).save = crop.save
           /\ [crop EXCEPT !.ready = TRUE] \in Crops
           /\ [crop EXCEPT !.save = b] \in Crops
<1>1. crop \in Crops /\ 0 \in 0..MaxPicks  BY PageAssumption DEF ProfileTypeOK, Crops
<1>2. NoCrop \in Crops /\ NoCrop.image = 0 /\ NoCrop.cropper = 0 /\ NoCrop.save = TRUE
      /\ NoCrop.ready = FALSE
      BY <1>1 DEF NoCrop, Crops
<1>3. /\ Cleanup(i) \in Crops /\ Cleanup(i).image = i /\ Cleanup(i).cropper = 0
      /\ Cleanup(i).save = TRUE /\ Cleanup(i).ready = FALSE
      BY <1>2 DEF Cleanup, Crops
<1>4. /\ InitCropper(crop) \in Crops /\ InitCropper(crop).image = crop.image
      /\ InitCropper(crop).cropper = crop.image /\ InitCropper(crop).save = crop.save
      BY <1>1 DEF InitCropper, Crops
<1>5. [crop EXCEPT !.ready = TRUE] \in Crops /\ [crop EXCEPT !.save = b] \in Crops
      BY <1>1 DEF Crops
<1> QED BY <1>2, <1>3, <1>4, <1>5

\* A request that is sent comes after all others.
LEMMA SendAppends ==
    ASSUME ProfileTypeOK, NEW kind \in {"upload", "delete"}, NEW pick \in 0..MaxPicks,
           Send(kind, pick)
    PROVE  /\ Latest \in Nat /\ Latest' = Latest + 1 /\ Latest' \in 1..MaxRequests
           /\ requests' \in Seq(Requests) /\ waiting' = Latest'
           /\ requests'[Latest'].kind = kind /\ requests'[Latest'].pick = pick
           /\ requests'[Latest'].step = "sent"
           /\ \A r \in 1..Latest : requests'[r] = requests[r]
<1> DEFINE x == [kind |-> kind, pick |-> pick, step |-> "sent", previous |-> 0]
<1>1. requests \in Seq(Requests)  BY DEF ProfileTypeOK, Requests
<1>2. x \in Requests  BY PageAssumption DEF Requests, Steps
<1>3. /\ Len(requests) < MaxRequests /\ requests' = Append(requests, x)
      /\ waiting' = Len(requests')
      BY DEF Send
<1>4. x.kind = kind /\ x.pick = pick /\ x.step = "sent"  OBVIOUS
<1> HIDE DEF x
<1>5. /\ Len(requests) \in Nat /\ Len(requests') = Len(requests) + 1
      /\ requests' \in Seq(Requests) /\ requests'[Len(requests) + 1] = x
      /\ \A r \in 1..Len(requests) : requests'[r] = requests[r]
      BY <1>1, <1>2, <1>3
<1> QED BY <1>3, <1>4, <1>5, PageAssumption DEF Latest

\* A request that is served is still the same request.
LEMMA ServeMoves ==
    ASSUME ProfileTypeOK, NEW r \in Files, Serves(r)
    PROVE  /\ UNCHANGED <<dialogVars, profile, waiting, removable, mishap>>
           /\ r \in 1..Latest /\ Latest \in Nat /\ Latest' = Latest /\ requests' \in Seq(Requests)
           /\ requests[r] \in Requests /\ requests[r].step \notin Ended
           /\ \A s \in 1..Latest : s # r => requests'[s] = requests[s]
           /\ requests'[r].kind = requests[r].kind /\ requests'[r].pick = requests[r].pick
           /\ LET q == requests[r]
                  x == requests'[r]
              IN  \/ /\ q.step = "sent" /\ x.step = "drop" /\ x.previous = avatar
                     /\ UNCHANGED <<avatar, files>>
                  \/ q.step = "sent" /\ x.step = "refused" /\ UNCHANGED <<avatar, files>>
                  \/ x.step = "died" /\ UNCHANGED <<avatar, files>>
                  \/ /\ q.step = "drop" /\ x.previous = q.previous
                     /\ x.step = IF q.kind = "upload" THEN "store" ELSE "update"
                     /\ avatar' = avatar /\ files' = files \ {q.previous}
                  \/ /\ q.step = "store" /\ x.step = "update" /\ x.previous = q.previous
                     /\ avatar' = avatar /\ files' = files \cup {r}
                  \/ /\ q.step = "update" /\ x.step = "done" /\ files' = files
                     /\ avatar' = IF q.kind = "upload" THEN r
                                  ELSE IF q.previous = 0 THEN avatar ELSE 0
<1> DEFINE q == requests[r]
<1>1. /\ requests \in Seq(Requests) /\ avatar \in 0..MaxRequests
      BY DEF ProfileTypeOK, Requests
<1>2. r \in DOMAIN requests /\ q.step \notin Ended
      BY DEF Serves, Begin, Drop, Store, Update, Die, At, Ended
<1>3. /\ r \in 1..Len(requests) /\ Len(requests) \in Nat /\ q \in Requests
      BY <1>1, <1>2, LenProperties, ElementOfSeq
<1>4. ASSUME NEW x \in Requests, requests' = [requests EXCEPT ![r] = x]
      PROVE  /\ requests' \in Seq(Requests) /\ Len(requests') = Len(requests)
             /\ requests'[r] = x
             /\ \A s \in 1..Latest : s # r => requests'[s] = requests[s]
      BY <1>1, <1>3, <1>4, ExceptSeq DEF Latest
<1>5. ASSUME NEW step \in Steps
      PROVE  LET x == [q EXCEPT !.step = step]
             IN  /\ x \in Requests /\ x.kind = q.kind /\ x.pick = q.pick
                 /\ x.previous = q.previous /\ x.step = step
                 /\ [requests EXCEPT ![r].step = step] = [requests EXCEPT ![r] = x]
      BY <1>3 DEF Requests
<1>6. UNCHANGED <<dialogVars, profile, waiting, removable, mishap>>
      BY DEF Serves, Begin, Drop, Store, Update, Die
<1>7. ASSUME NEW step \in Steps, Go(r, step)
      PROVE  /\ requests' \in Seq(Requests) /\ Len(requests') = Len(requests)
             /\ \A s \in 1..Latest : s # r => requests'[s] = requests[s]
             /\ requests'[r].kind = q.kind /\ requests'[r].pick = q.pick
             /\ requests'[r].previous = q.previous /\ requests'[r].step = step
  <2> DEFINE x == [q EXCEPT !.step = step]
  <2>1. /\ x \in Requests /\ x.kind = q.kind /\ x.pick = q.pick
        /\ x.previous = q.previous /\ x.step = step
        /\ requests' = [requests EXCEPT ![r] = x]
        BY <1>5, <1>7 DEF Go
  <2> HIDE DEF x
  <2> QED BY <1>4, <2>1
<1> HIDE DEF q
<1>8. {"drop", "store", "update", "done", "refused", "died"} \subseteq Steps  BY DEF Steps
<1>9. CASE Begin(r)
  <2>1. q.step = "sent" /\ UNCHANGED <<avatar, files>>  BY <1>9 DEF Begin, At, q
  <2>2. CASE Go(r, "refused")  BY <1>2, <1>3, <1>6, <1>7, <1>8, <2>1, <2>2 DEF Latest, q
  <2>3. CASE requests' = [requests EXCEPT ![r].step = "drop", ![r].previous = avatar]
    <3> DEFINE x == [q EXCEPT !.step = "drop", !.previous = avatar]
    <3>1. /\ x \in Requests /\ x.kind = q.kind /\ x.pick = q.pick
          /\ x.previous = avatar /\ x.step = "drop"
          BY <1>1, <1>3, <1>8 DEF Requests
    <3>2. requests' = [requests EXCEPT ![r] = x]  BY <1>3, <2>3 DEF q
    <3> HIDE DEF x
    <3> QED BY <1>2, <1>3, <1>4, <1>6, <2>1, <3>1, <3>2 DEF Latest, q
  <2> QED BY <1>9, <2>2, <2>3 DEF Begin
<1>10. CASE Drop(r)
  <2>1. /\ q.step = "drop" /\ avatar' = avatar /\ files' = files \ {q.previous}
        /\ Go(r, IF q.kind = "upload" THEN "store" ELSE "update")
        BY <1>10 DEF Drop, At, q
  <2> QED BY <1>2, <1>3, <1>6, <1>7, <1>8, <2>1 DEF Latest, q
<1>11. CASE Store(r)
  <2>1. /\ q.step = "store" /\ avatar' = avatar /\ files' = files \cup {r} /\ Go(r, "update")
        BY <1>11 DEF Store, At, q
  <2> QED BY <1>2, <1>3, <1>6, <1>7, <1>8, <2>1 DEF Latest, q
<1>12. CASE Update(r)
  <2>1. /\ q.step = "update" /\ files' = files /\ Go(r, "done")
        /\ avatar' = IF q.kind = "upload" THEN r ELSE IF q.previous = 0 THEN avatar ELSE 0
        BY <1>12 DEF Update, At, q
  <2> QED BY <1>2, <1>3, <1>6, <1>7, <1>8, <2>1 DEF Latest, q
<1>13. CASE Die(r)
  <2>1. UNCHANGED <<avatar, files>> /\ Go(r, "died")  BY <1>13 DEF Die
  <2> QED BY <1>2, <1>3, <1>6, <1>7, <1>8, <2>1 DEF Latest, q
<1> QED BY <1>9, <1>10, <1>11, <1>12, <1>13 DEF Serves

-----------------------------------------------------------------------------
(* Each part is kept *)

\* Pictures, requests and files are numbered within their bounds, whatever the step.
LEMMA TypesStep == ASSUME ProfileTypeOK, PicturesOK, ProfileNext PROVE ProfileTypeOK'
<1> DEFINE Dialogs == {"hidden", "showing", "shown", "hiding"}
           DialogTyped == /\ dialog \in Dialogs /\ picker \in BOOLEAN /\ picks \in 0..MaxPicks
                          /\ encoding \in [Picks -> Nat] /\ crop \in Crops
           PageTyped == /\ profile \in Fields /\ waiting \in 0..MaxRequests
                        /\ removable \in BOOLEAN /\ mishap \subseteq Mishaps
           ServerTyped == /\ requests \in Seq(Requests)
                          /\ avatar \in 0..MaxRequests /\ files \subseteq Files
<1>1. DialogTyped /\ PageTyped /\ ServerTyped
      BY DEF ProfileTypeOK, Crops, Requests
<1>2. SUFFICES DialogTyped' /\ PageTyped' /\ ServerTyped'
      BY DEF ProfileTypeOK, Crops, Requests
<1>3. MaxPicks \in Nat /\ MaxRequests \in Nat /\ 0 \in 0..MaxPicks /\ 0 \in 0..MaxRequests
      BY PageAssumption
<1>4. {"late", "early", "stale", "lost", "overlap"} \subseteq Mishaps  BY DEF Mishaps
<1>5. CASE OpenPicker
      BY <1>1, <1>5 DEF OpenPicker, serverVars
<1>6. CASE Pick
  <2>1. UNCHANGED <<encoding, profile, waiting, serverVars, removable>> /\ picker' = FALSE
        BY <1>6 DEF Pick
  <2>2. CASE UNCHANGED <<picks, crop, dialog, mishap>>  BY <1>1, <2>1, <2>2 DEF serverVars
  <2>3. CASE /\ picks' = picks + 1
             /\ crop' = Cleanup(picks')
             /\ dialog' = IF dialog = "hidden" THEN "showing" ELSE dialog
             /\ mishap' = IF dialog = "shown" THEN mishap \cup {"late"} ELSE mishap
    <3>1. picks < MaxPicks  BY <1>6 DEF Pick, PicturesOK
    <3>2. picks' \in 0..MaxPicks  BY <1>1, <1>3, <2>3, <3>1
    <3>3. crop' \in Crops  BY <2>3, <3>2, CropFields
    <3> QED BY <1>1, <1>4, <2>1, <2>3, <3>2, <3>3 DEF serverVars
  <2> QED BY <1>6, <2>2, <2>3 DEF Pick
<1>7. CASE Shown
  <2>1. crop' \in Crops  BY <1>1, <1>3, <1>7, CropFields DEF Shown
  <2> QED BY <1>1, <1>7, <2>1 DEF Shown, serverVars
<1>8. CASE Ready
  <2>1. crop' \in Crops  BY <1>1, <1>3, <1>8, CropFields DEF Ready
  <2> QED BY <1>1, <1>8, <2>1 DEF Ready, serverVars
<1>9. CASE Dismiss  BY <1>1, <1>9 DEF Dismiss, serverVars
<1>10. CASE Hidden
  <2>1. crop' \in Crops  BY <1>3, <1>10, CropFields DEF Hidden
  <2> QED BY <1>1, <1>10, <2>1 DEF Hidden, serverVars
<1>11. CASE Save
  <2>1. crop' \in Crops  BY <1>1, <1>3, <1>11, CropFields DEF Save
  <2>2. encoding' \in [Picks -> Nat]
    <3>1. crop.cropper \in Picks  BY <1>1, <1>3, <1>11 DEF Save, Crops, Picks
    <3>2. encoding[crop.cropper] + 1 \in Nat  BY <1>1, <3>1
    <3> QED BY <1>1, <1>11, <3>1, <3>2 DEF Save
  <2> QED BY <1>1, <1>4, <1>11, <2>1, <2>2 DEF Save, serverVars
<1>12. ASSUME NEW kind \in {"upload", "delete"}, NEW pick \in 0..MaxPicks, Send(kind, pick)
       PROVE  ServerTyped' /\ profile' \in Fields /\ waiting' \in 0..MaxRequests
              /\ mishap' \subseteq Mishaps
  <2>1. requests' \in Seq(Requests) /\ waiting' \in 1..MaxRequests
        BY <1>12, SendAppends
  <2>2. /\ UNCHANGED <<avatar, files>> /\ profile' = [profile EXCEPT !.sent = "none"]
        /\ mishap' \subseteq mishap \cup {"overlap"}
        BY <1>12 DEF Send
  <2>3. profile' \in Fields  BY <1>1, <2>2 DEF Fields
  <2> QED BY <1>1, <1>4, <2>1, <2>2, <2>3
<1>13. ASSUME NEW p \in Picks, Blob(p) PROVE DialogTyped' /\ PageTyped' /\ ServerTyped'
  <2>1. /\ UNCHANGED <<dialog, picker, picks, removable>> /\ encoding[p] > 0
        /\ encoding' = [encoding EXCEPT ![p] = encoding[p] - 1]
        BY <1>13 DEF Blob
  <2>2. encoding' \in [Picks -> Nat]
    <3>1. encoding[p] - 1 \in Nat  BY <1>1, <2>1
    <3> QED BY <1>1, <2>1, <3>1
  <2>3. p \in 0..MaxPicks  BY DEF Picks
  <2>4. CASE Send("upload", p) /\ UNCHANGED crop  BY <1>1, <1>12, <2>1, <2>2, <2>3, <2>4
  <2>5. CASE /\ crop' = [crop EXCEPT !.save = TRUE]
             /\ mishap' = IF crop.cropper = p THEN mishap ELSE mishap \cup {"stale"}
             /\ UNCHANGED <<profile, waiting, serverVars>>
    <3>1. crop' \in Crops  BY <1>3, <2>5, CropFields
    <3> QED BY <1>1, <1>4, <2>1, <2>2, <2>5, <3>1 DEF serverVars
  <2> QED BY <1>13, <2>4, <2>5 DEF Blob
<1>14. CASE RemoveAvatar
  <2>1. Send("delete", 0) /\ UNCHANGED <<dialogVars, removable>>  BY <1>14 DEF RemoveAvatar
  <2> QED BY <1>1, <1>3, <1>12, <2>1 DEF dialogVars
<1>15. CASE ChangeProfile
  <2>1. PICK f \in {"kept", "changed"}, pw \in BOOLEAN :
          LET p == [profile EXCEPT !.field = f, !.password = pw]
          IN  profile' = [p EXCEPT !.button = HasProfileChanges(p)]
        BY <1>15 DEF ChangeProfile
  <2> DEFINE p == [profile EXCEPT !.field = f, !.password = pw]
  <2>2. p \in Fields  BY <1>1 DEF Fields
  <2>3. HasProfileChanges(p) \in BOOLEAN
    <3>1. p.password \in BOOLEAN  BY <2>2 DEF Fields
    <3> QED BY <3>1 DEF HasProfileChanges
  <2> HIDE DEF p
  <2>4. profile' \in Fields
    <3>1. profile' = [p EXCEPT !.button = HasProfileChanges(p)]  BY <2>1 DEF p
    <3> QED BY <2>2, <2>3, <3>1 DEF Fields
  <2> QED BY <1>1, <1>15, <2>4 DEF ChangeProfile, dialogVars, serverVars
<1>16. CASE SubmitProfile \/ Lose
  <2>1. /\ profile' = [profile EXCEPT !.sent = profile.field]
           \/ profile' = [profile EXCEPT !.sent = "none"]
        /\ waiting' = 0 /\ UNCHANGED <<dialogVars, serverVars, removable>>
        /\ mishap' \subseteq mishap \cup {"lost"}
        BY <1>16 DEF SubmitProfile, Lose
  <2>2. profile' \in Fields  BY <1>1, <2>1 DEF Fields
  <2> QED BY <1>1, <1>3, <1>4, <2>1, <2>2 DEF dialogVars, serverVars
<1>17. ASSUME NEW f \in {"kept", "changed"}, Load(f)
       PROVE  DialogTyped' /\ PageTyped' /\ ServerTyped'
  <2>1. crop' \in Crops  BY <1>3, <1>17, CropFields DEF Load
  <2>2. profile' \in Fields  BY <1>17 DEF Load, Fields
  <2>3. encoding' \in [Picks -> Nat]  BY <1>17 DEF Load
  <2> QED BY <1>1, <1>3, <1>17, <2>1, <2>2, <2>3 DEF Load, serverVars
<1>18. ASSUME NEW r \in Files, Serves(r) PROVE DialogTyped' /\ PageTyped' /\ ServerTyped'
  <2>1. UNCHANGED <<dialogVars, profile, waiting, removable, mishap>>
        /\ requests' \in Seq(Requests)
        BY <1>18, ServeMoves
  <2>2. avatar' \in {avatar, r, 0} /\ files' \subseteq files \cup {r}
        BY <1>18, ServeMoves
  <2>3. r \in 0..MaxRequests  BY DEF Files
  <2> QED BY <1>1, <1>3, <2>1, <2>2, <2>3 DEF dialogVars
<1> HIDE DEF DialogTyped, PageTyped, ServerTyped
<1> QED BY <1>5, <1>6, <1>7, <1>8, <1>9, <1>10, <1>11, <1>13, <1>14, <1>15, <1>16, <1>17, <1>18,
           ProfileSteps

\* A cropper is made for the picture shown, and cleanup takes both away.
LEMMA PicturesStep == ASSUME ProfileTypeOK, PicturesOK, ProfileNext PROVE PicturesOK'
<1>1. /\ picks \in 0..MaxPicks /\ crop \in Crops /\ crop.image \in 0..MaxPicks /\ MaxPicks \in Nat
      /\ 0 \in 0..MaxPicks
      BY PageAssumption DEF ProfileTypeOK, Crops
<1>2. CASE OpenPicker  BY <1>2 DEF OpenPicker, PicturesOK
<1>3. CASE Pick
  <2>1. picker' = FALSE  BY <1>3 DEF Pick
  <2>2. CASE UNCHANGED <<picks, crop, dialog>>  BY <2>1, <2>2 DEF PicturesOK
  <2>3. CASE /\ picks' = picks + 1
             /\ crop' = Cleanup(picks')
    <3>1. picks' \in 0..MaxPicks /\ picks' # 0  BY <1>1, <1>3, <2>3 DEF Pick, PicturesOK
    <3>2. crop'.image = picks' /\ crop'.cropper = 0 /\ crop'.save = TRUE
          BY <2>3, <3>1, CropFields
    <3> QED BY <1>1, <2>1, <3>1, <3>2 DEF PicturesOK
  <2> QED BY <1>3, <2>2, <2>3 DEF Pick
<1>4. CASE Shown
  <2>1. /\ UNCHANGED <<picker, picks>> /\ dialog' = "shown" /\ crop.image # 0
        /\ crop' = InitCropper(crop)
        BY <1>4 DEF Shown, PicturesOK
  <2> QED BY <1>1, <2>1, CropFields DEF PicturesOK
<1>5. CASE Ready \/ Dismiss
  <2>1. /\ UNCHANGED <<picker, picks>> /\ dialog' \in {dialog, "hiding"}
        /\ crop' \in {crop, [crop EXCEPT !.ready = TRUE]}
        BY <1>5 DEF Ready, Dismiss
  <2>2. crop'.image = crop.image /\ crop'.cropper = crop.cropper /\ crop'.save = crop.save
        BY <1>1, <2>1 DEF Crops
  <2> QED BY <2>1, <2>2 DEF PicturesOK
<1>6. CASE Hidden \/ \E f \in {"kept", "changed"} : Load(f)
  <2>1. /\ crop' = Cleanup(0) \/ crop' = NoCrop
        /\ picks' = picks /\ (picker' => picker) /\ dialog' = "hidden"
        BY <1>6 DEF Hidden, Load
  <2>2. crop'.image = 0 /\ crop'.cropper = 0 /\ crop'.save = TRUE
        BY <1>1, <2>1, CropFields
  <2> QED BY <1>1, <2>1, <2>2 DEF PicturesOK
<1>7. CASE Save \/ \E p \in Picks : Blob(p)
  <2>1. /\ UNCHANGED <<dialog, picker, picks>>
        /\ \/ crop' = crop
           \/ crop.cropper # 0 /\ crop' = [crop EXCEPT !.save = FALSE]
           \/ crop' = [crop EXCEPT !.save = TRUE]
        BY <1>7 DEF Save, Blob
  <2>2. /\ crop'.image = crop.image /\ crop'.cropper = crop.cropper
        /\ crop'.cropper = 0 => crop'.save = crop.save \/ crop'.save = TRUE
        BY <1>1, <2>1 DEF Crops
  <2> QED BY <2>1, <2>2 DEF PicturesOK
<1>8. CASE UNCHANGED dialogVars  BY <1>8 DEF dialogVars, PicturesOK
<1>9. RemoveAvatar \/ ChangeProfile \/ SubmitProfile \/ Lose => UNCHANGED dialogVars
      BY DEF RemoveAvatar, ChangeProfile, SubmitProfile, Lose
<1> QED BY <1>2, <1>3, <1>4, <1>5, <1>6, <1>7, <1>8, <1>9, ProfileSteps, ServeMoves

\* The dialog: a picture brings a fresh cropper, a press of Save starts an encoding,
\* and an encoding ends with a request under way or with Save enabled.
LEMMA DialogStep ==
    ASSUME ProfileTypeOK, PicturesOK, DialogCanBeSaved, ProfileNext
    PROVE  DialogCanBeSaved'
<1> DEFINE Marked(m) == m \cap {"late", "early", "lost"} # {}
<1>1. /\ crop \in Crops /\ encoding \in [Picks -> Nat] /\ mishap \subseteq Mishaps
      /\ MaxPicks \in Nat /\ picks \in 0..MaxPicks
      BY PageAssumption DEF ProfileTypeOK, Crops
<1>2. SUFFICES ASSUME dialog' = "shown", ~Marked(mishap')
               PROVE  /\ crop'.image # 0 /\ crop'.cropper = crop'.image
                      /\ crop'.save \/ encoding'[crop'.cropper] > 0 \/ waiting' # 0
      BY DEF DialogCanBeSaved
<1>3. ASSUME dialog = "shown", ~Marked(mishap)
      PROVE  /\ crop.image # 0 /\ crop.cropper = crop.image
             /\ crop.save \/ encoding[crop.cropper] > 0 \/ waiting # 0
      BY <1>3 DEF DialogCanBeSaved
<1>4. CASE UNCHANGED <<dialog, crop, encoding, waiting, mishap>>
      BY <1>2, <1>3, <1>4
<1>5. OpenPicker \/ (ChangeProfile /\ dialog = "hidden") =>
          UNCHANGED <<dialog, crop, encoding, waiting, mishap>>
      BY DEF OpenPicker, ChangeProfile, dialogVars
<1>6. CASE Pick
  <2>1. CASE UNCHANGED <<dialog, crop, encoding, waiting, mishap>>  BY <1>4, <2>1
  <2>2. CASE /\ dialog' = IF dialog = "hidden" THEN "showing" ELSE dialog
             /\ mishap' = IF dialog = "shown" THEN mishap \cup {"late"} ELSE mishap
        BY <1>2, <2>2
  <2> QED BY <1>6, <2>1, <2>2 DEF Pick
<1>7. CASE Shown
  <2>1. crop.image # 0 /\ crop.cropper = 0 /\ crop.save /\ crop' = InitCropper(crop)
        BY <1>7 DEF Shown, PicturesOK
  <2> QED BY <1>1, <2>1, CropFields
<1>8. CASE Ready
  <2>1. /\ UNCHANGED <<dialog, encoding, waiting, mishap>>
        /\ crop' = [crop EXCEPT !.ready = TRUE]
        BY <1>8 DEF Ready
  <2>2. crop'.image = crop.image /\ crop'.cropper = crop.cropper /\ crop'.save = crop.save
        BY <1>1, <2>1 DEF Crops
  <2> QED BY <1>2, <1>3, <2>1, <2>2
<1>9. Dismiss \/ Hidden \/ (\E f \in {"kept", "changed"} : Load(f)) => dialog' # "shown"
      BY DEF Dismiss, Hidden, Load
<1>10. CASE Save
  <2>1. /\ dialog = "shown" /\ crop.cropper # 0 /\ crop' = [crop EXCEPT !.save = FALSE]
        /\ crop.ready /\ encoding' = [encoding EXCEPT ![crop.cropper] = @ + 1]
        /\ mishap' = mishap
        BY <1>2, <1>10 DEF Save
  <2>2. crop'.image = crop.image /\ crop'.cropper = crop.cropper
        BY <1>1, <2>1 DEF Crops
  <2>3. crop.cropper \in Picks  BY <1>1, <2>1 DEF Crops, Picks
  <2>4. encoding'[crop.cropper] > 0  BY <1>1, <2>1, <2>3
  <2> QED BY <1>2, <1>3, <2>1, <2>2, <2>4
<1>11. ASSUME NEW p \in Picks, Blob(p)
       PROVE  /\ crop'.image # 0 /\ crop'.cropper = crop'.image
              /\ crop'.save \/ waiting' # 0
  <2>1. dialog' = dialog  BY <1>11 DEF Blob
  <2>2. CASE Send("upload", p) /\ UNCHANGED crop
    <3>1. p \in 0..MaxPicks  BY DEF Picks
    <3>2. waiting' # 0  BY <2>2, <3>1, SendAppends, PageAssumption
    <3>3. mishap \subseteq mishap'  BY <2>2 DEF Send
    <3> QED BY <1>2, <1>3, <2>1, <2>2, <3>2, <3>3
  <2>3. CASE /\ crop' = [crop EXCEPT !.save = TRUE]
             /\ mishap' = IF crop.cropper = p THEN mishap ELSE mishap \cup {"stale"}
    <3>1. crop'.image = crop.image /\ crop'.cropper = crop.cropper /\ crop'.save
          BY <1>1, <2>3 DEF Crops
    <3> QED BY <1>2, <1>3, <2>1, <2>3, <3>1
  <2> QED BY <1>11, <2>2, <2>3 DEF Blob
<1>12. CASE RemoveAvatar \/ ChangeProfile \/ SubmitProfile
       BY <1>2, <1>12 DEF RemoveAvatar, ChangeProfile, SubmitProfile, dialogVars
<1>13. CASE Lose  BY <1>2, <1>13 DEF Lose, dialogVars
<1>14. ASSUME NEW r \in Files, Serves(r)
       PROVE  UNCHANGED <<dialog, crop, encoding, waiting, mishap>>
       BY <1>14, ServeMoves DEF dialogVars
<1> QED BY <1>2, <1>4, <1>5, <1>6, <1>7, <1>8, <1>9, <1>10, <1>11, <1>12, <1>13, <1>14,
           ProfileSteps

\* A request that is sent takes its picture, and no other, from those not uploaded yet.
LEMMA UploadsStep ==
    ASSUME ProfileTypeOK, PicturesOK, UploadsOK, ProfileNext
    PROVE  UploadsOK'
<1>1. /\ crop \in Crops /\ encoding \in [Picks -> Nat] /\ mishap \subseteq Mishaps
      /\ MaxPicks \in Nat /\ 0 \in 0..MaxPicks /\ picks \in 0..MaxPicks
      /\ requests \in Seq(Requests)
      /\ crop.image \in 0..picks /\ crop.cropper \in {0, crop.image}
      /\ crop.save \in BOOLEAN
      BY PageAssumption DEF ProfileTypeOK, Crops, Requests, PicturesOK
<1>2. Picks \subseteq Int /\ \A p \in Picks : p # 0 /\ encoding[p] \in Nat
      BY <1>1 DEF Picks
<1>3. DOMAIN requests = 1..Latest /\ Latest \in Nat  BY <1>1, LenProperties DEF Latest
<1>4. ASSUME "stale" \in mishap => "stale" \in mishap',
             \A p \in Picks : encoding'[p] \in {0, encoding[p]},
             \A p \in Picks : Uploads(p)' = Uploads(p),
             \A p \in Picks : MaySave(p)' => MaySave(p)
      PROVE  UploadsOK'
  <2>1. SUFFICES ASSUME "stale" \notin mishap', NEW p \in Picks
                 PROVE  /\ encoding'[p] > 0 => encoding'[p] = 1 /\ Uploads(p)' = {}
                        /\ \A r, s \in Uploads(p)' : r = s
                        /\ MaySave(p)' => encoding'[p] = 0 /\ Uploads(p)' = {}
        BY DEF UploadsOK, Unused
  <2>2. /\ encoding[p] > 0 => encoding[p] = 1 /\ Uploads(p) = {}
        /\ \A r, s \in Uploads(p) : r = s
        /\ MaySave(p) => encoding[p] = 0 /\ Uploads(p) = {}
        BY <1>4, <2>1 DEF UploadsOK, Unused
  <2> QED BY <1>2, <1>4, <2>2
<1>5. ASSUME UNCHANGED requests PROVE \A p \in Picks : Uploads(p)' = Uploads(p)
      BY <1>5 DEF Uploads
<1>6. ASSUME UNCHANGED <<picks, crop>> PROVE \A p \in Picks : MaySave(p)' => MaySave(p)
      BY <1>6 DEF MaySave
<1>7. CASE OpenPicker \/ Dismiss \/ ChangeProfile \/ SubmitProfile \/ Lose
  <2>1. UNCHANGED <<picks, crop, encoding, requests>> /\ mishap \subseteq mishap'
        BY <1>7 DEF OpenPicker, Dismiss, ChangeProfile, SubmitProfile, Lose, dialogVars, serverVars
  <2> QED BY <1>4, <1>5, <1>6, <2>1
<1>8. CASE Pick
  <2>1. UNCHANGED <<encoding, requests>> /\ mishap \subseteq mishap'
        BY <1>8 DEF Pick, serverVars
  <2>2. \A p \in Picks : MaySave(p)' => MaySave(p)
    <3>1. CASE UNCHANGED <<picks, crop>>  BY <1>6, <3>1
    <3>2. CASE picks' = picks + 1 /\ crop' = Cleanup(picks')
      <4>1. picks' \in 0..MaxPicks  BY <1>1, <1>8, <3>2 DEF Pick, PicturesOK
      <4>2. crop'.image = picks'  BY <3>2, <4>1, CropFields
      <4> QED BY <1>1, <1>2, <3>2, <4>2 DEF MaySave
    <3> QED BY <1>8, <3>1, <3>2 DEF Pick
  <2> QED BY <1>4, <1>5, <2>1, <2>2
<1>9. CASE Shown
  <2>1. /\ UNCHANGED <<picks, encoding, requests, mishap>> /\ crop' = InitCropper(crop)
        /\ crop.cropper = 0
        BY <1>9 DEF Shown, PicturesOK, serverVars
  <2>2. \A p \in Picks : MaySave(p)' => MaySave(p)  BY <1>1, <2>1, CropFields DEF MaySave
  <2> QED BY <1>4, <1>5, <2>1, <2>2
<1>10. CASE Ready
  <2>1. /\ UNCHANGED <<picks, encoding, requests, mishap>>
        /\ crop' = [crop EXCEPT !.ready = TRUE]
        BY <1>10 DEF Ready, serverVars
  <2>2. crop'.image = crop.image /\ crop'.cropper = crop.cropper /\ crop'.save = crop.save
        BY <1>1, <2>1 DEF Crops
  <2>3. \A p \in Picks : MaySave(p)' => MaySave(p)  BY <2>1, <2>2 DEF MaySave
  <2> QED BY <1>4, <1>5, <2>1, <2>3
<1>11. CASE Hidden \/ \E f \in {"kept", "changed"} : Load(f)
  <2>1. /\ crop' = Cleanup(0) \/ crop' = NoCrop
        /\ UNCHANGED <<picks, requests>>
        /\ \A p \in Picks : encoding'[p] \in {0, encoding[p]}
        /\ "stale" \in mishap => "stale" \in mishap'
        BY <1>11 DEF Hidden, Load, serverVars
  <2>2. crop'.image = 0  BY <1>1, <2>1, CropFields
  <2>3. \A p \in Picks : MaySave(p)' => MaySave(p)  BY <1>2, <2>1, <2>2 DEF MaySave
  <2> QED BY <1>4, <1>5, <2>1, <2>3
<1>12. CASE Save
  <2> DEFINE c == crop.cropper
  <2>1. /\ crop.save /\ c # 0 /\ UNCHANGED <<picks, requests>>
        /\ crop' = [crop EXCEPT !.save = FALSE] /\ mishap \subseteq mishap'
        BY <1>12 DEF Save, serverVars
  <2>2. crop'.image = crop.image /\ crop'.cropper = c /\ crop'.save = FALSE
        BY <1>1, <2>1 DEF Crops
  <2>3. c \in Picks /\ c = crop.image /\ MaySave(c)
    <3>1. c = crop.image  BY <1>1, <2>1
    <3>2. c \in Picks  BY <1>1, <2>1, <3>1 DEF Picks
    <3> QED BY <2>1, <3>1, <3>2 DEF MaySave
  <2>4. \A p \in Picks : MaySave(p)' => MaySave(p) /\ p # c
    <3>1. \A p \in Picks : MaySave(p)' => p > picks  BY <2>1, <2>2 DEF MaySave
    <3>2. ~(c > picks)  BY <1>1, <2>3
    <3> QED BY <3>1, <3>2 DEF MaySave
  <2>5. CASE encoding' = encoding  BY <1>4, <1>5, <2>1, <2>4, <2>5
  <2>6. CASE encoding' = [encoding EXCEPT ![c] = @ + 1]
    <3>1. SUFFICES ASSUME "stale" \notin mishap', NEW p \in Picks
                   PROVE  /\ encoding'[p] > 0 => encoding'[p] = 1 /\ Uploads(p)' = {}
                          /\ \A r, s \in Uploads(p)' : r = s
                          /\ MaySave(p)' => encoding'[p] = 0 /\ Uploads(p)' = {}
          BY DEF UploadsOK, Unused
    <3>2. /\ encoding[p] > 0 => encoding[p] = 1 /\ Uploads(p) = {}
          /\ \A r, s \in Uploads(p) : r = s
          /\ MaySave(p) => encoding[p] = 0 /\ Uploads(p) = {}
          BY <2>1, <3>1 DEF UploadsOK, Unused
    <3>3. Uploads(p)' = Uploads(p)  BY <1>5, <2>1
    <3>4. encoding'[p] = IF p = c THEN encoding[p] + 1 ELSE encoding[p]
          BY <1>1, <2>3, <2>6
    <3> QED BY <1>2, <2>3, <2>4, <3>2, <3>3, <3>4
  <2> QED BY <1>12, <2>5, <2>6 DEF Save
<1>13. ASSUME NEW kind \in {"upload", "delete"}, NEW pick \in 0..MaxPicks, Send(kind, pick)
       PROVE  /\ mishap \subseteq mishap'
              /\ \A p \in Picks : Uploads(p)' = IF p = pick THEN Uploads(p) \cup {Latest'}
                                                ELSE Uploads(p)
  <2>1. mishap \subseteq mishap'  BY <1>13 DEF Send
  <2>2. /\ Latest' = Latest + 1 /\ requests' \in Seq(Requests)
        /\ requests'[Latest'].pick = pick
        /\ \A r \in 1..Latest : requests'[r] = requests[r]
        BY <1>13, SendAppends
  <2>3. DOMAIN requests' = 1..Latest'  BY <2>2, LenProperties DEF Latest
  <2>4. DOMAIN requests' = 1..Latest \cup {Latest'} /\ Latest' \notin 1..Latest
        BY <1>3, <2>2, <2>3
  <2>5. ASSUME NEW p \in Picks
        PROVE  Uploads(p)' = IF p = pick THEN Uploads(p) \cup {Latest'} ELSE Uploads(p)
        BY <1>3, <2>2, <2>4 DEF Uploads
  <2> QED BY <2>1, <2>5
<1>14. ASSUME NEW c \in Picks, Blob(c) PROVE UploadsOK'
  <2>1. /\ encoding[c] > 0 /\ encoding' = [encoding EXCEPT ![c] = @ - 1] /\ picks' = picks
        BY <1>14 DEF Blob
  <2>2. SUFFICES ASSUME "stale" \notin mishap', NEW p \in Picks
                 PROVE  /\ encoding'[p] > 0 => encoding'[p] = 1 /\ Uploads(p)' = {}
                        /\ \A r, s \in Uploads(p)' : r = s
                        /\ MaySave(p)' => encoding'[p] = 0 /\ Uploads(p)' = {}
        BY DEF UploadsOK, Unused
  <2>3. ASSUME "stale" \notin mishap, NEW o \in Picks
        PROVE  /\ encoding[o] > 0 => encoding[o] = 1 /\ Uploads(o) = {}
               /\ \A r, s \in Uploads(o) : r = s
               /\ MaySave(o) => encoding[o] = 0 /\ Uploads(o) = {}
        BY <2>3 DEF UploadsOK, Unused
  <2>4. encoding'[p] = IF p = c THEN encoding[p] - 1 ELSE encoding[p]
        BY <1>1, <2>1
  <2>5. CASE Send("upload", c) /\ UNCHANGED crop
    <3>1. c \in 0..MaxPicks  BY DEF Picks
    <3>2. /\ "stale" \notin mishap
          /\ Uploads(p)' = IF p = c THEN Uploads(p) \cup {Latest'} ELSE Uploads(p)
          BY <1>13, <2>2, <2>5, <3>1
    <3>3. MaySave(p)' => MaySave(p)  BY <1>6, <2>1, <2>5
    <3> QED BY <1>2, <2>1, <2>3, <2>4, <3>2, <3>3
  <2>6. CASE /\ crop' = [crop EXCEPT !.save = TRUE]
             /\ mishap' = IF crop.cropper = c THEN mishap ELSE mishap \cup {"stale"}
             /\ UNCHANGED serverVars
    <3>1. "stale" \notin mishap /\ crop.cropper = c /\ crop.image = c
          BY <1>1, <1>2, <2>2, <2>6
    <3>2. Uploads(p)' = Uploads(p)  BY <1>5, <2>6 DEF serverVars
    <3>3. crop'.image = crop.image  BY <1>1, <2>6 DEF Crops
    <3>4. MaySave(p)' => MaySave(p) \/ p = c  BY <2>1, <3>1, <3>3 DEF MaySave
    <3> QED BY <1>2, <2>1, <2>3, <2>4, <3>1, <3>2, <3>4
  <2> QED BY <1>14, <2>5, <2>6 DEF Blob
<1>15. CASE RemoveAvatar
  <2>1. Send("delete", 0) /\ UNCHANGED dialogVars  BY <1>15 DEF RemoveAvatar
  <2>2. mishap \subseteq mishap' /\ \A p \in Picks : Uploads(p)' = Uploads(p)
        BY <1>1, <1>2, <1>13, <2>1
  <2> QED BY <1>4, <1>6, <2>1, <2>2 DEF dialogVars
<1>16. ASSUME NEW r \in Files, Serves(r) PROVE UploadsOK'
  <2>1. /\ UNCHANGED <<dialogVars, mishap>> /\ requests' \in Seq(Requests) /\ Latest' = Latest
        /\ r \in 1..Latest /\ requests'[r].pick = requests[r].pick
        /\ \A s \in 1..Latest : s # r => requests'[s] = requests[s]
        BY <1>16, ServeMoves
  <2>2. DOMAIN requests' = DOMAIN requests  BY <1>3, <2>1, LenProperties DEF Latest
  <2>3. \A s \in DOMAIN requests : requests'[s].pick = requests[s].pick  BY <1>3, <2>1
  <2>4. \A p \in Picks : Uploads(p)' = Uploads(p)  BY <2>2, <2>3 DEF Uploads
  <2> QED BY <1>4, <1>6, <2>1, <2>4 DEF dialogVars
<1> QED BY <1>7, <1>8, <1>9, <1>10, <1>11, <1>12, <1>14, <1>15, <1>16, ProfileSteps

\* The largest element is the one no other exceeds.
LEMMA MaxIs ==
    ASSUME NEW S \in SUBSET Nat, NEW m \in S, \A s \in S : s <= m
    PROVE  Max(S) = m
<1>1. \E x \in S : \A y \in S : x >= y  OBVIOUS
<1>2. Max(S) \in S /\ \A y \in S : Max(S) >= y  BY <1>1 DEF Max
<1>3. Max(S) \in Nat /\ m \in Nat  BY <1>2
<1>4. Max(S) <= m /\ Max(S) >= m  BY <1>2
<1> QED BY <1>3, <1>4

\* What is intended depends only on which requests are done, and on their kind.
LEMMA IntendedStays ==
    ASSUME Carried' = Carried, \A r \in Carried : requests'[r].kind = requests[r].kind
    PROVE  Intended' = Intended
<1>1. Max(Carried') = Max(Carried) BY Zenon
<1>2. (\E r \in Carried' : requests'[r].kind = "upload" /\ r = Max(Carried'))
        <=> \E r \in Carried : requests[r].kind = "upload" /\ r = Max(Carried)
      BY <1>1
<1> QED BY <1>1, <1>2 DEF Intended

\* Without overlap a request is only sent when the disk holds what is intended, and
\* each of the steps that serve it takes disk and row one step further.
LEMMA AvatarStep == ASSUME ProfileTypeOK, AvatarOK, ProfileNext PROVE AvatarOK'
<1>1. /\ requests \in Seq(Requests) /\ avatar \in 0..MaxRequests /\ files \subseteq Files
      /\ mishap \subseteq Mishaps /\ MaxPicks \in Nat /\ 0 \in 0..MaxPicks
      BY PageAssumption DEF ProfileTypeOK, Requests
<1>2. /\ DOMAIN requests = 1..Latest /\ Latest \in Nat
      /\ \A r \in 1..Latest : requests[r] \in Requests
      BY <1>1, LenProperties, ElementOfSeq DEF Latest
<1>3. ASSUME UNCHANGED serverVars, "overlap" \in mishap => "overlap" \in mishap'
      PROVE  AvatarOK'
      BY <1>3 DEF serverVars, AvatarOK, OneByOne, Undied, LatestOK, Stored, Intended, Carried,
                  Latest
<1>4. ASSUME NEW kind \in {"upload", "delete"}, NEW pick \in 0..MaxPicks, Send(kind, pick)
      PROVE  AvatarOK'
  <2>1. /\ Latest' = Latest + 1 /\ requests' \in Seq(Requests)
        /\ requests'[Latest'].step = "sent"
        /\ \A r \in 1..Latest : requests'[r] = requests[r]
        BY <1>4, SendAppends
  <2>2. /\ mishap' = IF \A r \in DOMAIN requests : requests[r].step \in Ended
                     THEN mishap ELSE mishap \cup {"overlap"}
        /\ UNCHANGED <<avatar, files>>
        BY <1>4 DEF Send
  <2>3. SUFFICES ASSUME "overlap" \notin mishap' PROVE OneByOne' /\ (Undied' => LatestOK')
        BY DEF AvatarOK
  <2>4. /\ "overlap" \notin mishap
        /\ \A r \in 1..Latest : requests[r].step \in Ended
        /\ Undied => LatestOK
        BY <1>2, <2>2, <2>3 DEF AvatarOK
  <2>5. \A r \in 1..Latest' : r < Latest' => r \in 1..Latest  BY <1>2, <2>1
  <2>6. OneByOne'  BY <2>1, <2>4, <2>5 DEF OneByOne
  <2>7. ASSUME Undied' PROVE LatestOK'
    <3>1. \A r \in 1..Latest : r \in 1..Latest'  BY <1>2, <2>1
    <3>2. Undied  BY <2>1, <2>7, <3>1 DEF Undied
    <3>3. Latest # 0 => Latest \in 1..Latest  BY <1>2
    <3>4. Latest = 0 \/ requests[Latest].step \in {"done", "refused"}
          BY <2>4, <3>2, <3>3 DEF Undied, Ended
    <3>5. Stored  BY <2>4, <3>2, <3>4 DEF LatestOK
    <3>6. DOMAIN requests' = 1..Latest'  BY <2>1, LenProperties DEF Latest
    <3>7. DOMAIN requests' = 1..Latest \cup {Latest'}  BY <1>2, <2>1, <3>6
    <3>8. Carried' = Carried  BY <1>2, <2>1, <3>7 DEF Carried
    <3>9. Carried \subseteq 1..Latest  BY <1>2 DEF Carried
    <3>10. Intended' = Intended  BY <2>1, <3>8, <3>9, IntendedStays
    <3>11. Stored'  BY <2>2, <3>5, <3>10 DEF Stored
    <3> QED BY <2>1, <3>11 DEF LatestOK
  <2> QED BY <2>6, <2>7
<1>5. ASSUME NEW r \in Files, Serves(r) PROVE AvatarOK'
  <2> DEFINE q == requests[r]
             x == requests'[r]
  <2>1. /\ UNCHANGED mishap /\ Latest' = Latest /\ r \in 1..Latest
        /\ requests' \in Seq(Requests) /\ q \in Requests /\ q.step \notin Ended
        /\ \A s \in 1..Latest : s # r => requests'[s] = requests[s]
        /\ x.kind = q.kind
        BY <1>5, ServeMoves
  <2>2. SUFFICES ASSUME "overlap" \notin mishap' PROVE OneByOne' /\ (Undied' => LatestOK')
        BY DEF AvatarOK
  <2>3. OneByOne /\ (Undied => LatestOK)  BY <2>1, <2>2 DEF AvatarOK
  <2>4. r = Latest  BY <1>2, <2>1, <2>3 DEF OneByOne
  <2>5. OneByOne'  BY <2>1, <2>3, <2>4 DEF OneByOne
  <2>6. SUFFICES ASSUME Undied' PROVE LatestOK'  BY <2>5
  <2>7. x.step # "died"  BY <2>1, <2>6 DEF Undied
  <2>8. Undied  BY <2>1, <2>6 DEF Undied, Ended
  <2>9. /\ q.step = "sent" => Stored
        /\ q.step # "sent" => /\ avatar = Intended /\ q.previous = avatar
                              /\ \/ q.step = "drop" /\ files = {avatar} \ {0}
                                 \/ q.step = "store" /\ files = {} /\ q.kind = "upload"
                                 \/ /\ q.step = "update"
                                    /\ files = IF q.kind = "upload" THEN {Latest} ELSE {}
    <3>1. LatestOK /\ Latest # 0 /\ q.step \notin {"done", "refused"}
          BY <1>2, <2>1, <2>3, <2>8 DEF Ended
    <3> QED BY <2>4, <3>1 DEF LatestOK
  <2>10. /\ DOMAIN requests' = 1..Latest /\ Carried = {s \in 1..Latest : requests[s].step = "done"}
         /\ Carried' = {s \in 1..Latest : requests'[s].step = "done"}
    <3>1. DOMAIN requests' = 1..Latest'  BY <2>1, LenProperties DEF Latest
    <3> QED BY <1>2, <2>1, <3>1 DEF Carried
  <2>11. r \notin Carried /\ \A s \in Carried : requests'[s].kind = requests[s].kind
         BY <2>1, <2>10 DEF Ended
  <2>12. ASSUME x.step # "done" PROVE Intended' = Intended
    <3>1. Carried' = Carried  BY <2>1, <2>10, <2>11, <2>12
    <3> QED BY <2>11, <3>1, IntendedStays
  <2>13. ASSUME x.step = "done" PROVE Intended' = IF q.kind = "upload" THEN r ELSE 0
    <3>1. Carried' = Carried \cup {r}  BY <2>1, <2>10, <2>13
    <3>2. Carried' \in SUBSET Nat /\ r \in Carried' /\ \A s \in Carried' : s <= r
          BY <1>2, <2>4, <2>10, <3>1
    <3>3. Max(Carried') = r  BY <3>2, MaxIs
    <3> QED BY <2>1, <3>2, <3>3 DEF Intended
  <2>14. /\ x.step \in {"sent", "done", "refused"} /\ Stored' => LatestOK'
         /\ (/\ avatar' = Intended' /\ x.previous = avatar'
             /\ \/ x.step = "drop" /\ files' = {avatar'} \ {0}
                \/ x.step = "store" /\ files' = {} /\ x.kind = "upload"
                \/ x.step = "update" /\ files' = IF x.kind = "upload" THEN {r} ELSE {})
               => LatestOK'
         BY <2>1, <2>4 DEF LatestOK
  <2>15. \/ /\ q.step = "sent" /\ x.step = "drop" /\ x.previous = avatar
            /\ UNCHANGED <<avatar, files>>
         \/ q.step = "sent" /\ x.step = "refused" /\ UNCHANGED <<avatar, files>>
         \/ /\ q.step = "drop" /\ x.previous = q.previous
            /\ x.step = IF q.kind = "upload" THEN "store" ELSE "update"
            /\ avatar' = avatar /\ files' = files \ {q.previous}
         \/ /\ q.step = "store" /\ x.step = "update" /\ x.previous = q.previous
            /\ avatar' = avatar /\ files' = files \cup {r}
         \/ /\ q.step = "update" /\ x.step = "done" /\ files' = files
            /\ avatar' = IF q.kind = "upload" THEN r
                         ELSE IF q.previous = 0 THEN avatar ELSE 0
         BY <1>5, <2>7, ServeMoves
  <2>16. r # 0  BY <1>2, <2>1
  <2> HIDE DEF q, x
  <2>17. CASE q.step = "sent"
    <3>1. x.step \in {"drop", "refused"} /\ UNCHANGED <<avatar, files>>
          /\ (x.step = "drop" => x.previous = avatar)
          BY <2>15, <2>17
    <3>2. Stored /\ Intended' = Intended  BY <2>9, <2>12, <2>17, <3>1
    <3> QED BY <2>14, <3>1, <3>2 DEF Stored
  <2>18. CASE q.step = "drop"
    <3>1. /\ x.previous = avatar /\ avatar' = avatar /\ files' = {}
          /\ x.step = IF x.kind = "upload" THEN "store" ELSE "update"
          BY <2>1, <2>9, <2>15, <2>18
    <3>2. avatar = Intended /\ Intended' = Intended  BY <2>9, <2>12, <2>18, <3>1
    <3> QED BY <2>14, <3>1, <3>2
  <2>19. CASE q.step = "store"
    <3>1. /\ x.previous = avatar /\ avatar' = avatar /\ files' = {r}
          /\ x.step = "update" /\ x.kind = "upload"
          BY <2>1, <2>9, <2>15, <2>19
    <3>2. avatar = Intended /\ Intended' = Intended  BY <2>9, <2>12, <2>19, <3>1
    <3> QED BY <2>14, <3>1, <3>2
  <2>20. CASE q.step = "update"
    <3>1. /\ x.step = "done" /\ avatar' = IF q.kind = "upload" THEN r ELSE 0
          /\ files' = IF q.kind = "upload" THEN {r} ELSE {}
          BY <2>4, <2>9, <2>15, <2>20
    <3>2. avatar' = Intended'  BY <2>13, <3>1
    <3>3. files' = {avatar'} \ {0}  BY <2>16, <3>1
    <3> QED BY <2>14, <3>1, <3>2, <3>3 DEF Stored
  <2> QED BY <2>15, <2>17, <2>18, <2>19, <2>20
<1>6. OpenPicker \/ Pick \/ Shown \/ Ready \/ Dismiss \/ Hidden \/ Save =>
          UNCHANGED serverVars /\ ("overlap" \in mishap => "overlap" \in mishap')
      BY DEF OpenPicker, Pick, Shown, Ready, Dismiss, Hidden, Save
<1>7. ChangeProfile \/ SubmitProfile \/ Lose \/ (\E f \in {"kept", "changed"} : Load(f)) =>
          UNCHANGED serverVars /\ ("overlap" \in mishap => "overlap" \in mishap')
      BY DEF ChangeProfile, SubmitProfile, Lose, Load
<1>8. ASSUME NEW p \in Picks, Blob(p) PROVE AvatarOK'
  <2>1. p \in 0..MaxPicks  BY DEF Picks
  <2>2. \/ Send("upload", p)
        \/ UNCHANGED serverVars /\ ("overlap" \in mishap => "overlap" \in mishap')
        BY <1>8 DEF Blob
  <2> QED BY <1>3, <1>4, <2>1, <2>2
<1>9. CASE RemoveAvatar  BY <1>1, <1>4, <1>9 DEF RemoveAvatar
<1> QED BY <1>3, <1>5, <1>6, <1>7, <1>8, <1>9, ProfileSteps

-----------------------------------------------------------------------------
(* The theorems of the profile page *)

\* The parts of the invariant hold when the page is first rendered.
LEMMA ProfileStarts == ProfileInit => ProfileInv
<1> SUFFICES ASSUME ProfileInit PROVE ProfileInv  OBVIOUS
<1>1. MaxPicks \in Nat /\ MaxRequests \in Nat /\ 0 \in 0..MaxPicks /\ 0 \in 0..MaxRequests
      BY PageAssumption
<1>2. requests = <<>> /\ requests \in Seq(Requests) /\ Latest = 0
      BY DEF ProfileInit, Latest
<1>3. NoCrop \in Crops /\ NoCrop.image = 0 /\ NoCrop.cropper = 0 /\ NoCrop.save
      BY <1>1 DEF NoCrop, Crops
<1>4. profile \in Fields  BY DEF ProfileInit, Fields
<1>5. ProfileTypeOK
      BY <1>1, <1>2, <1>3, <1>4 DEF ProfileInit, ProfileTypeOK, Crops, Requests
<1>7. PicturesOK /\ DialogCanBeSaved  BY <1>1, <1>3 DEF ProfileInit, PicturesOK, DialogCanBeSaved
<1>8. DOMAIN requests = {}  BY <1>2
<1>9. UploadsOK  BY <1>8 DEF ProfileInit, UploadsOK, Unused, Uploads
<1>10. Carried = {}  BY <1>8 DEF Carried
<1>11. Intended = 0  BY <1>10 DEF Intended
<1>12. AvatarOK
       BY <1>2, <1>11 DEF ProfileInit, AvatarOK, OneByOne, LatestOK, Stored
<1> QED BY <1>5, <1>7, <1>9, <1>12 DEF ProfileInv

\* A step that leaves the profile page alone leaves its invariant alone.
LEMMA ProfileStutters == ProfileInv /\ UNCHANGED profileVars => ProfileInv'
<1> SUFFICES ASSUME ProfileInv, UNCHANGED profileVars PROVE ProfileInv'  OBVIOUS
<1>1. ProfileTypeOK' /\ PicturesOK' /\ DialogCanBeSaved'
      BY DEF ProfileInv, profileVars, dialogVars, serverVars, ProfileTypeOK, PicturesOK, DialogCanBeSaved
<1>2. UploadsOK'
      BY DEF ProfileInv, profileVars, dialogVars, serverVars, UploadsOK, Uploads, Unused, MaySave
<1>3. AvatarOK'
      BY DEF ProfileInv, profileVars, dialogVars, serverVars, AvatarOK, OneByOne, Undied,
             LatestOK, Latest, Stored, Intended, Carried
<1> QED BY <1>1, <1>2, <1>3 DEF ProfileInv

\* The invariant of the profile page, through every step of the specification.
LEMMA ProfileInvariance == Spec => []ProfileInv
<1>1. Init => ProfileInv  BY ProfileStarts DEF Init
<1>2. ProfileInv /\ [Next]_vars => ProfileInv'
  <2>1. ProfileInv /\ ProfileNext => ProfileInv'
        BY TypesStep, PicturesStep, DialogStep, UploadsStep, AvatarStep
        DEF ProfileInv
  <2> QED BY <2>1, ProfileStutters DEF Next, OnProfile, OnPost, vars
<1> QED BY <1>1, <1>2, PTL DEF Spec

\* The types, for both pages: no dialog, request, slug or preview leaves its range,
\* for any bounds.
THEOREM PagesTypeCorrect == Spec => []TypeOK
<1> DEFINE PageTyped == page \in {"profile", "post"}
<1>1. Spec => []PageTyped
  <2>1. Init => PageTyped  BY DEF Init
  <2>2. PageTyped /\ [Next]_vars => PageTyped'  BY DEF Next, OnProfile, OnPost, vars
  <2> QED BY <2>1, <2>2, PTL DEF Spec
<1> HIDE DEF PageTyped
<1>2. FieldsInv => FieldsTypeOK
  <2>1. MaxLength \in Nat  BY FieldsAssumption
  <2> QED BY <2>1, BoundedSeqs DEF FieldsInv, SlugOK, TipOK, PreviewOK, FieldsTypeOK, Slugs
<1>3. ProfileInv => ProfileTypeOK  BY DEF ProfileInv
<1>4. PageTyped /\ ProfileTypeOK /\ FieldsTypeOK => TypeOK  BY DEF TypeOK, PageTyped
<1> QED BY <1>1, <1>2, <1>3, <1>4, FieldsInvariance, ProfileInvariance, PTL

\* When nothing is being handled, the disk holds the avatar of the last request that
\* was carried out and nothing else (ProfileRepository::updateAvatar, deleteAvatar:
\* delete the file, store the new one, write the row), unless requests overlapped.
THEOREM AvatarIsLast == Spec => []AvatarIsTheLastSent
<1>1. ProfileInv => AvatarIsTheLastSent
  <2> SUFFICES ASSUME ProfileInv, "overlap" \notin mishap,
                      \A r \in DOMAIN requests : requests[r].step \in {"done", "refused"}
               PROVE  Stored
      BY DEF AvatarIsTheLastSent, Stored
  <2>1. requests \in Seq(Requests)  BY DEF ProfileInv, ProfileTypeOK, Requests
  <2>2. DOMAIN requests = 1..Latest /\ Latest \in Nat  BY <2>1, LenProperties DEF Latest
  <2>3. Undied  BY <2>2 DEF Undied
  <2>4. LatestOK  BY <2>3 DEF ProfileInv, AvatarOK
  <2>5. Latest = 0 \/ requests[Latest].step \in {"done", "refused"}  BY <2>2
  <2> QED BY <2>4, <2>5 DEF LatestOK
<1> QED BY <1>1, ProfileInvariance, PTL

\* However often Save is pressed, each picture is uploaded at most once (the save
\* listener disables its button until cleanup), unless a failed encoding of an
\* earlier picture enabled it again.
THEOREM UploadedOnce == Spec => []OneUploadPerPick
<1>1. ProfileInv => OneUploadPerPick
  <2> SUFFICES ASSUME ProfileInv, "stale" \notin mishap, NEW p \in Picks
               PROVE  Cardinality(Uploads(p)) <= 1
      BY DEF OneUploadPerPick, Uploads
  <2>1. \A r, s \in Uploads(p) : r = s  BY DEF ProfileInv, UploadsOK
  <2>2. CASE Uploads(p) = {}  BY <2>2, FS_EmptySet
  <2>3. CASE Uploads(p) # {}
    <3>1. PICK r : r \in Uploads(p)  BY <2>3
    <3>2. Uploads(p) = {r}  BY <2>1, <3>1
    <3> QED BY <3>2, FS_Singleton
  <2> QED BY <2>2, <2>3
<1> QED BY <1>1, ProfileInvariance, PTL

\* An open dialog crops the picture it shows, and can be saved or is being saved.
THEOREM DialogIsSavable == Spec => []DialogCanBeSaved
<1>1. ProfileInv => DialogCanBeSaved  BY DEF ProfileInv
<1> QED BY <1>1, ProfileInvariance, PTL
=============================================================================
