------------------------------ MODULE PostFields ------------------------------
(***************************************************************************)
(* Two fields of a post's form with a life of their own: the slug, whose   *)
(* handlers keep forbidden characters out and call up a tip which two      *)
(* timers take down again, and the background picture, which a FileReader  *)
(* reads for the preview.                                                  *)
(***************************************************************************)
EXTENDS Naturals, Sequences, FiniteSets, SequencesExt

CONSTANTS
    MaxLength,   \* SLUG_MAX_LENGTH
    MaxChoices   \* bound: background pictures chosen

ASSUME FieldsAssumption == MaxLength \in Nat \ {0} /\ MaxChoices \in Nat \ {0}

\* A character the slug may hold, and one it may not.
Chars == {"ok", "bad"}
Texts == BoundedSeq(Chars, 2) \ {<<>>}
Slugs == BoundedSeq(Chars, MaxLength)

VARIABLES
    slug,      \* value of the input
    tip,       \* [hidden, visible, timers, fades]: pending timers of both kinds
    composed,  \* observer: an input method put in a forbidden character
    recalled,  \* observer: the tip was called up while it was fading
    choice,    \* file of the background field, 0 when none
    choices,   \* files chosen so far; a file is its number
    readers,   \* files being read
    backdrop,  \* file the preview shows
    doubt      \* observer: chosen while another was read, or not readable

slugVars == <<slug, tip, composed, recalled>>
backgroundVars == <<choice, choices, readers, backdrop, doubt>>
fieldVars == <<slugVars, backgroundVars>>

-----------------------------------------------------------------------------
(* The slug *)

IsAllowedSlugChar(text) == text = <<"ok">>

\* Mutant: the text is only tested.
FilterSlugTextMutant(text) == text

\* The allowed characters of the text; as all are "ok", their number says it all.
FilterSlugText(text) ==
    [i \in 1..Cardinality({j \in DOMAIN text : text[j] = "ok"}) |-> "ok"]

\* insertSlugAtSelection: what is too long is cut off at the end.
InsertSlugAtSelection(current, start, end, text) ==
    LET next == SubSeq(current, 1, start) \o text \o SubSeq(current, end + 1, Len(current))
    IN  SubSeq(next, 1, IF Len(next) < MaxLength THEN Len(next) ELSE MaxLength)

InsertSlugTextAtSelection(s, text) == InsertSlugAtSelection(slug, s[1], s[2], text)

SlugPasteWasFiltered(original, filtered) == Len(filtered) < Len(original)

\* The browser takes no more of what is typed than there is room for.
Typed(s, text) ==
    LET room == MaxLength - (Len(slug) - (s[2] - s[1]))
    IN  InsertSlugTextAtSelection(s, SubSeq(text, 1, IF Len(text) < room THEN Len(text) ELSE room))

Selections == {s \in (0..Len(slug)) \X (0..Len(slug)) : s[1] <= s[2]}

\* Mutant: the timer that runs is not cleared.
ShowSlugForbiddenTipMutant ==
    /\ tip' = [tip EXCEPT !.hidden = FALSE, !.visible = TRUE, !.timers = @ + 1]
    /\ recalled' = (recalled \/ tip.fades > 0)

ShowSlugForbiddenTip ==
    /\ tip' = [tip EXCEPT !.hidden = FALSE, !.visible = TRUE, !.timers = 1]
    /\ recalled' = (recalled \/ tip.fades > 0)

\* beforeinput with data; what an input method composes cannot be prevented.
BeforeInput ==
    /\ \E s \in Selections, text \in Texts, composing \in BOOLEAN :
          /\ slug' = IF IsAllowedSlugChar(text) \/ composing THEN Typed(s, text) ELSE slug
          /\ composed' = (composed \/ (composing /\ ~IsAllowedSlugChar(text)))
          /\ IF IsAllowedSlugChar(text) THEN UNCHANGED <<tip, recalled>> ELSE ShowSlugForbiddenTip
    /\ UNCHANGED backgroundVars

\* beforeinput of a deletion
Delete ==
    /\ \E s \in Selections : slug' = Typed(s, <<>>)
    /\ UNCHANGED <<tip, composed, recalled, backgroundVars>>

\* The paste listener
Paste ==
    /\ \E s \in Selections, text \in Texts :
          LET filtered == FilterSlugText(text)
          IN  /\ slug' = IF filtered = <<>> THEN slug
                         ELSE InsertSlugTextAtSelection(s, filtered)
              /\ IF SlugPasteWasFiltered(text, filtered) THEN ShowSlugForbiddenTip
                 ELSE UNCHANGED <<tip, recalled>>
    /\ UNCHANGED <<composed, backgroundVars>>

\* The keydown listener
Space ==
    /\ ShowSlugForbiddenTip
    /\ UNCHANGED <<slug, composed, backgroundVars>>

\* After 2000 ms.  A fade takes 150 ms: it ends before a timer set since it began.
HideTimer ==
    /\ tip.timers > 0 /\ tip.fades = 0
    /\ tip' = [tip EXCEPT !.visible = FALSE, !.timers = @ - 1, !.fades = 1]
    /\ recalled' = FALSE
    /\ UNCHANGED <<slug, composed, backgroundVars>>

\* After 150 ms more
FadeTimer ==
    /\ tip.fades > 0
    /\ tip' = [tip EXCEPT !.hidden = TRUE, !.fades = 0]
    /\ UNCHANGED <<slug, composed, recalled, backgroundVars>>

-----------------------------------------------------------------------------
(* The background *)

\* updateBackgroundPreview; a field that was cleared leaves the preview as it is.
UpdateBackgroundPreview ==
    /\ \/ /\ choices < MaxChoices
          /\ choices' = choices + 1 /\ choice' = choices'
          /\ readers' = readers \cup {choice'}
          /\ doubt' = (readers # {})
       \/ /\ choice # 0 /\ choice' = 0
          /\ UNCHANGED <<choices, readers, doubt>>
    /\ UNCHANGED <<backdrop, slugVars>>

\* Mutant: the preview keeps the picture it has.
OnLoadMutant(file) ==
    /\ file \in readers /\ readers' = readers \ {file}
    /\ backdrop' = IF backdrop = 0 THEN file ELSE backdrop
    /\ UNCHANGED <<choice, choices, doubt, slugVars>>

\* reader.onload
OnLoad(file) ==
    /\ file \in readers /\ readers' = readers \ {file}
    /\ backdrop' = file
    /\ UNCHANGED <<choice, choices, doubt, slugVars>>

\* The file cannot be read: nobody listens.
ReadError(file) ==
    /\ file \in readers /\ readers' = readers \ {file}
    /\ doubt' = TRUE
    /\ UNCHANGED <<choice, choices, backdrop, slugVars>>

-----------------------------------------------------------------------------

FieldsInit ==
    /\ slug \in {<<>>, <<"ok">>} /\ composed = FALSE /\ recalled = FALSE
    /\ tip = [hidden |-> TRUE, visible |-> FALSE, timers |-> 0, fades |-> 0]
    /\ choice = 0 /\ choices = 0 /\ readers = {} /\ backdrop = 0 /\ doubt = FALSE

FieldsNext ==
    \/ BeforeInput \/ Delete \/ Paste \/ Space \/ HideTimer \/ FadeTimer
    \/ UpdateBackgroundPreview
    \/ \E file \in 1..MaxChoices : OnLoad(file) \/ ReadError(file)

-----------------------------------------------------------------------------
(* Properties *)

FieldsTypeOK ==
    /\ slug \in Slugs /\ composed \in BOOLEAN /\ recalled \in BOOLEAN
    /\ tip \in [hidden: BOOLEAN, visible: BOOLEAN, timers: 0..1, fades: 0..1]
    /\ choices \in 0..MaxChoices /\ choice \in 0..choices /\ backdrop \in 0..choices
    /\ readers \subseteq 1..choices /\ doubt \in BOOLEAN

\* Whatever is typed, pasted or deleted and wherever, the slug holds only characters
\* it may hold, and no more of them than fit; only an input method gets others in.
SlugStaysUrlSafe ==
    Len(slug) <= MaxLength /\ (composed \/ \A i \in DOMAIN slug : slug[i] = "ok")

\* The tip stays up while a timer is still to take it down, unless it was called up
\* while it was fading: then the end of that fade hides it.
TipStaysWhileDue == tip.timers > 0 => tip.visible /\ (recalled \/ ~tip.hidden)

\* When nothing is being read, the preview shows the file that will be uploaded,
\* unless it was chosen while another was read, or could not be read.
PreviewShowsChoice == readers = {} /\ choice # 0 /\ ~doubt => backdrop = choice
=============================================================================
