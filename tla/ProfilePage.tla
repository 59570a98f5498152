----------------------------- MODULE ProfilePage -----------------------------
(***************************************************************************)
(* The profile page in one tab and the avatar on the server: the dialog    *)
(* that crops a picture, the form of the other fields with its Save button,*)
(* and the requests that store or remove the avatar, each of which runs    *)
(* file by file and row by row beside the others.                          *)
(*                                                                         *)
(* A picture is the number of the choice that brought it; a stored file is *)
(* the number of the request that wrote it.                                *)
(***************************************************************************)
EXTENDS Naturals, Sequences, FiniteSets, FiniteSetsExt

CONSTANTS
    MaxPicks,    \* bound: pictures chosen
    MaxRequests  \* bound: avatar requests sent

ASSUME PageAssumption == MaxPicks \in Nat \ {0} /\ MaxRequests \in Nat \ {0}

Picks == 1..MaxPicks
Files == 1..MaxRequests
Steps == {"sent", "drop", "store", "update", "done", "refused", "died"}
Ended == {"done", "refused", "died"}

VARIABLES
    dialog,    \* avatar-crop-modal: "hidden", "showing", "shown" or "hiding"
    picker,    \* the browser's file picker is open
    picks,     \* pictures chosen so far
    crop,      \* [image, cropper, ready, save]: picture, cropper, Save enabled
    encoding,  \* per picture, callbacks of toBlob to come
    profile,   \* [field, password, baseline, button, sent]; sent: awaits its answer
    waiting,   \* the avatar request whose answer will replace the page, or 0
    requests,  \* avatar requests in the order they were sent
    avatar,    \* users.avatar_path
    files,     \* avatars on the public disk
    removable, \* the page was rendered with an avatar
    mishap     \* observer, see Mishaps

\* late: picked while the dialog was open.  early: Save pressed before the cropper
\* was ready.  stale: the encoding of a picture no longer shown failed.
\* lost: an answer did not come.  overlap: a request was sent before the last ended.
Mishaps == {"late", "early", "stale", "lost", "overlap"}

dialogVars == <<dialog, picker, picks, crop, encoding>>
serverVars == <<requests, avatar, files>>
profileVars == <<dialogVars, profile, waiting, serverVars, removable, mishap>>

NoCrop == [image |-> 0, cropper |-> 0, ready |-> FALSE, save |-> TRUE]
Fields == [field: {"kept", "changed"}, password: BOOLEAN, baseline: {"kept", "changed"},
           button: BOOLEAN, sent: {"none", "kept", "changed"}]

-----------------------------------------------------------------------------
(* The dialog *)

\* Mutant: Save is left as it was.
CleanupMutant(image) == [crop EXCEPT !.image = image, !.cropper = 0, !.ready = FALSE]

\* cleanup, and the image that takes the place of the one before
Cleanup(image) == [NoCrop EXCEPT !.image = image]

\* The trigger; once the dialog is shown it keeps the focus.
OpenPicker ==
    /\ ~picker /\ dialog # "shown" /\ picks < MaxPicks
    /\ picker' = TRUE
    /\ UNCHANGED <<dialog, picks, crop, encoding, profile, waiting, serverVars, removable, mishap>>

\* The input's change listener; modal.show() does nothing while the dialog is open or moves.
Pick ==
    /\ picker /\ picker' = FALSE
    /\ \/ UNCHANGED <<picks, crop, dialog, mishap>>
       \/ /\ picks' = picks + 1
          /\ crop' = Cleanup(picks')
          /\ dialog' = IF dialog = "hidden" THEN "showing" ELSE dialog
          /\ mishap' = IF dialog = "shown" THEN mishap \cup {"late"} ELSE mishap
    /\ UNCHANGED <<encoding, profile, waiting, serverVars, removable>>

InitCropper(c) == [c EXCEPT !.cropper = c.image, !.ready = FALSE]

\* shown.bs.modal
Shown ==
    /\ dialog = "showing" /\ dialog' = "shown"
    /\ crop' = IF crop.image = 0 THEN crop ELSE InitCropper(crop)
    /\ UNCHANGED <<picker, picks, encoding, profile, waiting, serverVars, removable, mishap>>

\* The cropper has loaded its image.
Ready ==
    /\ crop.cropper # 0 /\ ~crop.ready
    /\ crop' = [crop EXCEPT !.ready = TRUE]
    /\ UNCHANGED <<dialog, picker, picks, encoding, profile, waiting, serverVars, removable, mishap>>

\* Cancel, the cross, Escape or a click beside the dialog
Dismiss ==
    /\ dialog = "shown" /\ dialog' = "hiding"
    /\ UNCHANGED <<picker, picks, crop, encoding, profile, waiting, serverVars, removable, mishap>>

\* hidden.bs.modal
Hidden ==
    /\ dialog = "hiding" /\ dialog' = "hidden"
    /\ crop' = Cleanup(0)
    /\ mishap' = mishap \ {"late", "early", "lost"}
    /\ UNCHANGED <<picker, picks, encoding, profile, waiting, serverVars, removable>>

\* Mutant: the button stays enabled while the picture is encoded.
SaveMutant ==
    /\ dialog # "hidden" /\ crop.save /\ crop.cropper # 0
    /\ encoding[crop.cropper] < 2
    /\ IF crop.ready
       THEN encoding' = [encoding EXCEPT ![crop.cropper] = @ + 1] /\ UNCHANGED mishap
       ELSE mishap' = mishap \cup {"early"} /\ UNCHANGED encoding
    /\ UNCHANGED <<dialog, picker, picks, crop, profile, waiting, serverVars, removable>>

\* The save listener.  There is no canvas to encode before the cropper is ready, and
\* the listener ends with an error.
Save ==
    /\ dialog # "hidden" /\ crop.save /\ crop.cropper # 0
    /\ crop' = [crop EXCEPT !.save = FALSE]
    /\ IF crop.ready
       THEN encoding' = [encoding EXCEPT ![crop.cropper] = @ + 1] /\ UNCHANGED mishap
       ELSE mishap' = mishap \cup {"early"} /\ UNCHANGED encoding
    /\ UNCHANGED <<dialog, picker, picks, profile, waiting, serverVars, removable>>

Send(kind, pick) ==
    /\ Len(requests) < MaxRequests
    /\ requests' = Append(requests, [kind |-> kind, pick |-> pick, step |-> "sent", previous |-> 0])
    /\ waiting' = Len(requests') /\ profile' = [profile EXCEPT !.sent = "none"]
    /\ mishap' = IF \A r \in DOMAIN requests : requests[r].step \in Ended
                 THEN mishap ELSE mishap \cup {"overlap"}
    /\ UNCHANGED <<avatar, files>>

\* The callback of toBlob: the form is submitted, whatever has become of the dialog.
Blob(pick) ==
    /\ encoding[pick] > 0
    /\ encoding' = [encoding EXCEPT ![pick] = @ - 1]
    /\ \/ Send("upload", pick) /\ UNCHANGED crop
       \/ /\ crop' = [crop EXCEPT !.save = TRUE]
          /\ mishap' = IF crop.cropper = pick THEN mishap ELSE mishap \cup {"stale"}
          /\ UNCHANGED <<profile, waiting, serverVars>>
    /\ UNCHANGED <<dialog, picker, picks, removable>>

\* The form that removes the avatar, behind the dialog
RemoveAvatar ==
    /\ removable /\ dialog = "hidden"
    /\ Send("delete", 0)
    /\ UNCHANGED <<dialogVars, removable>>

-----------------------------------------------------------------------------
(* The other fields *)

HasProfileChanges(p) == p.field # p.baseline \/ p.password

\* The page is rendered with f in its fields; a password never comes back.
Load(f) ==
    /\ profile' = [field |-> f, password |-> FALSE, baseline |-> f, button |-> FALSE, sent |-> "none"]
    /\ dialog' = "hidden" /\ picker' = FALSE /\ crop' = NoCrop
    /\ encoding' = [p \in Picks |-> 0]
    /\ waiting' = 0 /\ removable' = (avatar # 0)
    /\ mishap' = mishap \cap {"overlap", "stale"}
    /\ UNCHANGED <<picks, serverVars>>

\* input and change listeners
ChangeProfile ==
    /\ dialog = "hidden"
    /\ \E f \in {"kept", "changed"}, pw \in BOOLEAN :
          LET p == [profile EXCEPT !.field = f, !.password = pw]
          IN  profile' = [p EXCEPT !.button = HasProfileChanges(p)]
    /\ UNCHANGED <<dialogVars, waiting, serverVars, removable, mishap>>

\* By the button, or by Enter in a field; without changes the submit listener stops it.
SubmitProfile ==
    /\ dialog = "hidden" /\ profile.button /\ HasProfileChanges(profile)
    /\ profile' = [profile EXCEPT !.sent = profile.field]
    /\ waiting' = 0
    /\ UNCHANGED <<dialogVars, serverVars, removable, mishap>>

\* profile.update: saved, or back with the input that was refused
AnswerProfile ==
    /\ profile.sent # "none"
    /\ Load("kept") \/ Load(profile.sent)

-----------------------------------------------------------------------------
(* The server *)

Go(r, step) == requests' = [requests EXCEPT ![r].step = step]
At(r, step) == r \in DOMAIN requests /\ requests[r].step = step

\* Authentication has loaded the user; validation or the rate limit may refuse.
Begin(r) ==
    /\ At(r, "sent")
    /\ \/ requests' = [requests EXCEPT ![r].step = "drop", ![r].previous = avatar]
       \/ Go(r, "refused")
    /\ UNCHANGED <<dialogVars, profile, waiting, avatar, files, removable, mishap>>

\* Mutant: the file before is kept.
DropMutant(r) ==
    /\ At(r, "drop")
    /\ Go(r, IF requests[r].kind = "upload" THEN "store" ELSE "update")
    /\ UNCHANGED <<dialogVars, profile, waiting, avatar, files, removable, mishap>>

\* deletePublic
Drop(r) ==
    /\ At(r, "drop")
    /\ files' = files \ {requests[r].previous}
    /\ Go(r, IF requests[r].kind = "upload" THEN "store" ELSE "update")
    /\ UNCHANGED <<dialogVars, profile, waiting, avatar, removable, mishap>>

\* storePublicBinary
Store(r) ==
    /\ At(r, "store")
    /\ files' = files \cup {r}
    /\ Go(r, "update")
    /\ UNCHANGED <<dialogVars, profile, waiting, avatar, removable, mishap>>

\* updateAvatarPath; a path that is what the user was loaded with is not written.
Update(r) ==
    /\ At(r, "update")
    /\ avatar' = IF requests[r].kind = "upload" THEN r
                 ELSE IF requests[r].previous = 0 THEN avatar ELSE 0
    /\ Go(r, "done")
    /\ UNCHANGED <<dialogVars, profile, waiting, files, removable, mishap>>

Die(r) ==
    /\ r \in DOMAIN requests /\ requests[r].step \notin Ended
    /\ Go(r, "died")
    /\ UNCHANGED <<dialogVars, profile, waiting, avatar, files, removable, mishap>>

\* profile.edit, after a request or when the user loads the page again
AnswerAvatar ==
    /\ waiting \in DOMAIN requests /\ requests[waiting].step \in Ended
    /\ Load("kept")

Reload == Load("kept")

\* No answer; the browser goes back to the page as it was.
Lose ==
    /\ waiting # 0 \/ profile.sent # "none"
    /\ waiting' = 0 /\ profile' = [profile EXCEPT !.sent = "none"]
    /\ mishap' = IF dialog = "hidden" THEN mishap ELSE mishap \cup {"lost"}
    /\ UNCHANGED <<dialogVars, serverVars, removable>>

-----------------------------------------------------------------------------

ProfileInit ==
    /\ dialog = "hidden" /\ picker = FALSE /\ picks = 0 /\ crop = NoCrop
    /\ encoding = [p \in Picks |-> 0]
    /\ profile = [field |-> "kept", password |-> FALSE, baseline |-> "kept", button |-> FALSE,
                  sent |-> "none"]
    /\ waiting = 0 /\ requests = <<>> /\ avatar = 0 /\ files = {} /\ removable = FALSE
    /\ mishap = {}

ProfileNext ==
    \/ OpenPicker \/ Pick \/ Shown \/ Ready \/ Dismiss \/ Hidden \/ Save \/ RemoveAvatar
    \/ \E p \in Picks : Blob(p)
    \/ ChangeProfile \/ SubmitProfile \/ AnswerProfile \/ AnswerAvatar \/ Reload \/ Lose
    \/ \E r \in Files : Begin(r) \/ Drop(r) \/ Store(r) \/ Update(r) \/ Die(r)

-----------------------------------------------------------------------------
(* Properties *)

ProfileTypeOK ==
    /\ dialog \in {"hidden", "showing", "shown", "hiding"} /\ picker \in BOOLEAN
    /\ picks \in 0..MaxPicks /\ encoding \in [Picks -> Nat]
    /\ crop \in [image: 0..MaxPicks, cropper: 0..MaxPicks, ready: BOOLEAN, save: BOOLEAN]
    /\ profile \in Fields /\ waiting \in 0..MaxRequests
    /\ requests \in Seq([kind: {"upload", "delete"}, pick: 0..MaxPicks, step: Steps,
                         previous: 0..MaxRequests])
    /\ avatar \in 0..MaxRequests /\ files \subseteq Files
    /\ removable \in BOOLEAN /\ mishap \subseteq Mishaps

\* When nothing is being handled, the disk holds the avatar of the last request that
\* was not refused and nothing else, unless a request was sent before the one before
\* it had ended, or died between the file and the row.
Carried == {r \in DOMAIN requests : requests[r].step = "done"}
Intended == IF \E r \in Carried : requests[r].kind = "upload" /\ r = Max(Carried)
            THEN Max(Carried) ELSE 0
AvatarIsTheLastSent ==
    (\A r \in DOMAIN requests : requests[r].step \in {"done", "refused"}) /\ "overlap" \notin mishap
        => avatar = Intended /\ files = {avatar} \ {0}

\* A picture is uploaded once, however often Save is pressed, unless the encoding of
\* a picture dismissed before it failed and gave the button back.
OneUploadPerPick ==
    "stale" \notin mishap =>
        \A p \in Picks : Cardinality({r \in DOMAIN requests : requests[r].pick = p}) <= 1

\* A dialog that is open crops the picture it shows and can be saved, or is being
\* saved, unless the picture was chosen while it was open, Save was pressed before
\* the cropper was ready, or the answer was lost.
DialogCanBeSaved ==
    dialog = "shown" /\ mishap \cap {"late", "early", "lost"} = {} =>
        /\ crop.image # 0 /\ crop.cropper = crop.image
        /\ crop.save \/ encoding[crop.cropper] > 0 \/ waiting # 0
=============================================================================
