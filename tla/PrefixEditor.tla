---------------------------- MODULE PrefixEditor ----------------------------
(***************************************************************************)
(* The prefix editor of the dashboard (internal/web/assets/index.html,     *)
(* openEditModal, closeEditModal, handleSavePrefix).  A save sends a PATCH *)
(* and reads activeModalFile again after the answer; the buttons are off   *)
(* while it waits, but Escape and a click beside the box still close it.   *)
(***************************************************************************)
EXTENDS Naturals

CONSTANTS Files,     \* credentials
          Prefixes,  \* prefixes, as sanitizePrefix leaves them
          Saves      \* room for calls of handleSavePrefix

NoFile == "none"

ASSUME EditorAssumption == NoFile \notin Files

VARIABLES activeModalFile,
          input,         \* the text field
          modalLoading,  \* the state setModalLoading leaves
          local,         \* prefix in authFiles
          server,        \* prefix on the host
          save,          \* the calls of handleSavePrefix
          last,          \* history: the saves the host executed last, of each file
          dismissed      \* history: the modal was closed during a save

editorVars == <<activeModalFile, input, modalLoading, local, server, save, last, dismissed>>

-----------------------------------------------------------------------------
InFlight(t) == save[t].stage \in {"sent", "applied"}

EditorInit ==
    /\ activeModalFile = NoFile
    /\ input \in Prefixes
    /\ modalLoading = FALSE
    /\ local \in [Files -> Prefixes]
    /\ server = local
    /\ save = [t \in Saves |-> [stage |-> "unused"]]
    /\ last = {}
    /\ dismissed = FALSE

(* The pencil of a card, which the open modal covers. *)
OpenEditModal(f) ==
    /\ activeModalFile = NoFile
    /\ activeModalFile' = f
    /\ input' = local[f]
    /\ modalLoading' = FALSE
    /\ UNCHANGED <<local, server, save, last, dismissed>>

Type(p) ==
    /\ activeModalFile # NoFile /\ ~modalLoading
    /\ input' = p
    /\ UNCHANGED <<activeModalFile, modalLoading, local, server, save, last, dismissed>>

(* Cancel and the cross are disabled during a save; Escape is not.         *)
CloseEditModal ==
    /\ activeModalFile # NoFile
    /\ activeModalFile' = NoFile
    /\ dismissed' = (dismissed \/ modalLoading)
    /\ UNCHANGED <<input, modalLoading, local, server, save, last>>

HandleSavePrefix(t) ==
    /\ activeModalFile # NoFile /\ ~modalLoading
    /\ save[t].stage = "unused"
    /\ save' = [save EXCEPT ![t] =
           [stage |-> "sent", file |-> activeModalFile, prefix |-> input, told |-> NoFile]]
    /\ modalLoading' = TRUE
    /\ UNCHANGED <<activeModalFile, input, local, server, last, dismissed>>

(* The host stores the prefix, perhaps after the dashboard gave up.        *)
Apply(t) ==
    /\ save[t].stage \in {"sent", "lost"}
    /\ server' = [server EXCEPT ![save[t].file] = save[t].prefix]
    /\ save' = [save EXCEPT ![t].stage = IF @ = "sent" THEN "applied" ELSE "failed"]
    /\ last' = {u \in last : save[u].file # save[t].file} \cup {t}
    /\ UNCHANGED <<activeModalFile, input, modalLoading, local, dismissed>>

(* An OK answer: the file the modal shows NOW gets the prefix, the modal   *)
(* closes and the toast names that file.                                   *)
AnswerToldLate(t) ==  \* fault: the toast reads activeModalFile after the close
    /\ save[t].stage = "applied"
    /\ local' = [f \in Files |-> IF f = activeModalFile THEN save[t].prefix ELSE local[f]]
    /\ activeModalFile' = NoFile
    /\ save' = [save EXCEPT ![t].stage = "saved", ![t].told = activeModalFile']
    /\ UNCHANGED <<input, modalLoading, server, last, dismissed>>

AnswerClosedFirst(t) ==  \* fault: the modal is closed before the file is found
    /\ save[t].stage = "applied"
    /\ activeModalFile' = NoFile
    /\ save' = [save EXCEPT ![t].stage = "saved", ![t].told = activeModalFile]
    /\ local' = [f \in Files |-> IF f = activeModalFile' THEN save[t].prefix ELSE local[f]]
    /\ UNCHANGED <<input, modalLoading, server, last, dismissed>>

AnswerOK(t) ==
    /\ save[t].stage = "applied"
    /\ local' = [f \in Files |-> IF f = activeModalFile THEN save[t].prefix ELSE local[f]]
    /\ activeModalFile' = NoFile
    /\ save' = [save EXCEPT ![t].stage = "saved", ![t].told = activeModalFile]
    /\ UNCHANGED <<input, modalLoading, server, last, dismissed>>

(* A refusal, or the 30 s timeout before or after the host stored the      *)
(* prefix: the modal shows an error and may be used again.                 *)
FailLocked(t) ==  \* fault: the modal stays locked after an error
    /\ InFlight(t)
    /\ save' = [save EXCEPT ![t].stage = "failed"]
    /\ UNCHANGED <<activeModalFile, input, modalLoading, local, server, last, dismissed>>

AnswerError(t) ==
    /\ InFlight(t)
    /\ modalLoading' = FALSE
    /\ \/ save' = [save EXCEPT ![t].stage = "failed"]
       \/ save[t].stage = "sent" /\ save' = [save EXCEPT ![t].stage = "lost"]
    /\ UNCHANGED <<activeModalFile, input, local, server, last, dismissed>>

EditorNext ==
    \/ \E f \in Files : OpenEditModal(f)
    \/ \E p \in Prefixes : Type(p)
    \/ CloseEditModal
    \/ \E t \in Saves :
           HandleSavePrefix(t) \/ Apply(t) \/ AnswerOK(t) \/ AnswerError(t)

EditorSpec == EditorInit /\ [][EditorNext]_editorVars

-----------------------------------------------------------------------------
(* The type invariant: which values the variables of the page can take.    *)
TypeOK ==
    /\ activeModalFile \in Files \cup {NoFile}
    /\ input \in Prefixes /\ modalLoading \in BOOLEAN
    /\ local \in [Files -> Prefixes] /\ server \in [Files -> Prefixes]
    /\ last \subseteq Saves /\ dismissed \in BOOLEAN
    /\ \A t \in Saves :
           \/ save[t] = [stage |-> "unused"]
           \/ save[t] \in [stage : {"sent", "applied", "saved", "failed", "lost"}, file : Files,
                           prefix : Prefixes, told : Files \cup {NoFile}]

LocalFollowsServer ==
    \A f \in Files :
        (\A t \in last : save[t].file = f => save[t].stage = "saved") => local[f] = server[f]

ToastNamesSaved ==
    \A t \in Saves : save[t].stage = "saved" => save[t].told = save[t].file

(* As long as nobody closed the modal during a save, the list shows the    *)
(* prefix the host has whenever the host has it from no save at all, or    *)
(* from one whose user was told of success: they differ only by a save     *)
(* that is in flight, or that the user was told has failed although the    *)
(* host executed it, before or after the timeout; and the next save makes  *)
(* good for that.  The toast of a save names the credential it saved.      *)
SavedIsShownAndTold == dismissed \/ (LocalFollowsServer /\ ToastNamesSaved)

(* The open modal is locked exactly while its save is in flight, so that   *)
(* there is one save at a time; again unless it was closed during one.     *)
LockedWhileSaving ==
    dismissed \/ (activeModalFile # NoFile =>
        (modalLoading <=> \E t \in Saves : InFlight(t)))

(* The comment "Update in-memory file objects" of handleSavePrefix and the *)
(* test "prefix toast retains the saved filename after modal cleanup":     *)
(* both say so of every save.                                              *)
EverySaveIsShownAndTold == LocalFollowsServer /\ ToastNamesSaved
=============================================================================
