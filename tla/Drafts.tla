------------------------------- MODULE Drafts -------------------------------
(***************************************************************************)
(* The pages with fields that are typed into and saved: the settings (one *)
(* button per key), the e-mail addresses of the users page (one button per *)
(* user) and the cameras (one button for all), while another administrator *)
(* edits the same entries.                                                  *)
(***************************************************************************)
EXTENDS Naturals

CONSTANTS
    Keys,        \* settings, users or cameras
    Texts,       \* what is typed, other than the empty text
    Calls,       \* requests of the page in the air at a time, numbered
    MaxTypings, MaxSaves, MaxEdits

Empty == "empty"
Unset == "unset"    \* a field that has no draft
Values == Texts \cup {Empty}

VARIABLES
    form,        \* "settings", "emails" or "cameras"
    stored, draft, calls,
    saving,      \* savingKey, or whether the list of cameras is being saved
    counts,
    \* History:
    typed,       \* the last text typed into a field, unless a save took it
    wanted,      \* the text of the last save of a key
    unsure       \* keys that others edited, or of which two saves were in the air

draftVars == <<form, stored, draft, calls, saving, counts, typed, wanted, unsure>>

NoCall == [pc |-> "none", keys |-> {}, values |-> [k \in Keys |-> Empty]]

DraftInit ==
    /\ form \in {"settings", "emails", "cameras"}
    /\ stored \in {[k \in Keys |-> v] : v \in Values}
    /\ draft = [k \in Keys |-> Unset]
    /\ calls = [c \in Calls |-> IF \A d \in Calls : c <= d THEN [NoCall EXCEPT !.pc = "load"]
                                                         ELSE NoCall]
    /\ saving = {}
    /\ counts = [typings |-> 0, saves |-> 0, edits |-> 0]
    /\ typed = [k \in Keys |-> Unset] /\ wanted = [k \in Keys |-> Unset] /\ unsure = {}

Bump(what, limit) == counts[what] < limit /\ counts' = [counts EXCEPT ![what] = @ + 1]

----
\* GET /config, /users or /config/public.
ServeLoad(c) ==
    /\ calls[c].pc = "load"
    /\ calls' = [calls EXCEPT ![c] = [pc |-> "loaded", keys |-> calls[c].keys, values |-> stored]]
    /\ UNCHANGED <<form, stored, draft, saving, counts, typed, wanted, unsure>>

\* Variant for TypingKept: what is stored goes over what is typed.
MergeStoredFirst(values) == values

\* Settings and e-mail addresses keep a draft that is there; the cameras do not.
Merge(values) ==
    [k \in Keys |-> IF form = "cameras" \/ draft[k] = Unset THEN values[k] ELSE draft[k]]

\* What `finally` leaves of saving: it resets the one variable of the page,
\* whatever else is being saved. A load that no save waits for has no keys.
Ended(c) == IF calls[c].keys = {} THEN saving ELSE {}

\* The answer comes. After a save of settings or cameras it ends the saving, too.
LoadArrives(c) ==
    /\ calls[c].pc = "loaded"
    /\ draft' = Merge(calls[c].values)
    /\ typed' = IF form = "cameras" THEN [k \in Keys |-> Unset] ELSE typed
    /\ saving' = Ended(c)
    /\ calls' = [calls EXCEPT ![c] = NoCall]
    /\ UNCHANGED <<form, stored, counts, wanted, unsure>>

\* A field is typed into; a camera is added, changed, or removed: empty.
Type(k, text) ==
    /\ Bump("typings", MaxTypings)
    /\ draft' = [draft EXCEPT ![k] = text] /\ typed' = [typed EXCEPT ![k] = text]
    /\ UNCHANGED <<form, stored, calls, saving, wanted, unsure>>

\* What a save sends: the drafts of its keys. A camera without a list is none;
\* an empty address is left out of the body, as is a setting without draft.
Sent(k) == IF draft[k] # Unset THEN draft[k]
           ELSE IF form = "cameras" THEN Empty ELSE stored[k]
Written(keys) ==
    IF form = "cameras" THEN keys
    ELSE {k \in keys : draft[k] # Unset /\ (form = "emails" => draft[k] # Empty)}

\* The button is disabled while its key is the one that is being saved.
Save(c, keys) ==
    /\ Bump("saves", MaxSaves)
    /\ keys \cap saving = {}
    /\ calls[c].pc = "none" /\ \A d \in Calls : calls[d].pc = "none" => c <= d
    /\ calls' = [calls EXCEPT ![c] = [pc |-> "save", keys |-> keys,
                                     values |-> [k \in Keys |->
                                        IF k \in Written(keys) THEN Sent(k) ELSE Unset]]]
    /\ saving' = keys
    /\ wanted' = [k \in Keys |-> IF k \in Written(keys) THEN Sent(k) ELSE wanted[k]]
    /\ unsure' = unsure \cup {k \in keys : \E d \in Calls : /\ calls[d].pc = "save"
                                                             /\ k \in calls[d].keys}
    /\ typed' = [k \in Keys |-> IF k \in keys THEN Unset ELSE typed[k]]
    /\ UNCHANGED <<form, stored, draft>>

SaveField(c) == form # "cameras" /\ \E k \in Keys : Save(c, {k})
SaveCameras(c) == form = "cameras" /\ Save(c, Keys)

\* Variant for LastSaveWins: the value is that of the field when it is written.
StoredLate(c) == [k \in Keys |-> IF k \in calls[c].keys /\ draft[k] # Unset THEN draft[k]
                                                                           ELSE stored[k]]

StoredBy(c) == [k \in Keys |-> IF calls[c].values[k] = Unset THEN stored[k] ELSE calls[c].values[k]]

\* The write is done and answered; the page loads again, which the save of an
\* e-mail address does not wait for.
SaveApplies(c) ==
    /\ calls[c].pc = "save"
    /\ stored' = StoredBy(c)
    /\ calls' = [calls EXCEPT ![c] = [NoCall EXCEPT !.pc = "load",
                                     !.keys = IF form = "emails" THEN {} ELSE calls[c].keys]]
    /\ saving' = IF form = "emails" THEN Ended(c) ELSE saving
    /\ UNCHANGED <<form, draft, counts, typed, wanted, unsure>>

\* A call rejects: a load leaves the fields, a save the entry.
CallFails(c) ==
    /\ Bump("edits", MaxEdits)
    /\ calls[c].pc # "none"
    /\ calls' = [calls EXCEPT ![c] = NoCall]
    /\ saving' = Ended(c)
    /\ unsure' = IF calls[c].pc = "save" THEN unsure \cup calls[c].keys ELSE unsure
    /\ UNCHANGED <<form, stored, draft, typed, wanted>>

\* Another administrator saves an entry.
OtherSaves ==
    /\ Bump("edits", MaxEdits)
    /\ \E k \in Keys, text \in Values : /\ stored' = [stored EXCEPT ![k] = text]
                                        /\ unsure' = unsure \cup {k}
    /\ UNCHANGED <<form, draft, calls, saving, typed, wanted>>

DraftNext ==
    \/ \E c \in Calls : \/ ServeLoad(c) \/ LoadArrives(c) \/ SaveField(c) \/ SaveCameras(c)
                        \/ SaveApplies(c) \/ CallFails(c)
    \/ \E k \in Keys, text \in Values : Type(k, text)
    \/ OtherSaves

DraftSpec == DraftInit /\ [][DraftNext]_draftVars

----
DraftTypeOK ==
    /\ form \in {"settings", "emails", "cameras"}
    /\ stored \in [Keys -> Values] /\ draft \in [Keys -> Values \cup {Unset}]
    /\ \A c \in Calls : calls[c].pc \in {"none", "load", "loaded", "save"}
    /\ saving \subseteq Keys

\* What an administrator has typed and not saved stays in its field, whatever
\* is loaded meanwhile; the list of cameras alone is replaced.
TypingKept == \A k \in Keys : typed[k] # Unset => draft[k] = typed[k]

\* When nothing is under way, an entry is what the last save of its field held:
\* unless others edited it, a call failed, or two saves of it were in the air.
LastSaveWins ==
    (\A c \in Calls : calls[c].pc = "none")
        => \A k \in Keys : wanted[k] # Unset /\ k \notin unsure => stored[k] = wanted[k]
----
(* The inductive invariant behind LastSaveWins. *)

CallsFit ==
    /\ calls \in [Calls -> [pc : {"none", "load", "loaded", "save"}, keys : SUBSET Keys,
                            values : [Keys -> Values \cup {Unset}]]]
    /\ typed \in [Keys -> Values \cup {Unset}] /\ wanted \in [Keys -> Values \cup {Unset}]

Saves(c, k) == calls[c].pc = "save" /\ k \in calls[c].keys

\* A save writes keys of its own, and one that is sure the text last wanted.
SavesWanted ==
    \A c \in Calls, k \in Keys : calls[c].pc = "save" /\ calls[c].values[k] # Unset =>
        /\ k \in calls[c].keys
        /\ k \in unsure \/ calls[c].values[k] = wanted[k]

\* Two saves of a key at a time make it unsure.
OneSaveEach == \A c, d \in Calls, k \in Keys : Saves(c, k) /\ Saves(d, k) => c = d \/ k \in unsure

\* What is wanted of a key is stored, or on its way.
WantedComes ==
    \A k \in Keys : wanted[k] # Unset /\ k \notin unsure =>
        \/ stored[k] = wanted[k]
        \/ \E c \in Calls : Saves(c, k) /\ calls[c].values[k] = wanted[k]

DraftInv == DraftTypeOK /\ CallsFit /\ TypingKept /\ SavesWanted /\ OneSaveEach /\ WantedComes
=============================================================================
