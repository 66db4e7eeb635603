------------------------------ MODULE MCStores ------------------------------
(* What the desktop keeps on disk, and its access to the host's input, for *)
(* TLC: a behaviour is one of the modules and the others stay as they      *)
(* began.                                                                  *)
EXTENDS StoredFiles, Vault, Connections, InputAccess

VARIABLE part
vars == <<part, fileVars, vaultVars, connVars, pairVars, accessVars, settingsVars>>

Filed(A) ==
    part = "filed" /\ A /\ UNCHANGED <<part, vaultVars, connVars, pairVars, accessVars, settingsVars>>
Vaulted(A) ==
    part = "vaulted" /\ A /\ UNCHANGED <<part, fileVars, connVars, pairVars, accessVars, settingsVars>>
Listing(A) ==
    part = "listing" /\ A /\ UNCHANGED <<part, fileVars, vaultVars, pairVars, accessVars, settingsVars>>
Paired(A) ==
    part = "paired" /\ A /\ UNCHANGED <<part, fileVars, vaultVars, connVars, accessVars, settingsVars>>
Asking(A) ==
    part = "asking" /\ A /\ UNCHANGED <<part, fileVars, vaultVars, connVars, pairVars, settingsVars>>
Setting(A) ==
    part = "setting" /\ A /\ UNCHANGED <<part, fileVars, vaultVars, connVars, pairVars, accessVars>>

(* Where a part is idle its choices are fixed.                             *)
Init ==
    /\ FileInit /\ VaultInit /\ ConnInit /\ PairInit /\ AccessInit /\ SettingsInit
    /\ part \in {"filed", "vaulted", "listing", "paired", "asking", "setting"}
    /\ part # "listing" => ~locked
    /\ part # "asking" => wayland /\ kept = NoToken

Next ==
    \/ Filed(FileNext) \/ Vaulted(VaultNext) \/ Listing(ConnNext) \/ Paired(PairNext)
    \/ Asking(AccessNext) \/ Setting(SettingsNext)

(* The person goes on clicking, a host answers now and then, and both      *)
(* programs live long enough to write; the session bus answers a call, and *)
(* the desktop a question or its timer does.                               *)
Spec ==
    /\ Init /\ [][Next]_vars
    /\ SF_vars(Paired(ConnectPaired)) /\ SF_vars(Paired(HostDecides))
    /\ SF_vars(Paired(TurnedAway)) /\ SF_vars(Paired(ViewerWrites))
    /\ WF_vars(Paired(Connected \/ AttemptLost) \/ Asking(BusAnswers)) \* one part runs
    /\ WF_vars(Asking(DesktopAnswers))

(* What was written is what was last said: of a queued file, the settings, *)
(* and trust that was withdrawn.                                           *)
FilesHold == QuietMeansSaved /\ ConfirmedIsSaved /\ RevokedStaysOut

(* A password that was saved is there, under the computer it belongs to,   *)
(* and nobody else's; a certificate is trusted at its own address.         *)
PasswordsAreKept ==
    /\ VaultStaysAVault /\ SavedIsSaved
    /\ NoOrphans /\ SecretsFollow /\ TrustFollowsAddress

(* One click that is no longer honoured is not offered for ever, and       *)
(* asking for the input ends.                                              *)
StoresSettle == OneClickHeals /\ OpeningEnds
=============================================================================
