-------------------------------- MODULE Vault --------------------------------
(* The encrypted vault of credentials.ts.  Deriving a key, reading and      *)
(* writing take time, and whatever is called meanwhile works on the same    *)
(* this.vault and this.masterKey.  Writes are queued (StoredFiles), but     *)
(* each takes its copy of this.vault only when its turn comes.              *)
EXTENDS Naturals, Sequences

CONSTANTS
    Secret,         \* connections with a password
    VaultOp,        \* calls under way at once
    MaxVaultCalls   \* bound: calls

ASSUME VaultAssumption == MaxVaultCalls \in Nat

VARIABLES
    vfile,      \* vault.json
    vault,      \* this.vault
    unlocked,       \* this.masterKey # null
    vop,
    vqueue,     \* writes, in turn
    copy,       \* what the first of them has serialised
    promised,   \* history: passwords whose set() was answered
    slip,       \* history: the vault was dropped over a write that waited, or read again
                \* beside one, or two were made
    vcalls      \* counter for the bound

vaultVars == <<vfile, vault, unlocked, vop, vqueue, copy, promised, slip, vcalls>>

NoVault == [is |-> "none", ids |-> {}]
NullVault == [is |-> "null", ids |-> {}]    \* the text `null'
Holding(ids) == [is |-> "vault", ids |-> ids]
NoCall == [at |-> "idle", right |-> TRUE, secret |-> {}]
Calls(o, c) == vop[o] = NoCall /\ vcalls < MaxVaultCalls /\ vcalls' = vcalls + 1 /\ vop' = [vop EXCEPT ![o] = c]
Ends(o) == vop' = [vop EXCEPT ![o] = NoCall]
(* A write that has yet to take its copy.                                  *)
Waits == Len(vqueue) > 1 \/ (vqueue # <<>> /\ copy = NoVault)
(* A vault is being made, or is there in memory only.                      *)
Creating == vault # NoVault \/ vqueue # <<>> \/ \E o \in VaultOp : vop[o].at = "creating"
-----------------------------------------------------------------------------
VaultInit ==
    /\ vfile = NoVault /\ vault = NoVault /\ unlocked = FALSE
    /\ vop = [o \in VaultOp |-> NoCall] /\ vqueue = <<>> /\ copy = NoVault
    /\ promised = {} /\ slip = FALSE /\ vcalls = 0

(* Mutant: nobody looks for a vault that is there.                         *)
UnlockBlindly(o, right) ==
    /\ Calls(o, [NoCall EXCEPT !.at = "creating", !.right = right])
    /\ UNCHANGED <<vfile, vault, unlocked, vqueue, copy, promised, slip>>
(* unlock(): with a vault it is read, without one made.                    *)
Unlock(o, right) ==
    /\ Calls(o, [NoCall EXCEPT !.at = IF vfile = NoVault THEN "creating" ELSE "reading",
                               !.right = right])
    /\ slip' = (slip \/ (vfile = NoVault /\ Creating))
    /\ UNCHANGED <<vfile, vault, unlocked, vqueue, copy, promised>>

(* raw.salt of a vault that is `null' throws.                              *)
ReadVault(o) ==
    /\ vop[o].at = "reading"
    /\ vault' = IF vfile = NullVault THEN NoVault ELSE vfile
    /\ slip' = (slip \/ vqueue # <<>>)
    /\ vop' = [vop EXCEPT ![o] = IF vfile = NullVault THEN NoCall ELSE [@ EXCEPT !.at = "deriving"]]
    /\ UNCHANGED <<vfile, unlocked, vqueue, copy, promised, vcalls>>

(* The passphrase is tried on what was read. The key stays even if lock()  *)
(* has taken the vault meanwhile: isUnlocked is true, and there is none.   *)
Derived(o) ==
    /\ vop[o].at = "deriving"
    /\ \/ vop[o].right /\ unlocked' = TRUE /\ UNCHANGED <<vault, slip>>
       \/ ~vop[o].right /\ unlocked' = FALSE /\ vault' = NoVault /\ slip' = (slip \/ Waits)
    /\ Ends(o)
    /\ UNCHANGED <<vfile, vqueue, copy, promised, vcalls>>

Created(o) ==
    /\ vop[o].at = "creating"
    /\ unlocked' = TRUE /\ vault' = Holding({})
    /\ vqueue' = Append(vqueue, o)
    /\ vop' = [vop EXCEPT ![o].at = "saving"]
    /\ UNCHANGED <<vfile, copy, promised, slip, vcalls>>

(* set() and delete(); a vault that is locked refuses the one and skips the *)
(* other, and with a key but no vault both throw before they change a thing.*)
SetSecret(o, s) ==
    /\ unlocked /\ vault # NoVault
    /\ Calls(o, [at |-> "saving", right |-> TRUE, secret |-> {s}])
    /\ vault' = Holding(vault.ids \cup {s})
    /\ vqueue' = Append(vqueue, o)
    /\ UNCHANGED <<vfile, unlocked, copy, promised, slip>>
(* From here on s is no longer promised, whoever's set() of it is answered. *)
Erases(o, s) ==
    /\ vop[o] = NoCall /\ vcalls < MaxVaultCalls /\ vcalls' = vcalls + 1
    /\ vop' = [p \in VaultOp |-> [at |-> IF p = o THEN "saving" ELSE vop[p].at,
                                  right |-> vop[p].right, secret |-> vop[p].secret \ {s}]]
    /\ promised' = promised \ {s}
    /\ vqueue' = Append(vqueue, o)
(* Mutant: the write is asked for with the vault locked as well.           *)
DeleteLocked(o, s) ==
    /\ Erases(o, s)
    /\ vault' = [vault EXCEPT !.ids = @ \ {s}]
    /\ UNCHANGED <<vfile, unlocked, copy, slip>>
DeleteSecret(o, s) ==
    /\ unlocked /\ vault # NoVault
    /\ Erases(o, s)
    /\ vault' = Holding(vault.ids \ {s})
    /\ UNCHANGED <<vfile, unlocked, copy, slip>>

(* lock(), from the window or at shutdown, also while a key is derived.    *)
Lock ==
    /\ (unlocked \/ vault # NoVault) /\ unlocked' = FALSE /\ vault' = NoVault
    /\ slip' = (slip \/ Waits)
    /\ UNCHANGED <<vfile, vop, vqueue, copy, promised, vcalls>>

(* JSON.stringify(this.vault), when the directory is there.                *)
Serialise ==
    /\ vqueue # <<>> /\ copy = NoVault
    /\ copy' = IF vault = NoVault THEN NullVault ELSE vault
    /\ UNCHANGED <<vfile, vault, unlocked, vop, vqueue, promised, slip, vcalls>>

(* The rename.                                                             *)
Lands ==
    /\ copy # NoVault
    /\ vfile' = copy /\ copy' = NoVault
    /\ promised' = promised \cup vop[Head(vqueue)].secret
    /\ Ends(Head(vqueue)) /\ vqueue' = Tail(vqueue)
    /\ UNCHANGED <<vault, unlocked, slip, vcalls>>

(* Whoever called is told.                                                 *)
VaultSaveFails ==
    /\ vqueue # <<>>
    /\ copy' = NoVault
    /\ Ends(Head(vqueue)) /\ vqueue' = Tail(vqueue)
    /\ UNCHANGED <<vfile, vault, unlocked, promised, slip, vcalls>>

VaultRestart ==
    /\ vault' = NoVault /\ unlocked' = FALSE /\ vqueue' = <<>> /\ copy' = NoVault
    /\ vop' = [o \in VaultOp |-> NoCall]
    /\ UNCHANGED <<vfile, promised, slip, vcalls>>

VaultNext ==
    \/ \E o \in VaultOp :
          \/ \E right \in BOOLEAN : Unlock(o, right)
          \/ ReadVault(o) \/ Derived(o) \/ Created(o)
          \/ \E s \in Secret : SetSecret(o, s) \/ DeleteSecret(o, s)
    \/ Lock \/ Serialise \/ Lands \/ VaultSaveFails \/ VaultRestart
-----------------------------------------------------------------------------
(* The file is a vault whatever fails or is killed, unless the vault was   *)
(* locked over a write that waited, or read again beside one (persist).    *)
VaultStaysAVault == vfile = NullVault => slip

(* A password that was said to be saved is there until it is deleted,      *)
(* whatever wrong passphrases, failures and restarts come after - with the *)
(* same exception.                                                         *)
SavedIsSaved == slip \/ promised \subseteq vfile.ids

(* credentials.ts:216: a crash or two overlapping saves must never leave a *)
(* vault that loses every saved password at once.                          *)
VaultNeverLost == vfile # NullVault
=============================================================================
