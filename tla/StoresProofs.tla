----------------------------- MODULE StoresProofs -----------------------------
(***************************************************************************)
(* What the desktop keeps on disk, for any number of changes, calls,       *)
(* connections, failures and restarts.  Each part of MCStores has an       *)
(* inductive invariant of its own; StoresInv joins them, as a step of one  *)
(* part leaves the variables of the others alone.                          *)
(***************************************************************************)
EXTENDS MCStores, TLAPS

-----------------------------------------------------------------------------
(* StoredFiles: a queued file                                              *)

WithinBounds ==
    /\ data \in 0..MaxVersion /\ file \in 0..MaxVersion /\ text \in 0..MaxVersion
    /\ queued \in 0..MaxQueue /\ writer \in {"none", "turn", "open", "whole"}
    /\ tmp \in 0..Half

(* What is being written lies between what is saved and what is in memory, *)
(* and is what is in memory unless another write waits.                    *)
Between ==
    /\ file <= data
    /\ writer = "none" => queued = 0
    /\ writer \in {"open", "whole"} => file <= text /\ text <= data
    /\ writer \in {"open", "whole"} /\ queued = 0 => text = data
    /\ writer = "whole" => tmp = text

FileInv == WithinBounds /\ Between /\ QuietMeansSaved

LEMMA FileInitInv == FileInit => FileInv
<1> SUFFICES ASSUME FileInit PROVE FileInv
    OBVIOUS
<1>1. WithinBounds
    BY FileAssumption DEF FileInit, WithinBounds, Half
<1>2. Between /\ file = data
    BY DEF FileInit, Between
<1> QED
    BY <1>1, <1>2 DEF FileInv, QuietMeansSaved

LEMMA FileStepInv == FileInv /\ [FileNext]_fileVars => FileInv'
<1> SUFFICES ASSUME FileInv, [FileNext]_fileVars PROVE FileInv'
    OBVIOUS
<1>1. WithinBounds'
    <2> USE FileAssumption DEF FileInv, WithinBounds, Half
    <2>1. CASE Changes
        BY <2>1 DEF Changes, Persist
    <2>2. CASE Opens \/ Fills
        BY <2>2 DEF Opens, Fills
    <2>3. CASE Renames
        BY <2>3 DEF Renames, Following, Between
    <2>4. CASE WriteFails
        BY <2>4 DEF WriteFails, Following
    <2>5. CASE StartsAgain \/ UNCHANGED fileVars
        BY <2>5 DEF StartsAgain, fileVars
    <2> QED
        BY <2>1, <2>2, <2>3, <2>4, <2>5 DEF FileNext
<1>2. Between'
    <2> USE FileAssumption DEF FileInv, WithinBounds, Between, Half
    <2>1. CASE Changes
        BY <2>1 DEF Changes, Persist
    <2>2. CASE Opens \/ Fills
        BY <2>2 DEF Opens, Fills
    <2>3. CASE Renames \/ WriteFails
        BY <2>3 DEF Renames, WriteFails, Following
    <2>4. CASE StartsAgain \/ UNCHANGED fileVars
        BY <2>4 DEF StartsAgain, fileVars
    <2> QED
        BY <2>1, <2>2, <2>3, <2>4 DEF FileNext
<1>3. QuietMeansSaved'
    <2>1. CASE Changes
        <3>1. writer' # "none"
            BY <2>1 DEF Changes, Persist
        <3> QED
            BY <3>1 DEF QuietMeansSaved
    <2>2. CASE Opens \/ Fills
        <3>1. writer' # "none"
            BY <2>2 DEF Opens, Fills
        <3> QED
            BY <3>1 DEF QuietMeansSaved
    <2>3. CASE Renames
        <3>1. writer' = "none" => file' = data'
            BY <2>3 DEF Renames, Following, FileInv, Between
        <3> QED
            BY <3>1 DEF QuietMeansSaved
    <2>4. CASE WriteFails
        <3>1. failed'
            BY <2>4 DEF WriteFails
        <3> QED
            BY <3>1 DEF QuietMeansSaved
    <2>5. CASE StartsAgain
        <3>1. file' = data'
            BY <2>5 DEF StartsAgain
        <3> QED
            BY <3>1 DEF QuietMeansSaved
    <2>6. CASE UNCHANGED fileVars
        BY <2>6 DEF fileVars, FileInv, QuietMeansSaved
    <2> QED
        BY <2>1, <2>2, <2>3, <2>4, <2>5, <2>6 DEF FileNext
<1> QED
    BY <1>1, <1>2, <1>3 DEF FileInv

-----------------------------------------------------------------------------
(* Vault                                                                   *)

VaultText == {NoVault, NullVault} \cup [is : {"vault"}, ids : SUBSET Secret]
VaultCall == [at : {"idle", "creating", "reading", "deriving", "saving"}, right : BOOLEAN,
              secret : SUBSET Secret]

VaultTypes ==
    /\ vfile \in VaultText /\ copy \in VaultText /\ vault \in VaultText \ {NullVault}
    /\ vop \in [VaultOp -> VaultCall] /\ vqueue \in Seq(VaultOp)

(* The queue holds each call that saves once, and only these have a        *)
(* password to save.                                                       *)
QueueOfSaves ==
    /\ \A o \in VaultOp : vop[o].at # "saving" => vop[o].secret = {}
    /\ \A i \in 1..Len(vqueue) : vop[vqueue[i]].at = "saving"
    /\ \A i, j \in 1..Len(vqueue) : vqueue[i] = vqueue[j] => i = j
    /\ copy # NoVault => vqueue # <<>>

(* A vault is made only when there is none anywhere, and read only when    *)
(* there is one on disk.                                                   *)
MadeOnce ==
    \A o \in VaultOp :
        /\ vop[o].at = "creating" =>
              /\ vfile = NoVault /\ vault = NoVault /\ vqueue = <<>>
              /\ \A p \in VaultOp : vop[p].at = "creating" => p = o
        /\ vop[o].at \in {"reading", "deriving"} => vfile # NoVault

(* What is promised is wherever the next write may take it from, and so is *)
(* what is about to be.                                                    *)
PromisesHeld ==
    /\ vfile # NullVault /\ copy # NullVault
    /\ Waits => vault # NoVault
    /\ promised \subseteq vfile.ids
    /\ copy # NoVault => promised \cup vop[vqueue[1]].secret \subseteq copy.ids
    /\ vault # NoVault => promised \subseteq vault.ids
    /\ vault # NoVault => \A i \in 1..Len(vqueue) : vop[vqueue[i]].secret \subseteq vault.ids

VaultInv == VaultTypes /\ QueueOfSaves /\ (slip \/ (MadeOnce /\ PromisesHeld))

(* A vault is none, the text `null', or holds passwords.                   *)
LEMMA VaultTexts ==
    /\ NoVault \in VaultText /\ NullVault \in VaultText /\ NoVault # NullVault
    /\ NoVault.ids = {} /\ NullVault.ids = {}
    /\ \A ids \in SUBSET Secret : /\ Holding(ids) \in VaultText /\ Holding(ids).ids = ids
                                  /\ Holding(ids) # NoVault /\ Holding(ids) # NullVault
    /\ \A v \in VaultText : v.ids \in SUBSET Secret
BY DEF VaultText, NoVault, NullVault, Holding

LEMMA VaultInitInv == VaultInit => VaultInv
<1> SUFFICES ASSUME VaultInit PROVE VaultInv
    OBVIOUS
<1>1. VaultTypes
    BY VaultTexts DEF VaultInit, VaultTypes, VaultCall, NoCall
<1>2. QueueOfSaves
    BY DEF VaultInit, QueueOfSaves, NoCall
<1>3. MadeOnce /\ PromisesHeld
    BY VaultTexts DEF VaultInit, MadeOnce, PromisesHeld, NoCall, Waits
<1> QED
    BY <1>1, <1>2, <1>3 DEF VaultInv

LEMMA QueueIndices ==
    VaultInv => /\ Len(vqueue) \in Nat
                /\ \A i \in 1..Len(vqueue) : vqueue[i] \in VaultOp
                /\ vqueue # <<>> => 1 \in 1..Len(vqueue) /\ Head(vqueue) = vqueue[1]
                /\ copy # NoVault => vqueue # <<>>
BY DEF VaultInv, VaultTypes, QueueOfSaves

(* What a promise rests on is not touched by a step that leaves the queue  *)
(* and what is saved alone.                                                *)
LEMMA PromisesCarried ==
    ASSUME VaultInv, ~slip, UNCHANGED <<vfile, vqueue, copy, promised>>,
           \A i \in 1..Len(vqueue) : vop'[vqueue[i]].secret = vop[vqueue[i]].secret,
           vault' = vault \/ (vault' = NoVault /\ ~Waits) \/ (vqueue = <<>> /\ vault' = vfile)
    PROVE  PromisesHeld'
<1>1. PromisesHeld
    BY DEF VaultInv
<1>2. copy # NoVault => vop'[vqueue[1]].secret = vop[vqueue[1]].secret
    BY QueueIndices
<1>3. Waits' = Waits
    BY DEF Waits
<1>4. vqueue = <<>> => Len(vqueue) = 0 /\ copy = NoVault /\ ~Waits
    BY QueueIndices DEF Waits
<1> QED
    BY <1>1, <1>2, <1>3, <1>4 DEF PromisesHeld

(* The steps of a call before it asks for a write.                         *)
LEMMA UnlockKeeps ==
    ASSUME VaultInv, NEW o \in VaultOp, NEW right \in BOOLEAN, Unlock(o, right)
    PROVE  VaultInv'
<1> USE VaultTexts DEF Unlock, Calls, NoCall
<1>1. VaultTypes'
    BY DEF VaultInv, VaultTypes, VaultCall
<1>2. QueueOfSaves'
    BY DEF VaultInv, VaultTypes, VaultCall, QueueOfSaves
<1>3. ASSUME ~slip' PROVE MadeOnce' /\ PromisesHeld'
    <2>1. MadeOnce'
        BY <1>3 DEF VaultInv, VaultTypes, VaultCall, MadeOnce, Creating
    <2>2. \A i \in 1..Len(vqueue) : vop'[vqueue[i]].secret = vop[vqueue[i]].secret
        BY QueueIndices DEF VaultInv, VaultTypes, VaultCall
    <2> QED
        BY <1>3, <2>1, <2>2, PromisesCarried
<1> QED
    BY <1>1, <1>2, <1>3 DEF VaultInv

LEMMA ReadKeeps ==
    ASSUME VaultInv, NEW o \in VaultOp, ReadVault(o)
    PROVE  VaultInv'
<1> USE VaultTexts DEF ReadVault, NoCall
<1>1. VaultTypes'
    BY DEF VaultInv, VaultTypes, VaultCall
<1>2. QueueOfSaves'
    BY DEF VaultInv, VaultTypes, VaultCall, QueueOfSaves
<1>3. ASSUME ~slip' PROVE MadeOnce' /\ PromisesHeld'
    <2>1. vfile # NullVault /\ vfile # NoVault
        BY <1>3 DEF VaultInv, MadeOnce, PromisesHeld
    <2>2. MadeOnce'
        BY <1>3, <2>1, ZenonT(60) DEF VaultInv, VaultTypes, VaultCall, MadeOnce
    <2>3. \A i \in 1..Len(vqueue) : vop'[vqueue[i]].secret = vop[vqueue[i]].secret
        BY <2>1, QueueIndices DEF VaultInv, VaultTypes, VaultCall
    <2> QED
        BY <1>3, <2>1, <2>2, <2>3, PromisesCarried
<1> QED
    BY <1>1, <1>2, <1>3 DEF VaultInv

LEMMA DerivedKeeps ==
    ASSUME VaultInv, NEW o \in VaultOp, Derived(o)
    PROVE  VaultInv'
<1> USE VaultTexts DEF Derived, Ends, NoCall
<1>1. VaultTypes'
    BY DEF VaultInv, VaultTypes, VaultCall
<1>2. QueueOfSaves'
    BY DEF VaultInv, VaultTypes, VaultCall, QueueOfSaves
<1>3. \A i \in 1..Len(vqueue) : vqueue[i] # o
    BY DEF VaultInv, VaultTypes, QueueOfSaves
<1>4. ASSUME ~slip' PROVE MadeOnce' /\ PromisesHeld'
    <2>1. MadeOnce'
        BY <1>4 DEF VaultInv, VaultTypes, VaultCall, MadeOnce
    <2>2. \A i \in 1..Len(vqueue) : vop'[vqueue[i]].secret = vop[vqueue[i]].secret
        BY <1>3, QueueIndices DEF VaultInv, VaultTypes
    <2>3. vault' = vault \/ (vault' = NoVault /\ ~Waits)
        BY <1>4
    <2>4. UNCHANGED <<vfile, vqueue, copy, promised>>
        OBVIOUS
    <2>5. ~slip
        BY <1>4
    <2>6. PromisesHeld'
        BY <2>2, <2>3, <2>4, <2>5, PromisesCarried
    <2> QED
        BY <2>1, <2>6
<1> QED
    BY <1>1, <1>2, <1>4 DEF VaultInv

(* A call that asks for a write joins the end of the queue.                *)
LEMMA JoinedQueue ==
    ASSUME VaultInv, NEW o \in VaultOp, vop[o].at # "saving", vqueue' = Append(vqueue, o)
    PROVE  /\ vqueue' \in Seq(VaultOp) /\ Len(vqueue') = Len(vqueue) + 1
           /\ \A i \in 1..Len(vqueue) : vqueue'[i] = vqueue[i] /\ vqueue[i] # o
           /\ vqueue'[Len(vqueue')] = o
           /\ \A i, j \in 1..Len(vqueue') : vqueue'[i] = vqueue'[j] => i = j
           /\ vqueue' # <<>>
<1> USE DEF VaultInv, VaultTypes, QueueOfSaves
<1>1. /\ vqueue' \in Seq(VaultOp) /\ Len(vqueue') = Len(vqueue) + 1
      /\ \A i \in 1..Len(vqueue) : vqueue'[i] = vqueue[i]
      /\ vqueue'[Len(vqueue')] = o
    OBVIOUS
<1>2. \A i \in 1..Len(vqueue) : vqueue[i] # o
    OBVIOUS
<1>3. \A i, j \in 1..Len(vqueue') : vqueue'[i] = vqueue'[j] => i = j
    BY <1>1, <1>2
<1> QED
    BY <1>1, <1>2, <1>3

LEMMA CreatedKeeps ==
    ASSUME VaultInv, NEW o \in VaultOp, Created(o)
    PROVE  VaultInv'
<1> USE VaultTexts DEF Created
<1>1. VaultTypes'
    BY DEF VaultInv, VaultTypes, VaultCall
<1>2. QueueOfSaves'
    BY JoinedQueue DEF VaultInv, VaultTypes, QueueOfSaves
<1>3. ASSUME ~slip' PROVE MadeOnce' /\ PromisesHeld'
    <2>1. vqueue = <<>> /\ Len(vqueue) = 0 /\ copy = NoVault /\ vfile = NoVault /\ promised = {}
        BY <1>3, QueueIndices DEF VaultInv, MadeOnce, PromisesHeld
    <2>2. MadeOnce'
        BY <1>3 DEF VaultInv, VaultTypes, VaultCall, MadeOnce
    <2>3. /\ vault' = Holding({}) /\ copy' = NoVault /\ vfile' = NoVault /\ promised' = {}
          /\ vault'.ids = {} /\ vfile'.ids = {}
        BY <2>1
    <2>4. vop'[o].secret = {}
        BY DEF VaultInv, VaultTypes, VaultCall, QueueOfSaves
    <2>5. Len(vqueue') = 1 /\ vqueue'[1] = o
        BY <2>1, JoinedQueue
    <2>6. PromisesHeld'
        BY <2>3, <2>4, <2>5 DEF PromisesHeld
    <2> QED
        BY <2>2, <2>6
<1> QED
    BY <1>1, <1>2, <1>3 DEF VaultInv

LEMMA SetKeeps ==
    ASSUME VaultInv, NEW o \in VaultOp, NEW s \in Secret, SetSecret(o, s)
    PROVE  VaultInv'
<1>1. vop[o].at = "idle" /\ vqueue' = Append(vqueue, o) /\ vault # NoVault
    BY DEF SetSecret, Calls, NoCall
<1>2. vop' = [vop EXCEPT ![o] = [at |-> "saving", right |-> TRUE, secret |-> {s}]]
    BY DEF SetSecret, Calls
<1>3. vault.ids \cup {s} \in SUBSET Secret /\ vault' = Holding(vault.ids \cup {s})
    BY VaultTexts DEF SetSecret, VaultInv, VaultTypes
<1>4. UNCHANGED <<vfile, copy, promised, slip>>
    BY DEF SetSecret
<1>5. /\ vop' \in [VaultOp -> VaultCall] /\ vop'[o].at = "saving" /\ vop'[o].secret = {s}
      /\ \A p \in VaultOp \ {o} : vop'[p] = vop[p]
    BY <1>2 DEF VaultInv, VaultTypes, VaultCall
<1>6. VaultTypes'
    BY <1>1, <1>3, <1>4, <1>5, JoinedQueue, VaultTexts DEF VaultInv, VaultTypes
<1>7. QueueOfSaves'
    BY <1>1, <1>4, <1>5, JoinedQueue, QueueIndices, SMTT(30) DEF VaultInv, QueueOfSaves
<1>8. ASSUME ~slip' PROVE MadeOnce' /\ PromisesHeld'
    <2>1. MadeOnce'
        BY <1>1, <1>4, <1>5, <1>8 DEF VaultInv, MadeOnce
    <2>2. vault'.ids = vault.ids \cup {s} /\ vault' # NoVault
        BY <1>3, VaultTexts
    <2>3. \A i \in 1..Len(vqueue') : vop'[vqueue'[i]].secret \subseteq vault'.ids
        BY <1>1, <1>4, <1>5, <1>8, <2>2, JoinedQueue, QueueIndices DEF VaultInv, PromisesHeld
    <2>4. copy' # NoVault => vop'[vqueue'[1]].secret = vop[vqueue[1]].secret
        BY <1>1, <1>4, <1>5, JoinedQueue, QueueIndices
    <2>5. PromisesHeld
        BY <1>4, <1>8 DEF VaultInv
    <2>6. vfile' # NullVault /\ copy' # NullVault /\ promised' \subseteq vfile'.ids
        BY <1>4, <2>5 DEF PromisesHeld
    <2>7. promised' \subseteq vault'.ids
        BY <1>1, <1>4, <2>2, <2>5 DEF PromisesHeld
    <2>8. copy' # NoVault => promised' \cup vop'[vqueue'[1]].secret \subseteq copy'.ids
        BY <1>4, <2>4, <2>5 DEF PromisesHeld
    <2> QED
        BY <2>1, <2>2, <2>3, <2>6, <2>7, <2>8 DEF PromisesHeld
<1> QED
    BY <1>4, <1>6, <1>7, <1>8 DEF VaultInv

LEMMA DeleteKeeps ==
    ASSUME VaultInv, NEW o \in VaultOp, NEW s \in Secret, DeleteSecret(o, s)
    PROVE  VaultInv'
<1>1. vop[o].at = "idle" /\ vqueue' = Append(vqueue, o) /\ vault # NoVault
    BY DEF DeleteSecret, Erases, NoCall
<1>2. vault.ids \ {s} \in SUBSET Secret /\ vault' = Holding(vault.ids \ {s})
    BY VaultTexts DEF DeleteSecret, VaultInv, VaultTypes
<1>3. UNCHANGED <<vfile, copy, slip>> /\ promised' = promised \ {s}
    BY DEF DeleteSecret, Erases
<1>4. /\ vop'[o].at = "saving"
      /\ \A p \in VaultOp : /\ p # o => vop'[p].at = vop[p].at
                            /\ vop'[p].right = vop[p].right /\ vop'[p].secret = vop[p].secret \ {s}
    BY DEF DeleteSecret, Erases
<1>5. vop' \in [VaultOp -> VaultCall]
    <2>1. \A p \in VaultOp :
             /\ vop[p].right \in BOOLEAN /\ vop[p].secret \ {s} \in SUBSET Secret
             /\ (IF p = o THEN "saving" ELSE vop[p].at)
                   \in {"idle", "creating", "reading", "deriving", "saving"}
        BY DEF VaultInv, VaultTypes, VaultCall
    <2> QED
        BY <2>1 DEF DeleteSecret, Erases, VaultCall
<1>6. VaultTypes'
    BY <1>1, <1>2, <1>3, <1>5, JoinedQueue, VaultTexts DEF VaultInv, VaultTypes
<1>7. vop[o].secret = {}
    BY DEF DeleteSecret, Erases, NoCall
<1>8. QueueOfSaves'
    BY <1>1, <1>3, <1>4, JoinedQueue, QueueIndices DEF VaultInv, QueueOfSaves
<1>9. ASSUME ~slip' PROVE MadeOnce' /\ PromisesHeld'
    <2>1. MadeOnce /\ PromisesHeld
        BY <1>3, <1>9 DEF VaultInv
    <2>2. MadeOnce'
        BY <1>1, <1>3, <1>4, <2>1 DEF MadeOnce
    <2>3. vault'.ids = vault.ids \ {s} /\ vault' # NoVault
        BY <1>2, VaultTexts
    <2>4. \A i \in 1..Len(vqueue') : vop'[vqueue'[i]].secret \subseteq vault'.ids
        <3>1. \A i \in 1..Len(vqueue) : vop[vqueue[i]].secret \subseteq vault.ids
            BY <1>1, <2>1 DEF PromisesHeld
        <3>2. ASSUME NEW i \in 1..Len(vqueue') PROVE vop'[vqueue'[i]].secret \subseteq vault'.ids
            <4>1. CASE i \in 1..Len(vqueue)
                BY <1>1, <1>4, <2>3, <3>1, <4>1, JoinedQueue, QueueIndices
            <4>2. CASE i = Len(vqueue')
                BY <1>1, <1>4, <1>7, <4>2, JoinedQueue
            <4> QED
                BY <1>1, <4>1, <4>2, JoinedQueue, QueueIndices
        <3> QED
            BY <3>2
    <2>5. copy' # NoVault => vop'[vqueue'[1]].secret = vop[vqueue[1]].secret \ {s}
        BY <1>1, <1>3, <1>4, JoinedQueue, QueueIndices
    <2>6. vfile' # NullVault /\ copy' # NullVault /\ promised' \subseteq vfile'.ids
        BY <1>3, <2>1 DEF PromisesHeld
    <2>7. promised' \subseteq vault'.ids
        BY <1>1, <1>3, <2>1, <2>3 DEF PromisesHeld
    <2>8. copy' # NoVault => promised' \cup vop'[vqueue'[1]].secret \subseteq copy'.ids
        BY <1>3, <2>1, <2>5 DEF PromisesHeld
    <2> QED
        BY <2>2, <2>3, <2>4, <2>6, <2>7, <2>8 DEF PromisesHeld
<1> QED
    BY <1>3, <1>6, <1>8, <1>9 DEF VaultInv

LEMMA SerialiseKeeps == ASSUME VaultInv, Serialise PROVE VaultInv'
<1> USE VaultTexts DEF Serialise
<1>1. VaultTypes' /\ QueueOfSaves'
    BY DEF VaultInv, VaultTypes, QueueOfSaves
<1>2. ASSUME ~slip' PROVE MadeOnce' /\ PromisesHeld'
    BY <1>2, QueueIndices DEF VaultInv, VaultTypes, MadeOnce, PromisesHeld, Waits
<1> QED
    BY <1>1, <1>2 DEF VaultInv

(* The write at the head of the queue ends.                                *)
LEMMA LeftQueue ==
    ASSUME VaultInv, vqueue # <<>>, vqueue' = Tail(vqueue)
    PROVE  /\ vqueue' \in Seq(VaultOp) /\ Len(vqueue') = Len(vqueue) - 1
           /\ \A i \in 1..Len(vqueue') : /\ vqueue'[i] = vqueue[i + 1] /\ i + 1 \in 1..Len(vqueue)
                                         /\ vqueue'[i] # vqueue[1]
           /\ \A i, j \in 1..Len(vqueue') : vqueue'[i] = vqueue'[j] => i = j
           /\ vqueue' # <<>> => Len(vqueue) > 1
<1> USE DEF VaultInv, VaultTypes, QueueOfSaves
<1>1. /\ vqueue' \in Seq(VaultOp) /\ Len(vqueue') = Len(vqueue) - 1
      /\ \A i \in 1..Len(vqueue') : vqueue'[i] = vqueue[i + 1] /\ i + 1 \in 1..Len(vqueue)
    OBVIOUS
<1>2. \A i \in 1..Len(vqueue') : vqueue'[i] # vqueue[1]
    BY <1>1
<1>3. \A i, j \in 1..Len(vqueue') : vqueue'[i] = vqueue'[j] => i = j
    BY <1>1
<1> QED
    BY <1>1, <1>2, <1>3

LEMMA LandsKeeps == ASSUME VaultInv, Lands PROVE VaultInv'
<1> USE VaultTexts DEF Lands, Ends, NoCall
<1>1. vqueue # <<>> /\ Head(vqueue) = vqueue[1] /\ vqueue[1] \in VaultOp
    BY QueueIndices
<1>2. VaultTypes'
    BY <1>1, LeftQueue DEF VaultInv, VaultTypes, VaultCall
<1>3. \A i \in 1..Len(vqueue') : vop'[vqueue'[i]] = vop[vqueue[i + 1]] /\ i + 1 \in 1..Len(vqueue)
    BY <1>1, LeftQueue, QueueIndices DEF VaultInv, VaultTypes
<1>4. QueueOfSaves'
    <2>1. \A o \in VaultOp : vop'[o].at # "saving" => vop'[o].secret = {}
        BY <1>1 DEF VaultInv, VaultTypes, QueueOfSaves
    <2>2. copy' # NoVault => vqueue' # <<>>
        OBVIOUS
    <2> QED
        BY <1>1, <1>3, <2>1, <2>2, LeftQueue DEF VaultInv, QueueOfSaves
<1>5. ASSUME ~slip' PROVE MadeOnce' /\ PromisesHeld'
    <2>1. MadeOnce'
        BY <1>1, <1>5 DEF VaultInv, VaultTypes, VaultCall, MadeOnce
    <2>2. PromisesHeld'
        BY <1>1, <1>3, <1>5, LeftQueue, QueueIndices DEF VaultInv, VaultTypes, PromisesHeld, Waits
    <2> QED
        BY <2>1, <2>2
<1> QED
    BY <1>2, <1>4, <1>5 DEF VaultInv

LEMMA SaveFailsKeeps == ASSUME VaultInv, VaultSaveFails PROVE VaultInv'
<1> USE VaultTexts DEF VaultSaveFails, Ends, NoCall
<1>1. Head(vqueue) = vqueue[1] /\ vqueue[1] \in VaultOp
    BY QueueIndices
<1>2. VaultTypes'
    BY <1>1, LeftQueue DEF VaultInv, VaultTypes, VaultCall
<1>3. \A i \in 1..Len(vqueue') : vop'[vqueue'[i]] = vop[vqueue[i + 1]] /\ i + 1 \in 1..Len(vqueue)
    BY <1>1, LeftQueue, QueueIndices DEF VaultInv, VaultTypes
<1>4. QueueOfSaves'
    <2>1. \A o \in VaultOp : vop'[o].at # "saving" => vop'[o].secret = {}
        BY <1>1 DEF VaultInv, VaultTypes, QueueOfSaves
    <2>2. copy' # NoVault => vqueue' # <<>>
        OBVIOUS
    <2> QED
        BY <1>1, <1>3, <2>1, <2>2, LeftQueue DEF VaultInv, QueueOfSaves
<1>5. ASSUME ~slip' PROVE MadeOnce' /\ PromisesHeld'
    <2>1. MadeOnce'
        BY <1>1, <1>5 DEF VaultInv, VaultTypes, VaultCall, MadeOnce
    <2>2. PromisesHeld'
        BY <1>1, <1>3, <1>5, LeftQueue, QueueIndices DEF VaultInv, VaultTypes, PromisesHeld, Waits
    <2> QED
        BY <2>1, <2>2
<1> QED
    BY <1>2, <1>4, <1>5 DEF VaultInv

LEMMA LockKeeps == ASSUME VaultInv, Lock PROVE VaultInv'
<1> USE VaultTexts DEF Lock
<1>1. VaultTypes' /\ QueueOfSaves'
    BY DEF VaultInv, VaultTypes, QueueOfSaves
<1>2. ASSUME ~slip' PROVE MadeOnce' /\ PromisesHeld'
    <2>1. MadeOnce'
        BY <1>2 DEF VaultInv, MadeOnce
    <2> QED
        BY <1>2, <2>1, PromisesCarried
<1> QED
    BY <1>1, <1>2 DEF VaultInv

LEMMA RestartKeeps == ASSUME VaultInv, VaultRestart PROVE VaultInv'
<1> USE VaultTexts DEF VaultRestart, NoCall
<1>1. VaultTypes' /\ QueueOfSaves'
    BY DEF VaultInv, VaultTypes, VaultCall, QueueOfSaves
<1>2. ASSUME ~slip' PROVE MadeOnce' /\ PromisesHeld'
    BY <1>2 DEF VaultInv, VaultTypes, MadeOnce, PromisesHeld, Waits
<1> QED
    BY <1>1, <1>2 DEF VaultInv

LEMMA VaultStepInv == VaultInv /\ [VaultNext]_vaultVars => VaultInv'
<1> SUFFICES ASSUME VaultInv, [VaultNext]_vaultVars PROVE VaultInv'
    OBVIOUS
<1>1. CASE UNCHANGED vaultVars
    BY <1>1 DEF vaultVars, VaultInv, VaultTypes, QueueOfSaves, MadeOnce, PromisesHeld, Waits
<1>2. CASE VaultNext
    BY <1>2, UnlockKeeps, ReadKeeps, DerivedKeeps, CreatedKeeps, SetKeeps, DeleteKeeps, SerialiseKeeps,
       LandsKeeps, SaveFailsKeeps, LockKeeps, RestartKeeps DEF VaultNext
<1> QED
    BY <1>1, <1>2

(* The file never becomes the text `null', and a password that was saved   *)
(* is on disk until it is deleted (credentials.ts persist), but for the    *)
(* slip of a lock, or of a second reading.                                 *)
LEMMA VaultInvHolds == VaultInv => VaultStaysAVault /\ SavedIsSaved
BY DEF VaultInv, PromisesHeld, VaultStaysAVault, SavedIsSaved

-----------------------------------------------------------------------------
(* Connections                                                             *)

ConnRecord == [there : BOOLEAN, addr : Nat, cert : Nat]
ConnCall == [at : {"idle", "asked", "saving", "secret", "copying"}, conn : SUBSET Conn,
             to : SUBSET Conn, then : {"nothing", "set", "forget", "copy", "delete"}, addr : Nat]
(* Whose password a call will set.                                         *)
Target(e) == IF e.to = {} THEN e.conn ELSE e.to
Sets(e) == e.then \in {"set", "copy"}

ConnTypes ==
    /\ conn \in [Conn -> ConnRecord] /\ cop \in [ConnOp -> ConnCall]
    /\ secrets \subseteq Conn /\ stored \subseteq Conn /\ residue \subseteq Conn

(* A call that will set a password is for a connection that is there, or   *)
(* was removed beside it; and once its change is written, that one was on  *)
(* disk.                                                                   *)
CallsFollow ==
    \A o \in ConnOp :
        /\ cop[o].at \in {"idle", "asked"} => cop[o].then = "nothing"
        /\ cop[o].at = "copying" => cop[o].then = "copy"
        /\ cop[o].then = "copy" <=> cop[o].to # {}
        /\ Sets(cop[o]) =>
              /\ \A c \in Target(cop[o]) : conn[c].there \/ c \in residue
              /\ cop[o].at \in {"secret", "copying"} => Target(cop[o]) \subseteq stored \cup residue

ConnInv == ConnTypes /\ CallsFollow /\ NoOrphans /\ SecretsFollow /\ TrustFollowsAddress

LEMMA ConnInitInv == ConnInit => ConnInv
BY DEF ConnInit, ConnInv, ConnTypes, CallsFollow, NoOrphans, SecretsFollow, TrustFollowsAddress,
       ConnRecord, ConnCall, Unborn, NoEdit, Sets, Target

(* A call begins with a change that is to be written.                      *)
LEMMA CallBegins ==
    ASSUME ConnInv, NEW o \in ConnOp, NEW c \in Conn, NEW to \in SUBSET Conn,
           NEW then \in {"nothing", "set", "forget", "copy", "delete"}, Saves(o, c, to, then)
    PROVE  /\ cop' \in [ConnOp -> ConnCall] /\ cop[o].then = "nothing"
           /\ cop'[o] = [at |-> "saving", conn |-> {c}, to |-> to, then |-> then, addr |-> 0]
           /\ \A p \in ConnOp \ {o} : cop'[p] = cop[p]
<1>1. cop[o] = NoEdit
    BY DEF Saves
<1>2. cop' = [cop EXCEPT ![o] = [at |-> "saving", conn |-> {c}, to |-> to, then |-> then, addr |-> 0]]
    BY DEF Saves
<1>3. [at |-> "saving", conn |-> {c}, to |-> to, then |-> then, addr |-> 0] \in ConnCall
    BY DEF ConnCall
<1> QED
    BY <1>1, <1>2, <1>3 DEF ConnInv, ConnTypes, NoEdit

LEMMA CallEnds ==
    ASSUME ConnInv, NEW o \in ConnOp, EndsEdit(o)
    PROVE  /\ cop' \in [ConnOp -> ConnCall] /\ cop'[o] = NoEdit
           /\ \A p \in ConnOp \ {o} : cop'[p] = cop[p]
<1>1. NoEdit \in ConnCall
    BY DEF ConnCall, NoEdit
<1> QED
    BY <1>1 DEF ConnInv, ConnTypes, EndsEdit

(* A record changes its fields, or takes the place of another.             *)
LEMMA RecordChanges ==
    ASSUME ConnInv, NEW c \in Conn, NEW r \in ConnRecord, conn' = [conn EXCEPT ![c] = r]
    PROVE  /\ conn' \in [Conn -> ConnRecord] /\ conn'[c] = r
           /\ \A d \in Conn \ {c} : conn'[d] = conn[d]
BY DEF ConnInv, ConnTypes

LEMMA AddKeeps ==
    ASSUME ConnInv, NEW o \in ConnOp, NEW c \in Conn, NEW then \in {"set", "nothing"}, Add(o, c, then)
    PROVE  ConnInv'
<1> DEFINE a == CHOOSE x \in Address : TRUE
           r == [there |-> TRUE, addr |-> a, cert |-> 0]
<1>1. r \in ConnRecord
    <2>1. a \in Address
        BY ConnectionsAssumption
    <2> QED
        BY <2>1, ConnectionsAssumption DEF ConnRecord
<1>2. /\ conn' \in [Conn -> ConnRecord] /\ conn'[c] = r
      /\ \A d \in Conn \ {c} : conn'[d] = conn[d]
    BY <1>1, RecordChanges DEF Add
<1>3. /\ cop' \in [ConnOp -> ConnCall] /\ cop[o].then = "nothing"
      /\ cop'[o] = [at |-> "saving", conn |-> {c}, to |-> {}, then |-> then, addr |-> 0]
      /\ \A p \in ConnOp \ {o} : cop'[p] = cop[p]
    <2>1. {} \in SUBSET Conn /\ then \in {"nothing", "set", "forget", "copy", "delete"}
        OBVIOUS
    <2>2. Saves(o, c, {}, then)
        BY DEF Add
    <2> QED
        BY <2>1, <2>2, CallBegins, ZenonT(60)
<1>4. UNCHANGED <<secrets, stored, residue, crossed>>
    BY DEF Add
<1> HIDE DEF r
<1>5. ConnTypes'
    BY <1>2, <1>3, <1>4 DEF ConnInv, ConnTypes
<1>6. r.there /\ r.cert = 0 /\ r.addr = a
    BY DEF r
<1>7. \A d \in Conn : conn[d].there => conn'[d].there
    BY <1>2, <1>6
<1>8. CallsFollow'
    BY <1>2, <1>3, <1>4, <1>6, <1>7 DEF ConnInv, ConnTypes, ConnCall, CallsFollow, Sets, Target
<1>9. NoOrphans'
    BY <1>3, <1>4, <1>7 DEF ConnInv, ConnTypes, NoOrphans
<1>10. SecretsFollow' /\ TrustFollowsAddress'
    BY <1>2, <1>4, <1>6 DEF ConnInv, SecretsFollow, TrustFollowsAddress
<1> QED
    BY <1>5, <1>8, <1>9, <1>10 DEF ConnInv

(* A call that begins and leaves the list as it is.                        *)
LEMMA UpdateKeeps ==
    ASSUME ConnInv, NEW o \in ConnOp, NEW c \in Conn, NEW then \in {"set", "forget", "nothing"},
           Update(o, c, then)
    PROVE  ConnInv'
<1>1. /\ cop' \in [ConnOp -> ConnCall] /\ cop[o].then = "nothing"
      /\ cop'[o] = [at |-> "saving", conn |-> {c}, to |-> {}, then |-> then, addr |-> 0]
      /\ \A p \in ConnOp \ {o} : cop'[p] = cop[p]
    <2>1. {} \in SUBSET Conn /\ then \in {"nothing", "set", "forget", "copy", "delete"}
        OBVIOUS
    <2>2. Saves(o, c, {}, then)
        BY DEF Update
    <2> QED
        BY <2>1, <2>2, CallBegins, ZenonT(60)
<1>2. UNCHANGED <<conn, secrets, stored, residue, crossed>> /\ conn[c].there
    BY DEF Update
<1>3. ConnTypes' /\ SecretsFollow' /\ TrustFollowsAddress'
    BY <1>1, <1>2 DEF ConnInv, ConnTypes, SecretsFollow, TrustFollowsAddress
<1>4. CallsFollow'
    BY <1>1, <1>2 DEF ConnInv, ConnTypes, ConnCall, CallsFollow, Sets, Target
<1>5. NoOrphans'
    BY <1>1, <1>2 DEF ConnInv, NoOrphans
<1> QED
    BY <1>3, <1>4, <1>5 DEF ConnInv

LEMMA MoveKeeps ==
    ASSUME ConnInv, NEW o \in ConnOp, NEW c \in Conn, NEW a \in Address, Move(o, c, a)
    PROVE  ConnInv'
<1>1. /\ cop' \in [ConnOp -> ConnCall] /\ cop[o].then = "nothing"
      /\ cop'[o] = [at |-> "saving", conn |-> {c}, to |-> {}, then |-> "nothing", addr |-> 0]
      /\ \A p \in ConnOp \ {o} : cop'[p] = cop[p]
    BY CallBegins DEF Move
<1>2. /\ conn' \in [Conn -> ConnRecord] /\ \A d \in Conn \ {c} : conn'[d] = conn[d]
      /\ conn'[c].there = conn[c].there /\ conn'[c].addr = a
      /\ conn'[c].cert = IF a = conn[c].addr THEN conn[c].cert ELSE 0
    BY ConnectionsAssumption DEF Move, ConnInv, ConnTypes, ConnRecord
<1>3. UNCHANGED <<secrets, stored, residue, crossed>> /\ conn[c].there
    BY DEF Move
<1>4. \A d \in Conn : conn'[d].there = conn[d].there
    BY <1>2
<1>5. ConnTypes' /\ SecretsFollow'
    BY <1>1, <1>2, <1>3 DEF ConnInv, ConnTypes, SecretsFollow
<1>6. TrustFollowsAddress'
    BY <1>2, <1>3 DEF ConnInv, TrustFollowsAddress
<1>7. CallsFollow'
    BY <1>1, <1>3, <1>4, SMTT(30) DEF ConnInv, ConnTypes, ConnCall, CallsFollow, Sets, Target
<1>8. NoOrphans'
    BY <1>1, <1>3, <1>4 DEF ConnInv, ConnTypes, NoOrphans
<1> QED
    BY <1>5, <1>6, <1>7, <1>8 DEF ConnInv

LEMMA PromptKeeps ==
    ASSUME ConnInv, NEW o \in ConnOp, NEW c \in Conn, Prompt(o, c)
    PROVE  ConnInv'
<1>1. cop[o] = NoEdit /\ UNCHANGED <<conn, secrets, stored, residue, crossed>>
    BY DEF Prompt
<1>2. /\ cop' \in [ConnOp -> ConnCall] /\ \A p \in ConnOp \ {o} : cop'[p] = cop[p]
      /\ cop'[o].at = "asked" /\ cop'[o].then = "nothing" /\ cop'[o].to = {}
    BY DEF Prompt, ConnInv, ConnTypes, ConnCall, ConnRecord
<1>3. ConnTypes' /\ SecretsFollow' /\ TrustFollowsAddress'
    BY <1>1, <1>2 DEF ConnInv, ConnTypes, SecretsFollow, TrustFollowsAddress
<1>4. CallsFollow'
    BY <1>1, <1>2 DEF ConnInv, CallsFollow, Sets, Target
<1>5. NoOrphans'
    BY <1>1, <1>2 DEF ConnInv, NoOrphans, NoEdit
<1> QED
    BY <1>3, <1>4, <1>5 DEF ConnInv

LEMMA TrustKeeps ==
    ASSUME ConnInv, NEW o \in ConnOp, Trust(o)
    PROVE  ConnInv'
<1>1. PICK c \in cop[o].conn : /\ conn[c].there /\ conn' = [conn EXCEPT ![c].cert = cop[o].addr]
                               /\ crossed' = (crossed \/ conn[c].addr # cop[o].addr)
    BY DEF Trust
<1>2. c \in Conn /\ cop[o].addr \in Nat
    BY DEF ConnInv, ConnTypes, ConnCall
<1>3. /\ conn' \in [Conn -> ConnRecord] /\ \A d \in Conn \ {c} : conn'[d] = conn[d]
      /\ conn'[c].there = conn[c].there /\ conn'[c].addr = conn[c].addr /\ conn'[c].cert = cop[o].addr
    BY <1>1, <1>2 DEF ConnInv, ConnTypes, ConnRecord
<1>4. UNCHANGED <<secrets, stored, residue>> /\ cop[o].at = "asked"
    BY DEF Trust
<1>5. /\ cop' \in [ConnOp -> ConnCall] /\ \A p \in ConnOp \ {o} : cop'[p] = cop[p]
      /\ cop'[o].at = "saving" /\ cop'[o].then = cop[o].then /\ cop'[o].to = cop[o].to
      /\ cop'[o].conn = cop[o].conn
    BY DEF Trust, ConnInv, ConnTypes, ConnCall
<1>6. \A d \in Conn : conn'[d].there = conn[d].there
    BY <1>2, <1>3
<1>7. ConnTypes' /\ SecretsFollow'
    BY <1>3, <1>4, <1>5 DEF ConnInv, ConnTypes, SecretsFollow
<1>8. TrustFollowsAddress'
    BY <1>1, <1>3 DEF ConnInv, TrustFollowsAddress
<1>9. CallsFollow'
    BY <1>4, <1>5, <1>6 DEF ConnInv, ConnTypes, ConnCall, CallsFollow, Sets, Target
<1>10. NoOrphans'
    BY <1>4, <1>5, <1>6 DEF ConnInv, ConnTypes, NoOrphans
<1> QED
    BY <1>7, <1>8, <1>9, <1>10 DEF ConnInv

LEMMA DuplicateKeeps ==
    ASSUME ConnInv, NEW o \in ConnOp, NEW c \in Conn, NEW d \in Conn, Duplicate(o, c, d)
    PROVE  ConnInv'
<1>1. /\ cop' \in [ConnOp -> ConnCall] /\ cop[o].then = "nothing"
      /\ cop'[o] = [at |-> "saving", conn |-> {c}, to |-> {d}, then |-> "copy", addr |-> 0]
      /\ \A p \in ConnOp \ {o} : cop'[p] = cop[p]
    BY CallBegins DEF Duplicate
<1>2. /\ conn' \in [Conn -> ConnRecord] /\ conn'[d] = conn[c]
      /\ \A e \in Conn \ {d} : conn'[e] = conn[e]
    BY DEF Duplicate, ConnInv, ConnTypes
<1>3. UNCHANGED <<secrets, stored, residue, crossed>> /\ conn[c].there
    BY DEF Duplicate
<1>4. \A e \in Conn : conn[e].there => conn'[e].there
    BY <1>2, <1>3
<1>5. ConnTypes' /\ SecretsFollow'
    BY <1>1, <1>2, <1>3 DEF ConnInv, ConnTypes, SecretsFollow
<1>6. TrustFollowsAddress'
    BY <1>2, <1>3 DEF ConnInv, TrustFollowsAddress
<1>7. CallsFollow'
    <2>1. conn'[d].there
        BY <1>2, <1>3
    <2>2. Target(cop'[o]) = {d} /\ cop'[o].at = "saving" /\ cop'[o].then = "copy" /\ cop'[o].to # {}
        BY <1>1 DEF Target
    <2>3. ASSUME NEW p \in ConnOp \ {o}, Sets(cop[p]), NEW e \in Target(cop[p])
          PROVE  conn'[e].there \/ e \in residue'
        BY <1>3, <1>4, <2>3 DEF ConnInv, ConnTypes, ConnCall, CallsFollow, Target
    <2>4. ASSUME NEW p \in ConnOp \ {o}
          PROVE  /\ cop'[p].at \in {"idle", "asked"} => cop'[p].then = "nothing"
                 /\ cop'[p].at = "copying" => cop'[p].then = "copy"
                 /\ cop'[p].then = "copy" <=> cop'[p].to # {}
                 /\ Sets(cop'[p]) /\ cop'[p].at \in {"secret", "copying"}
                       => Target(cop'[p]) \subseteq stored' \cup residue'
        BY <1>1, <1>3, <2>4 DEF ConnInv, CallsFollow
    <2> QED
        BY <1>1, <2>1, <2>2, <2>3, <2>4 DEF CallsFollow
<1>8. NoOrphans'
    BY <1>1, <1>3, <1>4 DEF ConnInv, ConnTypes, NoOrphans
<1> QED
    BY <1>5, <1>6, <1>7, <1>8 DEF ConnInv

LEMMA RemoveKeeps ==
    ASSUME ConnInv, NEW o \in ConnOp, NEW c \in Conn, Remove(o, c)
    PROVE  ConnInv'
<1>1. /\ cop' \in [ConnOp -> ConnCall] /\ cop[o].then = "nothing"
      /\ cop'[o] = [at |-> "saving", conn |-> {c}, to |-> {}, then |-> "delete", addr |-> 0]
      /\ \A p \in ConnOp \ {o} : cop'[p] = cop[p]
    BY CallBegins DEF Remove
<1>2. /\ conn' \in [Conn -> ConnRecord] /\ conn'[c] = Absent
      /\ \A e \in Conn \ {c} : conn'[e] = conn[e]
    <2>1. Absent \in ConnRecord
        BY DEF Absent, ConnRecord
    <2> QED
        BY <2>1, RecordChanges DEF Remove
<1>3. UNCHANGED <<secrets, stored, crossed>> /\ conn[c].there
    BY DEF Remove
<1>4. residue \subseteq residue' /\ residue' \subseteq Conn
    BY DEF Remove, ConnInv, ConnTypes
<1>5. ConnTypes' /\ SecretsFollow'
    BY <1>1, <1>2, <1>3, <1>4 DEF ConnInv, ConnTypes, SecretsFollow
<1>6. TrustFollowsAddress'
    BY <1>2, <1>3 DEF ConnInv, TrustFollowsAddress, Absent
<1>7. \A p \in ConnOp : Sets(cop[p]) /\ c \in Target(cop[p]) => c \in residue'
    BY DEF Remove, Pending, Sets, Target
<1>8. CallsFollow'
    <2>1. ASSUME NEW p \in ConnOp, Sets(cop[p]) PROVE \A d \in Target(cop[p]) : conn'[d].there \/ d \in residue'
        BY <1>2, <1>4, <1>7, <2>1 DEF ConnInv, ConnTypes, ConnCall, CallsFollow, Target
    <2> QED
        BY <1>1, <1>3, <1>4, <2>1 DEF ConnInv, CallsFollow, Sets
<1>9. NoOrphans'
    BY <1>1, <1>2, <1>3, <1>4 DEF ConnInv, ConnTypes, NoOrphans
<1> QED
    BY <1>5, <1>6, <1>8, <1>9 DEF ConnInv

(* A call that ends, or was written, with the list as it is.               *)
LEMMA EndKeeps ==
    ASSUME ConnInv, NEW o \in ConnOp, EndsEdit(o), conn' = conn, crossed' = crossed,
           stored \subseteq stored', stored' \subseteq Conn,
           residue \subseteq residue', residue' \subseteq Conn,
           secrets' \subseteq Conn, secrets' \subseteq stored' \cup residue',
           \A c \in secrets' \ secrets : conn[c].there \/ c \in residue,
           cop[o].then = "delete" => \A c \in secrets' \cap cop[o].conn : conn[c].there \/ c \in residue'
    PROVE  ConnInv'
<1>1. /\ cop' \in [ConnOp -> ConnCall] /\ cop'[o] = NoEdit
      /\ \A p \in ConnOp \ {o} : cop'[p] = cop[p]
    BY CallEnds
<1>2. ConnTypes' /\ SecretsFollow' /\ TrustFollowsAddress'
    BY <1>1 DEF ConnInv, ConnTypes, SecretsFollow, TrustFollowsAddress
<1>3. CallsFollow'
    BY <1>1 DEF ConnInv, ConnTypes, ConnCall, CallsFollow, Sets, Target, NoEdit
<1>4. NoOrphans'
    BY <1>1 DEF ConnInv, NoOrphans
<1> QED
    BY <1>2, <1>3, <1>4 DEF ConnInv

LEMMA DismissKeeps == ASSUME ConnInv, NEW o \in ConnOp, Dismiss(o) PROVE ConnInv'
<1>1. cop[o].then = "nothing"
    BY DEF Dismiss, ConnInv, CallsFollow
<1> QED
    BY <1>1, EndKeeps DEF Dismiss, ConnInv, ConnTypes, SecretsFollow

(* Whatever the call was for is on disk now, or was removed.               *)
LEMMA SavedKeeps == ASSUME ConnInv, NEW o \in ConnOp, Saved(o) PROVE ConnInv'
<1>1. /\ UNCHANGED <<conn, secrets, residue, crossed>> /\ cop[o].at = "saving"
      /\ stored' = stored \cup {c \in Conn : conn[c].there}
    BY DEF Saved
<1>2. CASE cop[o].then = "nothing"
    BY <1>1, <1>2, EndKeeps DEF Saved, ConnInv, ConnTypes, SecretsFollow
<1>3. CASE cop[o].then # "nothing"
    <2>1. /\ cop' \in [ConnOp -> ConnCall] /\ \A p \in ConnOp \ {o} : cop'[p] = cop[p]
          /\ cop'[o].at = "secret" /\ cop'[o].then = cop[o].then /\ cop'[o].to = cop[o].to
          /\ cop'[o].conn = cop[o].conn
        BY <1>1, <1>3 DEF Saved, ConnInv, ConnTypes, ConnCall
    <2>2. ConnTypes' /\ SecretsFollow' /\ TrustFollowsAddress'
        BY <1>1, <2>1 DEF ConnInv, ConnTypes, SecretsFollow, TrustFollowsAddress
    <2>3. Sets(cop[o]) => Target(cop[o]) \subseteq stored' \cup residue
        BY <1>1 DEF ConnInv, ConnTypes, ConnCall, CallsFollow, Target
    <2>4. CallsFollow'
        BY <1>1, <2>1, <2>3 DEF ConnInv, CallsFollow, Sets, Target
    <2>5. NoOrphans'
        BY <1>1, <2>1 DEF ConnInv, NoOrphans
    <2> QED
        BY <2>2, <2>4, <2>5 DEF ConnInv
<1> QED
    BY <1>2, <1>3

LEMMA NotSavedKeeps == ASSUME ConnInv, NEW o \in ConnOp, NotSavedNow(o) PROVE ConnInv'
<1>1. cop[o].conn \subseteq Conn
    BY DEF ConnInv, ConnTypes, ConnCall
<1> QED
    BY <1>1, EndKeeps DEF NotSavedNow, ConnInv, ConnTypes, SecretsFollow

LEMMA SetPasswordKeeps == ASSUME ConnInv, NEW o \in ConnOp, SetPassword(o) PROVE ConnInv'
<1>1. cop[o].conn \subseteq Conn /\ cop[o].then # "delete"
    BY DEF SetPassword, ConnInv, ConnTypes, ConnCall
<1>2. cop[o].then = "set" => /\ cop[o].conn \subseteq stored \cup residue
                             /\ \A c \in cop[o].conn : conn[c].there \/ c \in residue
    BY DEF SetPassword, ConnInv, CallsFollow, Sets, Target
<1> QED
    BY <1>1, <1>2, EndKeeps DEF SetPassword, ConnInv, ConnTypes, SecretsFollow

LEMMA EraseKeeps == ASSUME ConnInv, NEW o \in ConnOp, ErasePassword(o) PROVE ConnInv'
<1>1. cop[o].conn \subseteq Conn
    BY DEF ConnInv, ConnTypes, ConnCall
<1> QED
    BY <1>1, EndKeeps DEF ErasePassword, ConnInv, ConnTypes, SecretsFollow

LEMMA ReadPasswordKeeps == ASSUME ConnInv, NEW o \in ConnOp, ReadPassword(o) PROVE ConnInv'
<1>1. cop[o].at = "secret" /\ cop[o].then = "copy" /\ UNCHANGED <<conn, secrets, stored, residue, crossed>>
    BY DEF ReadPassword
<1>2. CASE EndsEdit(o)
    BY <1>1, <1>2, EndKeeps DEF ConnInv, ConnTypes, SecretsFollow
<1>3. CASE cop' = [cop EXCEPT ![o].at = "copying"]
    <2>1. /\ cop' \in [ConnOp -> ConnCall] /\ \A p \in ConnOp \ {o} : cop'[p] = cop[p]
          /\ cop'[o].at = "copying" /\ cop'[o].then = "copy" /\ cop'[o].to = cop[o].to
          /\ cop'[o].conn = cop[o].conn
        BY <1>1, <1>3 DEF ConnInv, ConnTypes, ConnCall
    <2>2. ConnTypes' /\ SecretsFollow' /\ TrustFollowsAddress'
        BY <1>1, <2>1 DEF ConnInv, ConnTypes, SecretsFollow, TrustFollowsAddress
    <2>3. CallsFollow'
        BY <1>1, <2>1 DEF ConnInv, CallsFollow, Sets, Target
    <2>4. NoOrphans'
        BY <1>1, <2>1 DEF ConnInv, NoOrphans
    <2> QED
        BY <2>2, <2>3, <2>4 DEF ConnInv
<1> QED
    BY <1>2, <1>3 DEF ReadPassword

LEMMA CopyPasswordKeeps == ASSUME ConnInv, NEW o \in ConnOp, CopyPassword(o) PROVE ConnInv'
<1>1. cop[o].to \subseteq Conn /\ cop[o].then = "copy"
    BY DEF CopyPassword, ConnInv, ConnTypes, ConnCall, CallsFollow
<1>2. /\ cop[o].to \subseteq stored \cup residue
      /\ \A c \in cop[o].to : conn[c].there \/ c \in residue
    BY <1>1 DEF CopyPassword, ConnInv, CallsFollow, Sets, Target
<1> QED
    BY <1>1, <1>2, EndKeeps DEF CopyPassword, ConnInv, ConnTypes, SecretsFollow

LEMMA ConnStepInv == ConnInv /\ [ConnNext]_connVars => ConnInv'
<1> SUFFICES ASSUME ConnInv, [ConnNext]_connVars PROVE ConnInv'
    OBVIOUS
<1>1. CASE UNCHANGED connVars \/ LockOrUnlock
    BY <1>1 DEF connVars, LockOrUnlock, ConnInv, ConnTypes, CallsFollow, NoOrphans, SecretsFollow,
                TrustFollowsAddress
<1>2. CASE ConnNext /\ ~LockOrUnlock
    BY <1>2, AddKeeps, UpdateKeeps, MoveKeeps, DuplicateKeeps, PromptKeeps, RemoveKeeps, TrustKeeps,
       DismissKeeps, SavedKeeps, NotSavedKeeps, SetPasswordKeeps, EraseKeeps, ReadPasswordKeeps,
       CopyPasswordKeeps DEF ConnNext
<1> QED
    BY <1>1, <1>2

-----------------------------------------------------------------------------
(* Pairing                                                                 *)

PairAttempt == [at : {"none", "asked", "accepted", "refused"}, grant : BOOLEAN, late : BOOLEAN]
PairDays == day \in Nat /\ trust \in Nat /\ trustFile \in Nat
PairTypes == revoked \in BOOLEAN /\ unwritten \in BOOLEAN /\ attempt \in PairAttempt
(* Trust that was withdrawn is there again only when the host ended before *)
(* it wrote that down.                                                     *)
BackUnwritten == revoked /\ trust # 0 => unwritten

PairInv == PairDays /\ PairTypes /\ BackUnwritten /\ RevokedStaysOut

LEMMA PairInitInv == PairInit => PairInv
<1> SUFFICES ASSUME PairInit PROVE PairInv
    OBVIOUS
<1>1. PairDays /\ PairTypes /\ attempt.late = FALSE
    BY DEF PairInit, PairDays, PairTypes, PairAttempt, NoAttempt
<1> QED
    BY <1>1 DEF PairInit, PairInv, BackUnwritten, RevokedStaysOut

LEMMA PairDaysKept == PairDays /\ [PairNext]_pairVars => PairDays'
<1> SUFFICES ASSUME PairDays, [PairNext]_pairVars PROVE PairDays'
    OBVIOUS
<1>1. Lapse \in Nat
    BY PairingAssumption
<1>2. CASE HostDecides \/ \E remember \in BOOLEAN : ConnectAsked(remember)
    <2>1. day + Lapse \in Nat
        BY <1>1 DEF PairDays
    <2>2. trust' \in {trust, day + Lapse, 0} /\ day' = day /\ trustFile' = trustFile
        BY <1>2, Zenon DEF HostDecides, ConnectAsked
    <2> QED
        BY <2>1, <2>2 DEF PairDays
<1>3. CASE ConnectPaired \/ Connected \/ TurnedAway \/ AttemptLost \/ ForgetHost \/ ViewerWrites \/ ViewerStarts
    BY <1>3 DEF ConnectPaired, Connected, TurnedAway, AttemptLost, ForgetHost, ViewerWrites, ViewerStarts,
       PairDays, hostSide
<1>4. CASE Revoke \/ HostWrites \/ HostStarts \/ DayPasses
    BY <1>4 DEF Revoke, HostWrites, HostStarts, DayPasses, PairDays, hostSide
<1>5. CASE UNCHANGED pairVars
    BY <1>5 DEF pairVars, hostSide, PairDays
<1> QED
    BY <1>2, <1>3, <1>4, <1>5 DEF PairNext

LEMMA PairTypesKept == PairTypes /\ [PairNext]_pairVars => PairTypes'
<1> SUFFICES ASSUME PairTypes, [PairNext]_pairVars PROVE PairTypes'
    OBVIOUS
<1> USE DEF PairTypes
<1>1. ASSUME NEW grant \in BOOLEAN, NEW l \in BOOLEAN PROVE Accepted(grant, l) \in PairAttempt
    BY DEF Accepted, PairAttempt
<1>2. /\ NoAttempt \in PairAttempt /\ [NoAttempt EXCEPT !.at = "asked"] \in PairAttempt
      /\ [attempt EXCEPT !.at = "refused"] \in PairAttempt
    BY DEF NoAttempt, PairAttempt
<1>3. ASSUME NEW remember \in BOOLEAN, ConnectAsked(remember) PROVE PairTypes'
    BY <1>1, <1>3, Zenon DEF ConnectAsked
<1>4. CASE ConnectPaired \/ Connected \/ TurnedAway \/ AttemptLost
    BY <1>2, <1>4 DEF ConnectPaired, Connected, TurnedAway, AttemptLost, hostSide
<1>5. CASE HostDecides
    BY <1>1, <1>2, <1>5, Zenon DEF HostDecides
<1>6. CASE Revoke
    BY <1>6, Zenon DEF Revoke
<1>7. CASE ForgetHost \/ HostWrites \/ ViewerWrites \/ ViewerStarts \/ DayPasses
    BY <1>2, <1>7 DEF ForgetHost, HostWrites, ViewerWrites, ViewerStarts, DayPasses, hostSide
<1>8. CASE HostStarts
    BY <1>2, <1>8 DEF HostStarts
<1>9. CASE UNCHANGED pairVars
    BY <1>9 DEF pairVars, hostSide
<1> QED
    BY <1>3, <1>4, <1>5, <1>6, <1>7, <1>8, <1>9 DEF PairNext

LEMMA PairStepInv == PairInv /\ [PairNext]_pairVars => PairInv'
<1> SUFFICES ASSUME PairInv, [PairNext]_pairVars PROVE BackUnwritten' /\ RevokedStaysOut'
    BY PairDaysKept, PairTypesKept DEF PairInv
<1> USE DEF PairInv, BackUnwritten, RevokedStaysOut
<1>1. ASSUME NEW remember \in BOOLEAN, ConnectAsked(remember) PROVE BackUnwritten' /\ RevokedStaysOut'
    BY <1>1 DEF ConnectAsked, Accepted
<1>2. CASE ConnectPaired \/ Connected \/ TurnedAway \/ AttemptLost
    BY <1>2 DEF ConnectPaired, Connected, TurnedAway, AttemptLost, hostSide, NoAttempt
<1>3. CASE HostDecides
    <2>1. trust > day => trust # 0
        BY DEF PairDays
    <2>2. trust > day => BackUnwritten' /\ RevokedStaysOut'
        BY <1>3, <2>1 DEF HostDecides, Accepted
    <2>3. ~(trust > day) => trust' = 0 /\ attempt'.late = attempt.late /\ unwritten' = unwritten
        BY <1>3 DEF HostDecides, PairTypes, PairAttempt
    <2> QED
        BY <2>2, <2>3
<1>4. CASE Revoke \/ HostWrites
    BY <1>4 DEF Revoke, HostWrites
<1>5. CASE ForgetHost \/ ViewerWrites \/ ViewerStarts \/ DayPasses
    BY <1>5 DEF ForgetHost, ViewerWrites, ViewerStarts, DayPasses, hostSide, NoAttempt
<1>6. CASE HostStarts
    BY <1>6 DEF HostStarts, NoAttempt
<1>7. CASE UNCHANGED pairVars
    BY <1>7 DEF pairVars, hostSide
<1> QED
    BY <1>1, <1>2, <1>3, <1>4, <1>5, <1>6, <1>7 DEF PairNext

-----------------------------------------------------------------------------
(* StoredFiles: the settings                                               *)

Inode == 1 .. MaxUpdates + 1

SettingsTypes ==
    /\ settings \in Settings /\ confirmed \in Settings /\ written \in [Updating -> Settings]
    /\ stage \in [Updating -> {"none", "mkdir", "open", "write", "rename"}]
    /\ inode \in [Updating -> Inode \cup {NoInode}]
    /\ content \in [Inode -> Settings \cup {Torn}]
    /\ atFile \in Inode \cup {NoInode} /\ atTmp \in Inode \cup {NoInode}
    /\ updates \in 0..MaxUpdates

(* One update at a time, which alone writes the temporary file.            *)
OneAtATime ==
    \A u \in Updating : stage[u] # "none" => updates # 0 /\ \A v \in Updating : stage[v] # "none" => v = u
TmpIsItsOwn ==
    /\ atFile # NoInode => atTmp # atFile
    /\ \A u \in Updating :
          /\ stage[u] \in {"write", "rename"} => inode[u] = atTmp /\ atTmp # NoInode
          /\ stage[u] = "write" => content[atTmp] = Torn
          /\ stage[u] = "rename" => content[atTmp] = written[u]

SettingsInv ==
    ~overlapped => SettingsTypes /\ OneAtATime /\ TmpIsItsOwn /\ Loaded = confirmed

LEMMA TornIsNone == Torn \notin Settings /\ DEFAULT_SETTINGS \in Settings
<1>1. DOMAIN Torn = {"json"} /\ \A s \in Settings : DOMAIN s = {"enabled", "choice"}
    BY DEF Torn, Settings
<1>2. "json" \notin {"enabled", "choice"}
    OBVIOUS
<1> QED
    BY <1>1, <1>2, SettingsAssumption DEF DEFAULT_SETTINGS, Settings

(* An inode is free beside the one that settings.json is.                  *)
LEMMA FreeIsFree ==
    ASSUME SettingsTypes, OneAtATime, atTmp = NoInode, NEW u \in Updating, stage[u] = "open"
    PROVE  Free \in Inode /\ Free # atFile
<1> DEFINE P(i) == i \notin {atFile, atTmp}
                   /\ \A v \in UnderWay : stage[v] \in {"write", "rename"} => inode[v] # i
<1>1. 1 \in Inode /\ 2 \in Inode
    BY SettingsAssumption DEF Inode, SettingsTypes, OneAtATime
<1>2. \A v \in UnderWay : stage[v] \notin {"write", "rename"}
    BY DEF UnderWay, OneAtATime
<1>3. \E i \in Inode : P(i)
    BY <1>1, <1>2 DEF NoInode
<1>4. Free = CHOOSE i \in Inode : P(i)
    BY DEF Free, Inode
<1> QED
    BY <1>3, <1>4

LEMMA LoadedIsSettings == SettingsTypes => Loaded \in Settings
BY TornIsNone DEF SettingsTypes, Loaded, Sanitized

LEMMA SettingsInitInv == SettingsInit => SettingsInv
<1> SUFFICES ASSUME SettingsInit PROVE SettingsInv
    OBVIOUS
<1>1. SettingsTypes
    BY TornIsNone, SettingsAssumption DEF SettingsInit, SettingsTypes, Inode
<1>2. OneAtATime /\ TmpIsItsOwn /\ Loaded = confirmed
    BY DEF SettingsInit, OneAtATime, TmpIsItsOwn, Loaded, Sanitized
<1> QED
    BY <1>1, <1>2 DEF SettingsInv

LEMMA SettingsStepInv == SettingsInv /\ [SettingsNext]_settingsVars => SettingsInv'
<1> SUFFICES ASSUME SettingsInv, [SettingsNext]_settingsVars, ~overlapped'
             PROVE  SettingsTypes' /\ OneAtATime' /\ TmpIsItsOwn' /\ Loaded' = confirmed'
    BY DEF SettingsInv
<1>1. ~overlapped
    BY DEF SettingsNext, UpdateSettings, Stringifies, OpensSettings, FillsSettings, SettingsWriteFails,
           RenamesSettings, SettingsRestart, settingsVars
<1>2. SettingsTypes /\ OneAtATime /\ TmpIsItsOwn /\ Loaded = confirmed
    BY <1>1 DEF SettingsInv
<1> USE <1>2 DEF SettingsTypes, OneAtATime, TmpIsItsOwn, disk
<1>3. ASSUME NEW u \in Updating, NEW merged \in Settings, UpdateSettings(u, merged)
      PROVE  SettingsTypes' /\ OneAtATime' /\ TmpIsItsOwn' /\ Loaded' = confirmed'
    <2>1. UnderWay = {}
        BY <1>3 DEF UpdateSettings
    <2>2. \A v \in Updating : stage[v] = "none"
        BY <2>1 DEF UnderWay
    <2>3. SettingsTypes'
        BY <1>3, SettingsAssumption DEF UpdateSettings, Goes
    <2>4. OneAtATime' /\ TmpIsItsOwn'
        BY <1>3, <2>2, SettingsAssumption DEF UpdateSettings, Goes
    <2> QED
        BY <1>3, <2>3, <2>4 DEF UpdateSettings, Loaded
<1>4. ASSUME NEW u \in Updating, Stringifies(u)
      PROVE  SettingsTypes' /\ OneAtATime' /\ TmpIsItsOwn' /\ Loaded' = confirmed'
    BY <1>4 DEF Stringifies, Goes, Loaded
<1>5. ASSUME NEW u \in Updating, OpensSettings(u)
      PROVE  SettingsTypes' /\ OneAtATime' /\ TmpIsItsOwn' /\ Loaded' = confirmed'
    <2>1. PICK i \in Inode : /\ i # atFile /\ inode' = [inode EXCEPT ![u] = i] /\ atTmp' = i
                             /\ content' = [content EXCEPT ![i] = Torn]
        BY <1>5, FreeIsFree DEF OpensSettings, OpensTmp
    <2>2. stage' = [stage EXCEPT ![u] = "write"] /\ stage[u] = "open" /\ i # NoInode
          /\ UNCHANGED <<settings, written, confirmed, updates, atFile>>
        BY <1>5, SettingsAssumption DEF OpensSettings, OpensTmp, Goes, Inode, NoInode
    <2>3. SettingsTypes'
        BY <2>1, <2>2
    <2>4. OneAtATime' /\ TmpIsItsOwn'
        BY <2>1, <2>2
    <2>5. Loaded' = Loaded
        BY <2>1, <2>2 DEF Loaded
    <2> QED
        BY <2>2, <2>3, <2>4, <2>5
<1>6. ASSUME NEW u \in Updating, FillsSettings(u)
      PROVE  SettingsTypes' /\ OneAtATime' /\ TmpIsItsOwn' /\ Loaded' = confirmed'
    <2>1. content' = [content EXCEPT ![atTmp] = written[u]] /\ atTmp \in Inode
        BY <1>6 DEF FillsSettings
    <2>2. stage' = [stage EXCEPT ![u] = "rename"] /\ stage[u] = "write"
          /\ UNCHANGED <<settings, written, confirmed, updates, atFile, atTmp, inode>>
        BY <1>6 DEF FillsSettings, Goes
    <2>3. SettingsTypes'
        BY <2>1, <2>2
    <2>4. OneAtATime' /\ TmpIsItsOwn'
        BY <2>1, <2>2
    <2>5. Loaded' = Loaded
        BY <2>1, <2>2 DEF Loaded
    <2> QED
        BY <2>2, <2>3, <2>4, <2>5
<1>7. ASSUME NEW u \in Updating, SettingsWriteFails(u)
      PROVE  SettingsTypes' /\ OneAtATime' /\ TmpIsItsOwn' /\ Loaded' = confirmed'
    BY <1>7 DEF SettingsWriteFails, Goes, Loaded
<1>8. ASSUME NEW u \in Updating, RenamesSettings(u)
      PROVE  SettingsTypes' /\ OneAtATime' /\ TmpIsItsOwn' /\ Loaded' = confirmed'
    <2>1. /\ atFile' = atTmp /\ atTmp' = NoInode /\ confirmed' = written[u] /\ content[atTmp] = written[u]
          /\ atTmp # NoInode /\ stage' = [stage EXCEPT ![u] = "none"]
          /\ UNCHANGED <<settings, written, inode, content, updates>>
        BY <1>8 DEF RenamesSettings, Goes
    <2>2. \A v \in Updating : stage'[v] = "none"
        BY <1>8, <2>1 DEF RenamesSettings
    <2>3. SettingsTypes'
        BY <2>1
    <2>4. OneAtATime' /\ TmpIsItsOwn'
        BY <2>1, <2>2
    <2>5. Loaded' = confirmed'
        BY <2>1, TornIsNone DEF Loaded, Sanitized
    <2> QED
        BY <2>3, <2>4, <2>5
<1>9. CASE SettingsRestart
    BY <1>9, LoadedIsSettings DEF SettingsRestart, Loaded
<1>10. CASE UNCHANGED settingsVars
    BY <1>10 DEF settingsVars, Loaded
<1> QED
    BY <1>3, <1>4, <1>5, <1>6, <1>7, <1>8, <1>9, <1>10 DEF SettingsNext

-----------------------------------------------------------------------------
(* InputAccess                                                             *)

AccessTypes ==
    /\ wayland \in BOOLEAN /\ refused \in BOOLEAN /\ calling \in BOOLEAN
    /\ quitting \in BOOLEAN /\ late \in BOOLEAN
    /\ controller \in {"none", "open"}
    /\ question \in {"none", "connect", "session", "devices", "sources", "start"}

(* The controller is not asked for once it is open; a call is one of an    *)
(* opening; and after a quit that interrupted none there is nothing left.  *)
AskedOnce ==
    /\ question # "none" => controller = "none"
    /\ calling => question # "none"
    /\ quitting => present = {}
    /\ quitting /\ ~late => question = "none" /\ controller = "none"

BusCounts == buses \in Nat /\ leaked \in Nat

(* The token that is kept was not refused, and a token the desktop gives   *)
(* during an opening is none that was.                                     *)
TokensAreGood ==
    /\ attempts \in Nat /\ kept \in Nat /\ offered \in Nat
    /\ kept <= attempts + 1 /\ offered <= attempts /\ rejected \subseteq 0..attempts
    /\ kept # NoToken => kept \notin rejected
    /\ RefusedIsNotOffered

Told == noticed \in [Guest -> {"fine", "busy", "refused"}] /\ DroppedMeansTold

AccessInv == AccessTypes /\ AskedOnce /\ BusCounts /\ BusIsHeld /\ TokensAreGood /\ Told

LEMMA AccessInitInv == AccessInit => AccessInv
<1> SUFFICES ASSUME AccessInit PROVE AccessInv
    OBVIOUS
<1>1. AccessTypes /\ AskedOnce
    BY DEF AccessInit, AccessTypes, AskedOnce
<1>2. BusCounts /\ BusIsHeld
    BY DEF AccessInit, BusCounts, BusIsHeld
<1>3. TokensAreGood /\ Told
    BY DEF AccessInit, TokensAreGood, RefusedIsNotOffered, Told, DroppedMeansTold, NoToken
<1> QED
    BY <1>1, <1>2, <1>3 DEF AccessInv

(* What is held when an opening starts, and when one ends in vain.         *)
LEMMA StartKeeps ==
    ASSUME AccessInv, NEW goes \in BOOLEAN, StartsOpening(goes), goes => MayOpen /\ ~quitting,
           UNCHANGED <<wayland, controller, leaked, kept, rejected>>
    PROVE  /\ question' \in {"none", "connect", "session", "devices", "sources", "start"}
           /\ calling' \in BOOLEAN
           /\ question' # "none" => controller' = "none"
           /\ calling' => question' # "none"
           /\ quitting => question' = question
           /\ BusCounts' /\ BusIsHeld' /\ TokensAreGood'
<1>1. CASE ~goes
    <2>1. UNCHANGED <<question, calling, buses, offered, attempts>>
        BY <1>1 DEF StartsOpening, asking
    <2> QED
        BY <2>1 DEF AccessInv, AccessTypes, AskedOnce, BusCounts, BusIsHeld, TokensAreGood, RefusedIsNotOffered
<1>2. CASE goes
    <2>1. /\ question = "none" /\ controller = "none" /\ question' = "connect" /\ calling' = TRUE
          /\ offered' = kept /\ attempts' = attempts + 1 /\ ~quitting
          /\ buses' = IF wayland THEN buses + 1 ELSE buses
        BY <1>2 DEF StartsOpening, MayOpen
    <2>2. BusCounts' /\ BusIsHeld'
        BY <2>1 DEF AccessInv, AccessTypes, BusCounts, BusIsHeld
    <2>3. TokensAreGood'
        BY <2>1 DEF AccessInv, TokensAreGood, RefusedIsNotOffered, NoToken
    <2> QED
        BY <2>1, <2>2, <2>3
<1> QED
    BY <1>1, <1>2

LEMMA GiveUpKeeps ==
    ASSUME AccessInv, NEW names \in BOOLEAN, NEW reached \in BOOLEAN, Gives(names, reached),
           question # "none", UNCHANGED <<wayland, controller, attempts, audience, quitting, late>>,
           \/ kept' = ForgetsToken(names)
           \/ ~names /\ kept' = attempts + 1
    PROVE  AccessInv'
<1>1. /\ question' = "none" /\ calling' = FALSE /\ refused' = TRUE /\ controller = "none"
      /\ offered' = NoToken
    BY DEF Gives, AccessInv, AskedOnce
<1>2. AccessTypes' /\ AskedOnce'
    <2>1. AccessTypes'
        BY <1>1, Zenon DEF AccessInv, AccessTypes
    <2> QED
        BY <1>1, <2>1 DEF AccessInv, AskedOnce, audience
<1>3. BusCounts' /\ BusIsHeld'
    <2>1. buses = leaked + (IF wayland THEN 1 ELSE 0) /\ BusCounts
        BY <1>1 DEF AccessInv, BusIsHeld
    <2>2. CASE wayland /\ reached /\ question = "connect"
        <3>1. leaked' = leaked + 1 /\ buses' = buses
            BY <2>2 DEF Gives
        <3> QED
            BY <1>1, <2>1, <2>2, <3>1 DEF BusCounts, BusIsHeld
    <2>3. CASE ~(wayland /\ reached /\ question = "connect")
        <3>1. leaked' = leaked /\ buses' = IF wayland THEN buses - 1 ELSE buses
            BY <2>3 DEF Gives
        <3> QED
            BY <1>1, <2>1, <2>3, <3>1 DEF BusCounts, BusIsHeld
    <2> QED
        BY <2>2, <2>3
<1>4. TokensAreGood'
    <2>1. rejected' = rejected \cup (IF names THEN {offered} ELSE {})
        BY DEF Gives
    <2>2. kept' = (IF names THEN NoToken ELSE kept) \/ (~names /\ kept' = attempts + 1)
        BY DEF ForgetsToken
    <2> QED
        BY <1>1, <2>1, <2>2 DEF AccessInv, TokensAreGood, RefusedIsNotOffered, NoToken
<1>5. Told'
    BY DEF AccessInv, Told, DroppedMeansTold, audience
<1> QED
    BY <1>2, <1>3, <1>4, <1>5 DEF AccessInv

LEMMA NextQuestion ==
    ASSUME question \in {"connect", "session", "devices", "sources"}
    PROVE  Steps[1 + CHOOSE i \in 1..4 : Steps[i] = question] \in {"session", "devices", "sources", "start"}
<1> DEFINE P(i) == Steps[i] = question
<1>1. \E i \in 1..4 : P(i)
    BY DEF Steps
<1>2. (CHOOSE i \in 1..4 : P(i)) \in 1..4
    BY <1>1
<1>3. \A i \in 1..4 : Steps[1 + i] \in {"session", "devices", "sources", "start"}
    BY DEF Steps
<1> QED
    BY <1>2, <1>3

LEMMA AccessStepInv == AccessInv /\ [AccessNext]_accessVars => AccessInv'
<1> SUFFICES ASSUME AccessInv, [AccessNext]_accessVars PROVE AccessInv'
    OBVIOUS
<1>1. CASE PrepareInput
    <2>1. /\ StartsOpening(TRUE) /\ MayOpen /\ ~quitting
          /\ UNCHANGED <<wayland, leaked, controller, refused, tokens, audience, quitting, late>>
        BY <1>1, Zenon DEF PrepareInput
    <2>2. UNCHANGED <<kept, rejected, present, noticed, missed>>
        BY <2>1 DEF tokens, audience
    <2>3. /\ question' \in {"none", "connect", "session", "devices", "sources", "start"}
          /\ calling' \in BOOLEAN
          /\ question' # "none" => controller' = "none"
          /\ calling' => question' # "none"
          /\ BusCounts' /\ BusIsHeld' /\ TokensAreGood'
        BY <2>1, <2>2, StartKeeps
    <2>4. AccessTypes'
        BY <2>1, <2>3, Zenon DEF AccessInv, AccessTypes
    <2>5. AskedOnce'
        BY <2>1, <2>2, <2>3, Zenon DEF AccessInv, AskedOnce
    <2>6. Told'
        BY <2>1, <2>2 DEF AccessInv, Told, DroppedMeansTold
    <2> QED
        BY <2>3, <2>4, <2>5, <2>6 DEF AccessInv
<1>2. ASSUME NEW g \in Guest, HostInput, g \in present,
             UNCHANGED <<wayland, leaked, controller, refused, tokens, quitting, late>>,
             present' \subseteq present
      PROVE  AccessTypes' /\ AskedOnce' /\ BusCounts' /\ BusIsHeld' /\ TokensAreGood'
    <2>1. UNCHANGED <<kept, rejected>>
        BY <1>2 DEF tokens
    <2>2. PICK goes \in BOOLEAN : StartsOpening(goes) /\ goes = (MayOpen /\ ~refused /\ Allowed)
        BY <1>2 DEF HostInput
    <2>3. ~quitting
        BY <1>2 DEF AccessInv, AskedOnce
    <2>4. /\ question' \in {"none", "connect", "session", "devices", "sources", "start"}
          /\ calling' \in BOOLEAN
          /\ question' # "none" => controller' = "none"
          /\ calling' => question' # "none"
          /\ BusCounts' /\ BusIsHeld' /\ TokensAreGood'
        BY <1>2, <2>1, <2>2, <2>3, StartKeeps
    <2>5. AccessTypes'
        BY <1>2, <2>4, Zenon DEF AccessInv, AccessTypes
    <2>6. AskedOnce'
        BY <1>2, <2>3, <2>4, Zenon DEF AccessInv, AskedOnce
    <2> QED
        BY <2>4, <2>5, <2>6
<1>3. ASSUME NEW busy \in BOOLEAN PROVE Problem(busy) \in {"fine", "busy", "refused"}
    BY DEF Problem
<1>4. ASSUME NEW g \in Guest, SendsInput(g) PROVE AccessInv'
    <2>1. AccessTypes' /\ AskedOnce' /\ BusCounts' /\ BusIsHeld' /\ TokensAreGood'
        BY <1>2, <1>4 DEF SendsInput
    <2>2. CASE controller = "open"
        BY <1>4, <2>1, <2>2 DEF SendsInput, AccessInv, Told, DroppedMeansTold
    <2>3. CASE controller = "none"
        <3>1. NoticeAfterDrop(g) \in {"busy", "refused"}
            BY <2>3 DEF NoticeAfterDrop, Problem, MayOpen
        <3>2. /\ UNCHANGED <<controller, present>> /\ missed' = missed \cup {g}
              /\ noticed' = [noticed EXCEPT ![g] = NoticeAfterDrop(g)]
            BY <1>4, <2>3 DEF SendsInput
        <3>3. Told'
            BY <3>1, <3>2 DEF AccessInv, Told, DroppedMeansTold
        <3> QED
            BY <2>1, <3>3 DEF AccessInv
    <2> QED
        BY <2>2, <2>3 DEF AccessInv, AccessTypes
<1>5. ASSUME NEW g \in Guest, GoesOut(g) PROVE AccessInv'
    <2>1. AccessTypes' /\ AskedOnce' /\ BusCounts' /\ BusIsHeld' /\ TokensAreGood'
        BY <1>2, <1>5 DEF GoesOut
    <2>2. Told'
        BY <1>5 DEF GoesOut, AccessInv, Told, DroppedMeansTold
    <2> QED
        BY <2>1, <2>2 DEF AccessInv
<1>6. CASE Refresh \/ \E g \in Guest : ComesIn(g)
    <2>1. UNCHANGED <<wayland, leaked, controller, refused, asking, tokens, quitting, late>>
          /\ (present' = present \/ ~quitting)
        BY <1>6 DEF Refresh, ComesIn
    <2>2. AccessTypes' /\ AskedOnce' /\ BusCounts' /\ BusIsHeld' /\ TokensAreGood'
        BY <2>1 DEF AccessInv, AccessTypes, AskedOnce, BusCounts, BusIsHeld, TokensAreGood,
                    RefusedIsNotOffered, asking, tokens
    <2>3. Told'
        <3>1. Problem(question # "none") \in {"fine", "busy", "refused"}
            BY <1>3
        <3>2. CASE Refresh
            BY <3>1, <3>2 DEF Refresh, AccessInv, Told, DroppedMeansTold
        <3>3. ASSUME NEW g \in Guest, ComesIn(g) PROVE Told'
            BY <3>1, <3>3 DEF ComesIn, AccessInv, Told, DroppedMeansTold
        <3> QED
            BY <1>6, <3>2, <3>3
    <2> QED
        BY <2>2, <2>3 DEF AccessInv
<1>7. CASE CallReturns \/ NotPersisted
    <2>1. /\ UNCHANGED <<wayland, leaked, controller, refused, question, buses, attempts, tokens, audience,
                         quitting, late>>
          /\ calling' \in BOOLEAN /\ offered' \in {offered, NoToken}
          /\ question # "none"
        BY <1>7 DEF CallReturns, NotPersisted, AccessInv, AccessTypes, AskedOnce
    <2>2. AccessTypes' /\ AskedOnce' /\ BusCounts' /\ BusIsHeld' /\ Told'
        BY <2>1 DEF AccessInv, AccessTypes, AskedOnce, BusCounts, BusIsHeld, Told, DroppedMeansTold, audience
    <2>3. TokensAreGood'
        BY <2>1 DEF AccessInv, TokensAreGood, RefusedIsNotOffered, NoToken, tokens
    <2> QED
        BY <2>2, <2>3 DEF AccessInv
<1>8. ASSUME NEW names \in BOOLEAN, NEW reached \in BOOLEAN, BusFails(names, reached) PROVE AccessInv'
    <2>1. question # "none"
        BY <1>8 DEF BusFails, AccessInv, AskedOnce
    <2> QED
        BY <1>8, <2>1, GiveUpKeeps DEF BusFails
<1>9. CASE SaysYes
    <2>1. question' \in {"session", "devices", "sources", "start"}
        BY <1>9, NextQuestion DEF SaysYes
    <2>2. /\ UNCHANGED <<wayland, leaked, controller, refused, buses, offered, attempts, tokens, audience,
                         quitting, late>>
          /\ calling' = TRUE /\ question # "none" /\ question' # "none"
        BY <1>9, <2>1 DEF SaysYes
    <2>3. AccessTypes'
        BY <2>1, <2>2, Zenon DEF AccessInv, AccessTypes
    <2>4. AskedOnce' /\ BusCounts' /\ BusIsHeld' /\ TokensAreGood' /\ Told'
        BY <2>2 DEF AccessInv, AskedOnce, BusCounts, BusIsHeld, TokensAreGood, RefusedIsNotOffered,
                    Told, DroppedMeansTold, tokens, audience
    <2> QED
        BY <2>3, <2>4 DEF AccessInv
<1>10. ASSUME NEW token \in {NoToken, attempts + 1}, SaysNo(token) PROVE AccessInv'
    <2>1. kept' = ForgetsToken(FALSE) \/ kept' = attempts + 1
        BY <1>10 DEF SaysNo
    <2> QED
        BY <1>10, <2>1, GiveUpKeeps DEF SaysNo
<1>11. ASSUME NEW token \in {NoToken, attempts + 1}, Opened(token) PROVE AccessInv'
    <2>1. /\ question # "none" /\ controller' = "open" /\ refused' = FALSE /\ question' = "none"
          /\ calling' = FALSE /\ offered' = NoToken
          /\ UNCHANGED <<wayland, leaked, buses, attempts, rejected, audience, quitting, late>>
          /\ kept' \in {kept, attempts + 1}
        BY <1>11 DEF Opened
    <2>2. AccessTypes'
        BY <2>1, Zenon DEF AccessInv, AccessTypes
    <2>3. AskedOnce' /\ BusCounts' /\ BusIsHeld' /\ Told'
        BY <2>1 DEF AccessInv, AskedOnce, BusCounts, BusIsHeld, Told, DroppedMeansTold, audience
    <2>4. TokensAreGood'
        BY <2>1 DEF AccessInv, TokensAreGood, RefusedIsNotOffered, NoToken
    <2> QED
        BY <2>2, <2>3, <2>4 DEF AccessInv
<1>12. CASE Shutdown
    <2>1. /\ present = {} /\ quitting' = TRUE /\ late' = (question # "none") /\ controller' = "none"
          /\ buses' = (IF controller = "open" /\ wayland THEN buses - 1 ELSE buses)
          /\ UNCHANGED <<wayland, leaked, refused, question, calling, offered, attempts, tokens, audience>>
        BY <1>12 DEF Shutdown
    <2>2. AccessTypes' /\ AskedOnce'
        <3>1. AccessTypes'
            BY <2>1, Zenon DEF AccessInv, AccessTypes
        <3>2. AskedOnce'
            BY <2>1, Zenon DEF AccessInv, AskedOnce, audience
        <3> QED
            BY <3>1, <3>2
    <2>3. BusCounts' /\ BusIsHeld'
        BY <2>1 DEF AccessInv, AccessTypes, AskedOnce, BusCounts, BusIsHeld
    <2>4. TokensAreGood' /\ Told'
        BY <2>1 DEF AccessInv, TokensAreGood, RefusedIsNotOffered, Told, DroppedMeansTold, tokens, audience
    <2> QED
        BY <2>2, <2>3, <2>4 DEF AccessInv
<1>13. CASE UNCHANGED accessVars
    BY <1>13 DEF accessVars, asking, tokens, audience, AccessInv, AccessTypes, AskedOnce, BusCounts, BusIsHeld,
                 TokensAreGood, RefusedIsNotOffered, Told, DroppedMeansTold
<1> QED
    BY <1>1, <1>4, <1>5, <1>6, <1>7, <1>8, <1>9, <1>10, <1>11, <1>12, <1>13
       DEF AccessNext, BusAnswers, DesktopAnswers

(* Once quitting found nothing under way, nothing of the portal is held.   *)
LEMMA AccessInvHolds == AccessInv => AccessHolds
<1>1. AccessInv => HandedBack
    BY DEF AccessInv, AskedOnce, BusIsHeld, BusCounts, HandedBack
<1> QED
    BY <1>1 DEF AccessInv, TokensAreGood, Told, AccessHolds

-----------------------------------------------------------------------------
(* The parts together.                                                     *)

StoresInv == FileInv /\ VaultInv /\ ConnInv /\ PairInv /\ AccessInv /\ SettingsInv

LEMMA StoresInitInv == Init => StoresInv
BY FileInitInv, VaultInitInv, ConnInitInv, PairInitInv, AccessInitInv, SettingsInitInv DEF Init, StoresInv

LEMMA StoresStepInv == StoresInv /\ [Next]_vars => StoresInv'
<1> SUFFICES ASSUME StoresInv, [Next]_vars PROVE StoresInv'
    OBVIOUS
<1>1. /\ [FileNext]_fileVars /\ [VaultNext]_vaultVars /\ [ConnNext]_connVars
      /\ [PairNext]_pairVars /\ [AccessNext]_accessVars /\ [SettingsNext]_settingsVars
    BY DEF Next, vars, Filed, Vaulted, Listing, Paired, Asking, Setting
<1> QED
    BY <1>1, FileStepInv, VaultStepInv, ConnStepInv, PairStepInv, AccessStepInv, SettingsStepInv DEF StoresInv

LEMMA StoresInvariance == Spec => []StoresInv
BY StoresInitInv, StoresStepInv, PTL DEF Spec

(* What was written is what was last said.  A queued file that is quiet    *)
(* and whose last write went well holds every change (connections.ts:178); *)
(* settings that were confirmed are found at the next start, but for       *)
(* updates that overlapped (settings.ts:160); trust that was withdrawn     *)
(* lets nobody in with one click unless the host ended before it wrote     *)
(* that down (trusted.ts).                                                 *)
THEOREM WrittenIsLastSaid == Spec => []FilesHold
<1>1. StoresInv => FilesHold
    BY DEF StoresInv, FileInv, PairInv, SettingsInv, FilesHold, ConfirmedIsSaved
<1> QED
    BY <1>1, StoresInvariance, PTL

(* A password that was said to be saved is in the vault's file until it is *)
(* deleted, and that file never becomes the text `null', but for the slip  *)
(* of persist (credentials.ts); the passwords are those of connections     *)
(* that reached the disk and are there, and a certificate is trusted at    *)
(* its own address (connections.ts), whatever fails, overlaps or is killed. *)
THEOREM PasswordsStay == Spec => []PasswordsAreKept
<1>1. StoresInv => PasswordsAreKept
    BY VaultInvHolds DEF StoresInv, ConnInv, PasswordsAreKept
<1> QED
    BY <1>1, StoresInvariance, PTL

(* The bus connection of the portal is held by the opening under way or by *)
(* the controller and by nothing else but the openings that leaked theirs, *)
(* a quit hands everything back, a viewer whose input is dropped has been  *)
(* told, and a token that was refused is not offered again (portal.ts,     *)
(* main.ts prepareInput), for any number of viewers and openings.          *)
THEOREM AccessIsHeldOnce == Spec => []AccessHolds
<1>1. StoresInv => AccessHolds
    BY AccessInvHolds DEF StoresInv
<1> QED
    BY <1>1, StoresInvariance, PTL

LEMMA FileInvariance == FileSpec => []FileInv
BY FileInitInv, FileStepInv, PTL DEF FileSpec

(* A change is not lost behind a write that had already taken its copy     *)
(* (connections.ts:178), however many wait.                                *)
THEOREM LastQueuedWins == FileSpec => []QuietMeansSaved
<1>1. FileInv => QuietMeansSaved
    BY DEF FileInv
<1> QED
    BY <1>1, FileInvariance, PTL

(* Each step is one of Durable or changes neither memory nor file, so what *)
(* a start finds is whole and never older than what one found before.      *)
THEOREM PromiseIsKept == FileSpec => FileIsDurable
<1>1. FileInit => File!Init
    BY DEF FileInit, File!Init
<1>2. FileInv /\ [FileNext]_fileVars => [File!Next]_<<data, file>>
    <2> SUFFICES ASSUME FileInv, [FileNext]_fileVars PROVE [File!Next]_<<data, file>>
        OBVIOUS
    <2> USE DEF File!Next
    <2>1. CASE Changes
        BY <2>1 DEF Changes, File!Change
    <2>2. CASE Opens \/ Fills \/ WriteFails \/ UNCHANGED fileVars
        BY <2>2 DEF Opens, Fills, WriteFails, fileVars
    <2>3. CASE Renames
        <3>1. file' = text /\ text \in file..data /\ data' = data
            BY <2>3 DEF Renames, FileInv, WithinBounds, Between
        <3> QED
            BY <3>1 DEF File!Save
    <2>4. CASE StartsAgain
        BY <2>4 DEF StartsAgain, File!Start
    <2> QED
        BY <2>1, <2>2, <2>3, <2>4 DEF FileNext
<1> QED
    BY <1>1, <1>2, FileInvariance, PTL DEF FileSpec, FileIsDurable, File!Spec
=============================================================================
