--------------------------- MODULE BlobOwnersProofs ---------------------------
(***************************************************************************)
(* Proofs about BlobOwners, for every number of uploads, holders and       *)
(* bodies of the digest and any number of crashes and power losses: types, *)
(* a finished publication keeps its blob, owners keep their bytes within   *)
(* the life of a process, and nothing is unlinked that a state a power     *)
(* loss may leave still needs.                                             *)
(*                                                                         *)
(* IInv is inductive.  CustodyInv says what an age of a key's last change  *)
(* or of its flight's barrier stands for: its owners did not change since. *)
(* SectionInv and MatInv follow a publication from its link to the         *)
(* generation it is materialized under, PublishedInv keeps what they       *)
(* established once the obligation is cleared, and LifeInv ties owners to  *)
(* the registration of the blob's directory.                               *)
(*                                                                         *)
(* Nearly every step is Calm: it commits at most one state that takes no   *)
(* upload back, and leaves the blob's chances.  The lemmas about calm      *)
(* steps come first, then one lemma per action or family of actions.       *)
(***************************************************************************)
EXTENDS BlobOwners, TLAPS

UpStates == {"none", "open", "uploaded", "finalizing", "published", "discarded"}
ResStates == {"none", "publishing", "ready", "released"}
ObStates == {"none", "pending", "materialized"}
States == [up : [Upload -> UpStates], res : [Upload -> ResStates], ref : SUBSET Upload,
           ob : [Upload -> ObStates], uses : SUBSET (Holder \X Upload),
           body : SUBSET Body, row : BOOLEAN]
Turns == [at : {"idle", "link", "commit", "materialize", "clean"},
          ups : SUBSET Upload, g : Age]
Waits == (Age \ {"none"}) \cup {"idle"}

DiskTypes ==
    /\ Survivors \subseteq States
    /\ file \in [Key -> BOOLEAN] /\ may \in [Key -> SUBSET BOOLEAN]
    /\ \A k \in Key : file[k] \in may[k]

MainTypes ==
    /\ alive \in BOOLEAN /\ left \in BOOLEAN /\ pass \in BOOLEAN /\ due \in BOOLEAN
    /\ turn \in Turns /\ redo \subseteq Upload /\ writing \subseteq Upload
    /\ change \in [Key -> Age] /\ wait \in [Key -> Waits] /\ mat \in [Upload -> Age]
    /\ moved \subseteq Key /\ aged \subseteq Key /\ found \subseteq Key /\ reg \subseteq Key
    /\ crashes \in 0..MaxMishaps /\ losses \in 0..MaxLosses

TypeInv == DiskTypes /\ MainTypes

\* One state of the database: how far an upload is, its resource and its obligation.
StateInv(s) ==
    \A u \in Upload :
        /\ s.res[u] # "none" \/ s.ob[u] # "none" => s.up[u] \in {"finalizing", "published"}
        /\ s.up[u] = "finalizing" => s.res[u] = "publishing" /\ s.ob[u] = "pending"
        /\ s.up[u] = "published" => s.res[u] \in {"ready", "released"}

\* A process that is gone has left nothing behind.
DeadInv ==
    ~alive => /\ turn = Idle /\ redo = {} /\ moved = {}
              /\ change = [k \in Key |-> "none"] /\ wait = [k \in Key |-> "idle"]
              /\ mat = [u \in Upload |-> "none"]

\* Owners of a key did not change since the last sync.
Unmoved(k) ==
    \A s \in old : IF k = Blob THEN Owned(s) = Owned(db) ELSE s.up[k] = db.up[k]

CustodyInv ==
    \A k \in Key :
        /\ change[k] \in {"passing", "synced"} => Unmoved(k)
        /\ wait[k] \in {"passing", "synced"} /\ k \notin moved => Unmoved(k)
        /\ k \in moved => change[k] # "none"

\* The blob is on the disk for certain, or will be once a pass has started.
Secure == Certain(Blob) \/ (file[Blob] /\ Blob \in reg)

Settled(u) ==
    \A s \in Survivors :
        /\ s.up[u] \in {"finalizing", "published"}
        /\ s.res[u] \in {"publishing", "ready"} => Certain(Blob)

Needed(u) == db.res[u] \in {"publishing", "ready"}

Publishing == {"link", "commit", "materialize"}

SectionInv ==
    /\ turn.at = "idle" => turn = Idle
    /\ turn.at \in Publishing => \A u, v \in turn.ups : u = v
    /\ turn.at \in Publishing => \A u \in turn.ups :
          /\ db.ob[u] = "pending" /\ mat[u] = "none"
          /\ turn.at # "link" => \/ turn.g = "new" /\ (Needed(u) => Secure)
                                 \/ turn.g = "passing" /\ Settled(u)
          /\ turn.at = "materialize" => db.up[u] = "published" /\ u \in redo
    /\ \A u \in redo : db.ob[u] = "pending" /\ mat[u] = "none"

MatInv ==
    \A u \in Upload :
        /\ mat[u] # "none" => db.ob[u] = "materialized"
        /\ mat[u] = "new" /\ Needed(u) => Secure
        /\ mat[u] = "passing" => Settled(u)
        /\ mat[u] # "synced"

PublishedInv ==
    \A u \in Upload :
        (\E s \in Survivors : s.up[u] = "published" /\ s.ob[u] = "none") => Settled(u)

\* Somebody needs the bytes, or will once an obligation is cleared.
Wants(s) == s.body # {} \/ s.uses # {} \/ \E u \in Upload : s.res[u] = "ready"

LifeInv == crashes + losses = 0 => OwnersKeepBytes /\ (Wants(db) => Secure)

IInv ==
    /\ TypeInv /\ (\A s \in Survivors : StateInv(s)) /\ DeadInv /\ CustodyInv /\ SectionInv
    /\ MatInv /\ PublishedInv /\ LifeInv

-----------------------------------------------------------------------------
\* What a commit never does to an upload: it does not go back from a publication,
\* takes no resource back, and clears no obligation but a settled one.
Onward(u) ==
    /\ db.up[u] = "published" => db'.up[u] = "published"
    /\ db.up[u] = "finalizing" => db'.up[u] \in {"finalizing", "published"}
    /\ Needed(u)' => Needed(u) \/ db.up[u] = "uploaded"
    /\ db'.up[u] = "published" /\ db'.ob[u] = "none"
          => Settled(u) \/ (db.up[u] = "published" /\ db.ob[u] = "none")

\* A step that at most commits such a state and does not touch the blob, but to
\* bring it.
Calm ==
    /\ db' \in States /\ StateInv(db')
    /\ Survivors' = Survivors \cup {db'} /\ old' \subseteq old \cup {db}
    /\ \A u \in Upload : Onward(u)
    /\ Wants(db') => Wants(db) \/ Secure'
    /\ Certain(Blob) => Certain(Blob)'
    /\ Secure => Secure'
    /\ UNCHANGED <<crashes, losses>>

\* The open section stays as it is, or there is none of a publication any more.
TurnKept ==
    /\ turn' \in Turns /\ redo' \subseteq redo
    /\ \/ turn' = turn /\ db' = db /\ redo' = redo
       \/ turn'.at \notin Publishing /\ (turn'.at = "idle" => turn' = Idle)

\* ... and neither starts, ends nor clears an obligation, unless of a new publication.
Ordinary ==
    /\ Calm
    /\ \A u \in Upload : db'.ob[u] = db.ob[u] \/ db.up[u] = "uploaded"
    /\ TurnKept /\ UNCHANGED mat /\ alive'

\* The owners that a key's flight reads are the same before and after.
Same(k) == IF k = Blob THEN Owned(db') = Owned(db) ELSE db'.up[k] = db.up[k]

\* The entries keep their types and the blob its chances.
FilesKept ==
    /\ file' \in [Key -> BOOLEAN] /\ may' \in [Key -> SUBSET BOOLEAN]
    /\ \A k \in Key : file'[k] \in may'[k]
    /\ Certain(Blob) => Certain(Blob)'
    /\ Secure => Secure'

\* What an ordinary step may do to the rest of the main thread and the flusher.
RestKept ==
    /\ writing' \subseteq Upload /\ reg' \subseteq Key
    /\ aged' \subseteq Key /\ found' \subseteq Key
    /\ due' \in BOOLEAN /\ left' \in BOOLEAN
    /\ UNCHANGED <<alive, mat, pass, crashes, losses>>

-----------------------------------------------------------------------------
\* Types of the states that requests and the recovery commit.
LEMMA UpType ==
    ASSUME NEW s \in States, NEW u \in Upload, NEW x \in UpStates
    PROVE  [s EXCEPT !.up[u] = x] \in States
  BY DEF States

LEMMA ResType ==
    ASSUME NEW s \in States, NEW u \in Upload, NEW x \in ResStates
    PROVE  [s EXCEPT !.res[u] = x] \in States
  BY DEF States

LEMMA ObType ==
    ASSUME NEW s \in States, NEW u \in Upload, NEW x \in ObStates
    PROVE  [s EXCEPT !.ob[u] = x] \in States
  BY DEF States

LEMMA RefType ==
    ASSUME NEW s \in States, NEW x \in SUBSET Upload
    PROVE  [s EXCEPT !.ref = x] \in States
  BY DEF States

LEMMA UsesType ==
    ASSUME NEW s \in States, NEW x \in SUBSET (Holder \X Upload)
    PROVE  [s EXCEPT !.uses = x] \in States
  BY DEF States

LEMMA FinalizeType ==
    ASSUME NEW s \in States, NEW u \in Upload
    PROVE  [s EXCEPT !.up[u] = "finalizing", !.res[u] = "publishing",
                     !.ref = @ \cup {u}, !.ob[u] = "pending"] \in States
  BY DEF States, UpStates, ResStates, ObStates

LEMMA PublishType ==
    ASSUME DiskTypes, NEW u \in Upload
    PROVE  /\ Published(u) \in States
           /\ [Published(u) EXCEPT !.ob[u] = "materialized"] \in States
<1>1. Published(u) \in States
  BY DEF Published, DiskTypes, Survivors, States, UpStates, ResStates
<1>2. QED
  BY <1>1, ObType DEF ObStates

\* A commit adds its state to those a power loss may leave.
LEMMA CommitGives ==
    ASSUME NEW s \in States, DiskTypes, Commit(s)
    PROVE  /\ db' = s /\ db' \in States /\ db \in States
           /\ Survivors' = Survivors \cup {db'} /\ Survivors' \subseteq States
           /\ old' \subseteq old \cup {db}
  BY DEF Commit, Survivors, DiskTypes

\* Entries that change come back as they were or as they are.
LEMMA FilesGive ==
    ASSUME DiskTypes, NEW on, NEW off, Files(on, off)
    PROVE  /\ file' \in [Key -> BOOLEAN] /\ may' \in [Key -> SUBSET BOOLEAN]
           /\ \A k \in Key : file'[k] \in may'[k]
           /\ \A k \in Key \cap on : file'[k]
           /\ Blob \notin off => /\ Certain(Blob) => Certain(Blob)'
                                 /\ file[Blob] => file'[Blob]
<1>1. file' \in [Key -> BOOLEAN]
  BY DEF Files, DiskTypes
<1>2. \A k \in Key : may'[k] = may[k] \cup {file'[k]} /\ may[k] \subseteq BOOLEAN
  BY DEF Files, DiskTypes
<1>3. may' \in [Key -> SUBSET BOOLEAN]
  BY <1>1, <1>2 DEF Files
<1>4. \A k \in Key \cap on : file'[k]
  BY DEF Files
<1>5. ASSUME Blob \notin off
      PROVE  /\ Certain(Blob) => Certain(Blob)'
             /\ file[Blob] => file'[Blob]
  <2>1. Blob \in Key /\ file[Blob] \in may[Blob] /\ file[Blob] \in BOOLEAN
    BY DEF Key, DiskTypes
  <2>2. file[Blob] => file'[Blob]
    BY <1>5, <2>1 DEF Files
  <2>3. ASSUME Certain(Blob) PROVE Certain(Blob)'
    <3>1. file[Blob] = TRUE
      BY <2>1, <2>3 DEF Certain
    <3>2. file'[Blob] = TRUE
      BY <1>1, <2>1, <2>2, <3>1
    <3>3. may'[Blob] = {TRUE}
      BY <1>2, <2>1, <2>3, <3>2 DEF Certain
    <3>4. QED
      BY <3>3 DEF Certain
  <2>4. QED
    BY <2>2, <2>3
<1>6. QED
  BY <1>1, <1>2, <1>3, <1>4, <1>5

\* What a note does to the key of a flight.
LEMMA NoteGives ==
    ASSUME MainTypes, NEW keys, NEW starts, keys \subseteq Key, Note(keys, starts)
    PROVE  /\ change' \in [Key -> Age] /\ wait' \in [Key -> Waits] /\ moved' \subseteq Key
           /\ \A k \in keys : /\ change'[k] = "new"
                              /\ wait'[k] = wait[k] \/ wait'[k] = "new"
                              /\ wait[k] # "idle" => wait'[k] = wait[k] /\ k \in moved'
           /\ \A k \in Key \ keys :
                 /\ change'[k] = change[k]
                 /\ \/ wait'[k] = wait[k]
                    \/ wait[k] = "idle" /\ change[k] = "none" /\ wait'[k] = "new"
                    \/ wait[k] = "idle" /\ change[k] # "none" /\ wait'[k] = change[k]
                 /\ k \in moved' <=> k \in moved
<1>1. change' = [k \in Key |-> IF k \in keys THEN "new" ELSE change[k]]
  BY DEF Note, NoteElse
<1>2. moved' = moved \cup {k \in keys : wait[k] # "idle"}
  BY DEF Note, NoteElse
<1>3. wait' = [k \in Key |->
          IF wait[k] # "idle" \/ k \notin starts THEN wait[k]
          ELSE IF change'[k] = "none" THEN "new" ELSE change'[k]]
  BY DEF Note, NoteElse
<1>4. change' \in [Key -> Age]
  BY <1>1 DEF MainTypes, Age
<1>5. wait' \in [Key -> Waits]
  BY <1>3, <1>4 DEF MainTypes, Age, Waits
<1>6. moved' \subseteq Key
  BY <1>2 DEF MainTypes
<1>7. \A k \in keys : /\ change'[k] = "new"
                      /\ wait'[k] = wait[k] \/ wait'[k] = "new"
                      /\ wait[k] # "idle" => wait'[k] = wait[k] /\ k \in moved'
  BY <1>1, <1>2, <1>3
<1>8. \A k \in Key \ keys :
                 /\ change'[k] = change[k]
                 /\ \/ wait'[k] = wait[k]
                    \/ wait[k] = "idle" /\ change[k] = "none" /\ wait'[k] = "new"
                    \/ wait[k] = "idle" /\ change[k] # "none" /\ wait'[k] = change[k]
                 /\ k \in moved' <=> k \in moved
  <2> TAKE k \in Key \ keys
  <2>1. change'[k] = change[k]
    BY <1>1
  <2>2. k \in moved' <=> k \in moved
    BY <1>2
  <2>3. wait'[k] = IF wait[k] # "idle" \/ k \notin starts THEN wait[k]
                   ELSE IF change[k] = "none" THEN "new" ELSE change[k]
    BY <1>3, <2>1
  <2>4. QED
    BY <2>1, <2>2, <2>3
<1>9. QED
  BY <1>4, <1>5, <1>6, <1>7, <1>8

-----------------------------------------------------------------------------
\* What IInv says of the current state, in one place.
LEMMA Current ==
    ASSUME IInv
    PROVE  /\ db \in Survivors /\ db \in States /\ StateInv(db)
           /\ \A s \in old : s \in Survivors /\ s \in States /\ StateInv(s)
           /\ \A u \in Upload : db.up[u] = "uploaded" =>
                 /\ db.res[u] = "none" /\ db.ob[u] = "none" /\ mat[u] = "none" /\ u \notin redo
<1>1. /\ db \in Survivors /\ db \in States /\ StateInv(db)
      /\ \A s \in old : s \in Survivors /\ s \in States /\ StateInv(s)
  BY DEF IInv, TypeInv, DiskTypes, Survivors
<1>2. \A u \in Upload : db.up[u] = "uploaded" =>
                 /\ db.res[u] = "none" /\ db.ob[u] = "none" /\ mat[u] = "none" /\ u \notin redo
  BY <1>1 DEF StateInv, IInv, MatInv, SectionInv
<1>3. QED
  BY <1>1, <1>2

\* A calm step takes nobody's settlement away.
LEMMA CalmKeepsSettled ==
    ASSUME IInv, Calm, NEW u \in Upload, Settled(u)
    PROVE  Settled(u)'
<1> SUFFICES ASSUME NEW s \in Survivors'
             PROVE  /\ s.up[u] \in {"finalizing", "published"}
                    /\ s.res[u] \in {"publishing", "ready"} => Certain(Blob)'
  BY DEF Settled
<1>1. CASE s \in Survivors
  BY <1>1 DEF Settled, Calm
<1>2. CASE s = db'
  <2>1. db \in Survivors
    BY Current
  <2>2. db.up[u] \in {"finalizing", "published"} /\ (Needed(u) => Certain(Blob))
    BY <2>1 DEF Settled, Needed
  <2>3. Onward(u) /\ (Certain(Blob) => Certain(Blob)')
    BY DEF Calm
  <2>4. db'.up[u] \in {"finalizing", "published"}
    BY <2>2, <2>3 DEF Onward
  <2>5. Needed(u)' => Certain(Blob)'
    BY <2>2, <2>3 DEF Onward
  <2>6. QED
    BY <1>2, <2>4, <2>5 DEF Needed
<1>3. QED
  BY <1>1, <1>2 DEF Calm

\* Nor the settlement of what was published, nor the bytes of the owners.
LEMMA CalmKeeps ==
    ASSUME IInv, Calm
    PROVE  (\A s \in Survivors' : StateInv(s)) /\ PublishedInv' /\ LifeInv'
<1>1. \A s \in Survivors' : StateInv(s)
  BY DEF IInv, Calm
<1>2. PublishedInv'
  <2> SUFFICES ASSUME NEW u \in Upload, NEW s \in Survivors',
                      s.up[u] = "published", s.ob[u] = "none"
               PROVE  Settled(u)'
    BY DEF PublishedInv
  <2>1. Settled(u) \/ \E t \in Survivors : t.up[u] = "published" /\ t.ob[u] = "none"
    BY Current DEF Calm, Onward
  <2>2. Settled(u)
    BY <2>1 DEF IInv, PublishedInv
  <2>3. QED
    BY <2>2, CalmKeepsSettled
<1>3. LifeInv'
  <2> SUFFICES ASSUME (crashes + losses = 0)'
               PROVE  OwnersKeepBytes' /\ (Wants(db)' => Secure')
    BY DEF LifeInv
  <2>1. crashes + losses = 0
    BY DEF Calm
  <2>2. OwnersKeepBytes /\ (Wants(db) => Secure)
    BY <2>1 DEF IInv, LifeInv
  <2>3. OwnersKeepBytes'
    BY <2>2 DEF OwnersKeepBytes, Calm
  <2>4. Wants(db') => Secure'
    BY <2>2 DEF Calm
  <2>5. QED
    BY <2>3, <2>4 DEF Wants
<1>4. QED
  BY <1>1, <1>2, <1>3

\* The generation of a materialized obligation stays true while it stays.
LEMMA MatOf ==
    ASSUME IInv, Calm, NEW u \in Upload, mat'[u] = mat[u],
           mat[u] # "none" => db'.ob[u] = db.ob[u]
    PROVE  /\ mat'[u] # "none" => db'.ob[u] = "materialized"
           /\ mat'[u] = "new" /\ Needed(u)' => Secure'
           /\ mat'[u] = "passing" => Settled(u)'
           /\ mat'[u] # "synced"
<1>1. /\ (Secure => Secure') /\ (Settled(u) => Settled(u)')
      /\ Needed(u)' => Needed(u) \/ mat[u] = "none"
  BY Current, CalmKeepsSettled DEF Calm, Onward
<1>2. /\ mat[u] # "none" => db.ob[u] = "materialized"
      /\ mat[u] = "new" /\ Needed(u) => Secure
      /\ mat[u] = "passing" => Settled(u)
      /\ mat[u] # "synced"
  BY DEF IInv, MatInv
<1>3. QED
  BY <1>1, <1>2

LEMMA MatStays ==
    ASSUME IInv, Calm, UNCHANGED mat,
           \A u \in Upload : mat[u] # "none" => db'.ob[u] = db.ob[u]
    PROVE  MatInv'
  BY MatOf DEF MatInv, Needed

\* A calm step keeps the invariant, once its types, its marks, its section and its
\* generations are right.
LEMMA CalmStep ==
    ASSUME IInv, Calm, alive', TypeInv', CustodyInv', SectionInv', MatInv'
    PROVE  IInv'
<1>1. (\A s \in Survivors' : StateInv(s)) /\ PublishedInv' /\ LifeInv'
  BY CalmKeeps
<1>2. DeadInv'
  BY DEF DeadInv
<1>3. QED
  BY <1>1, <1>2 DEF IInv

\* An ordinary step keeps the invariant, once its types and its marks are right.
LEMMA OrdinaryKeeps ==
    ASSUME IInv, Ordinary, TypeInv', CustodyInv'
    PROVE  IInv'
<1>1. Calm /\ alive' /\ UNCHANGED mat
  BY DEF Ordinary
<1>2. \A u \in Upload : mat[u] # "none" \/ u \in redo => db'.ob[u] = db.ob[u]
  BY Current DEF Ordinary
<1>3. \A u \in Upload : Settled(u) => Settled(u)'
  BY <1>1, CalmKeepsSettled
<1>4. MatInv'
  BY <1>1, <1>2, MatStays
<1>5. SectionInv'
  <2>1. UNCHANGED mat /\ redo' \subseteq redo /\ (Secure => Secure') /\ redo \subseteq Upload
    BY DEF Ordinary, Calm, TurnKept, IInv, TypeInv, MainTypes
  <2>2. \A u \in redo' : db'.ob[u] = "pending" /\ mat'[u] = "none"
    BY <1>2, <2>1 DEF IInv, SectionInv
  <2>3. CASE turn' = turn /\ db' = db /\ redo' = redo
    <3> SUFFICES ASSUME turn.at \in Publishing, NEW u \in turn.ups
          PROVE  /\ db'.ob[u] = "pending" /\ mat'[u] = "none"
                 /\ turn.at # "link" => \/ turn.g = "new" /\ (Needed(u)' => Secure')
                                        \/ turn.g = "passing" /\ Settled(u)'
                 /\ turn.at = "materialize" => db'.up[u] = "published" /\ u \in redo
      BY <2>2, <2>3 DEF SectionInv, IInv
    <3>1. u \in Upload
      BY DEF IInv, TypeInv, MainTypes, Turns
    <3>2. /\ db.ob[u] = "pending" /\ mat[u] = "none"
          /\ turn.at # "link" => \/ turn.g = "new" /\ (Needed(u) => Secure)
                                 \/ turn.g = "passing" /\ Settled(u)
          /\ turn.at = "materialize" => db.up[u] = "published" /\ u \in redo
      BY DEF IInv, SectionInv
    <3>3. Needed(u)' => Needed(u)
      BY <2>3 DEF Needed
    <3>4. QED
      BY <1>3, <2>1, <2>3, <3>1, <3>2, <3>3
  <2>4. CASE turn'.at \notin Publishing /\ (turn'.at = "idle" => turn' = Idle)
    BY <2>2, <2>4 DEF SectionInv
  <2>5. QED
    BY <2>3, <2>4 DEF Ordinary, TurnKept
<1>6. QED
  BY <1>1, <1>4, <1>5, CalmStep

\* The marks of a note, when owners change for the noted keys only.
LEMMA NoteKeepsCustody ==
    ASSUME IInv, NEW keys, NEW starts, keys \subseteq Key, Note(keys, starts),
           old' \subseteq old \cup {db}, \A k \in Key \ keys : Same(k)
    PROVE  CustodyInv'
<1> SUFFICES ASSUME NEW k \in Key
             PROVE  /\ change'[k] \in {"passing", "synced"} => Unmoved(k)'
                    /\ wait'[k] \in {"passing", "synced"} /\ k \notin moved' => Unmoved(k)'
                    /\ k \in moved' => change'[k] # "none"
  BY DEF CustodyInv
<1>1. /\ change[k] \in {"passing", "synced"} => Unmoved(k)
      /\ wait[k] \in {"passing", "synced"} /\ k \notin moved => Unmoved(k)
      /\ k \in moved => change[k] # "none"
  BY DEF IInv, CustodyInv
<1>2. /\ k \in keys => /\ change'[k] = "new"
                       /\ wait'[k] = wait[k] \/ wait'[k] = "new"
                       /\ wait[k] # "idle" => wait'[k] = wait[k] /\ k \in moved'
      /\ k \notin keys =>
                 /\ change'[k] = change[k]
                 /\ \/ wait'[k] = wait[k]
                    \/ wait[k] = "idle" /\ change[k] = "none" /\ wait'[k] = "new"
                    \/ wait[k] = "idle" /\ change[k] # "none" /\ wait'[k] = change[k]
                 /\ k \in moved' <=> k \in moved
  BY NoteGives DEF IInv, TypeInv
<1>3. CASE k \in keys
  BY <1>2, <1>3
<1>4. CASE k \notin keys
  <2>1. Unmoved(k) => Unmoved(k)'
    BY <1>4 DEF Same, Unmoved
  <2>2. QED
    BY <1>1, <1>2, <1>4, <2>1
<1>5. QED
  BY <1>3, <1>4

\* The marks stay, and no owner changes.
LEMMA StillKeepsCustody ==
    ASSUME IInv, UNCHANGED custody, old' \subseteq old \cup {db}, \A k \in Key : Same(k)
    PROVE  CustodyInv'
<1>1. \A k \in Key : Unmoved(k) => Unmoved(k)'
  BY DEF Same, Unmoved
<1>2. QED
  BY <1>1 DEF IInv, CustodyInv, custody

-----------------------------------------------------------------------------
\* Files that stay, and files that change without the blob being unlinked.
LEMMA StillFiles ==
    ASSUME IInv, UNCHANGED <<file, may>>, reg \subseteq reg'
    PROVE  FilesKept
<1>1. Certain(Blob) => Certain(Blob)'
  BY DEF Certain
<1>2. QED
  BY <1>1 DEF FilesKept, Secure, IInv, TypeInv, DiskTypes

LEMMA ChangedFiles ==
    ASSUME IInv, NEW on, NEW off, Files(on, off), Blob \notin off, reg \subseteq reg'
    PROVE  FilesKept /\ (Blob \in on => file'[Blob])
<1>1. /\ file' \in [Key -> BOOLEAN] /\ may' \in [Key -> SUBSET BOOLEAN]
      /\ \A k \in Key : file'[k] \in may'[k]
      /\ \A k \in Key \cap on : file'[k]
      /\ Certain(Blob) => Certain(Blob)'
      /\ file[Blob] => file'[Blob]
  BY FilesGive DEF IInv, TypeInv
<1>2. Blob \in Key
  BY DEF Key
<1>3. QED
  BY <1>1, <1>2 DEF FilesKept, Secure

\* Registrations are added.
LEMMA Registered ==
    ASSUME IInv, NEW keys, keys \subseteq Key, Register(keys)
    PROVE  reg \cup keys \subseteq reg' /\ reg' \subseteq Key /\ due' = TRUE
  BY DEF Register, Key, IInv, TypeInv, MainTypes

\* No section is open when a request is served, and it opens none.
LEMMA NoSection ==
    ASSUME IInv, Free, UNCHANGED <<turn, redo>>
    PROVE  alive /\ turn = Idle /\ TurnKept
  BY DEF Free, Idle, At, Publishing, TurnKept, IInv, TypeInv, MainTypes

\* A step that at most commits a state s: what it has to show.
LEMMA StepKeeps ==
    ASSUME IInv, alive, NEW s \in States, Commit(s), StateInv(s), FilesKept, RestKept, TurnKept,
           /\ change' \in [Key -> Age] /\ wait' \in [Key -> Waits] /\ moved' \subseteq Key,
           CustodyInv', Wants(s) => Wants(db) \/ Secure',
           \A u \in Upload : Onward(u) /\ (s.ob[u] = db.ob[u] \/ db.up[u] = "uploaded")
    PROVE  IInv'
<1>1. /\ db' = s /\ Survivors' = Survivors \cup {db'} /\ Survivors' \subseteq States
      /\ old' \subseteq old \cup {db}
  BY CommitGives DEF IInv, TypeInv
<1>2. Ordinary
  BY <1>1 DEF Ordinary, Calm, FilesKept, RestKept
<1>3. TypeInv'
  <2>1. DiskTypes'
    BY <1>1 DEF DiskTypes, FilesKept
  <2>2. MainTypes'
    BY DEF RestKept, TurnKept, IInv, TypeInv, MainTypes
  <2>3. QED
    BY <2>1, <2>2 DEF TypeInv
<1>4. QED
  BY <1>2, <1>3, OrdinaryKeeps

\* ... with its marks.
LEMMA NotedKeeps ==
    ASSUME IInv, alive, NEW s \in States, Commit(s), StateInv(s), FilesKept, RestKept, TurnKept,
           NEW keys, NEW starts, keys \subseteq Key, Note(keys, starts),
           \A k \in Key \ keys : IF k = Blob THEN Owned(s) = Owned(db) ELSE s.up[k] = db.up[k],
           Wants(s) => Wants(db) \/ Secure',
           \A u \in Upload : Onward(u) /\ (s.ob[u] = db.ob[u] \/ db.up[u] = "uploaded")
    PROVE  IInv'
<1>1. db' = s /\ old' \subseteq old \cup {db}
  BY CommitGives DEF IInv, TypeInv
<1>2. CustodyInv'
  BY <1>1, NoteKeepsCustody DEF Same
<1>3. /\ change' \in [Key -> Age] /\ wait' \in [Key -> Waits] /\ moved' \subseteq Key
  BY NoteGives DEF IInv, TypeInv
<1>4. QED
  BY <1>2, <1>3, StepKeeps

\* Steps of an upload before its publication: nothing but how far it is.
LEMMA UploadStep ==
    ASSUME IInv, Free, NEW u \in Upload, NEW x \in {"open", "uploaded", "discarded"},
           db.up[u] \in {"none", "open", "uploaded"},
           Commit([db EXCEPT !.up[u] = x]), FilesKept, RestKept, UNCHANGED <<turn, redo>>,
           NEW starts, Note({u}, starts)
    PROVE  IInv'
<1> DEFINE s == [db EXCEPT !.up[u] = x]
<1>0. db \in States /\ StateInv(db)
  BY Current
<1>1. s \in States
  BY <1>0, UpType DEF UpStates
<1>2. /\ s.up = [db.up EXCEPT ![u] = x] /\ s.res = db.res /\ s.ob = db.ob
      /\ s.ref = db.ref /\ s.uses = db.uses /\ s.body = db.body
  BY <1>0 DEF States
<1>3. \A v \in Upload : s.up[v] = IF v = u THEN x ELSE db.up[v]
  BY <1>0, <1>2 DEF States
<1> HIDE DEF s
<1>4. StateInv(s)
  BY <1>0, <1>2, <1>3 DEF StateInv
<1>5. db' = s
  BY <1>1, CommitGives DEF s, IInv, TypeInv
<1>6. Owned(s) = Owned(db) /\ (Wants(s) => Wants(db))
  BY <1>2 DEF Owned, Wants
<1>7. \A v \in Upload : Onward(v) /\ s.ob[v] = db.ob[v]
  BY <1>0, <1>2, <1>3, <1>5 DEF Onward, Needed, StateInv
<1>8. \A k \in Key \ {u} : IF k = Blob THEN Owned(s) = Owned(db) ELSE s.up[k] = db.up[k]
  BY <1>3, <1>6 DEF Key
<1>9. {u} \subseteq Key /\ Commit(s)
  BY DEF Key, s
<1>10. QED
  BY <1>1, <1>4, <1>6, <1>7, <1>8, <1>9, NoSection, NotedKeeps

-----------------------------------------------------------------------------
\* The requests of an upload before its publication.
LEMMA UploadRequests ==
    ASSUME IInv, NEW u \in Upload,
           Create(u) \/ WriteStart(u) \/ WriteEnd(u) \/ WriteFails(u) \/ Cancel(u)
    PROVE  IInv'
<1>0. /\ db \in States /\ StateInv(db) /\ u \in Key /\ u # Blob
      /\ writing \subseteq Upload /\ reg \subseteq Key /\ aged \subseteq Key
      /\ found \subseteq Key /\ left \in BOOLEAN
  BY Current, KeyAssumption DEF Key, IInv, TypeInv, MainTypes
<1>1. CASE Create(u)
  <2>1. /\ Free /\ db.up[u] = "none" /\ Files({u}, {}) /\ Register({u})
        /\ Commit([db EXCEPT !.up[u] = "open"]) /\ Note({u}, {})
        /\ UNCHANGED writing /\ Still
    BY <1>1 DEF Create, Serving
  <2>2. reg \subseteq reg' /\ reg' \subseteq Key /\ due' = TRUE
    BY <1>0, <2>1, Registered
  <2>3. FilesKept
    BY <2>1, <2>2, ChangedFiles
  <2>4. RestKept /\ UNCHANGED <<turn, redo>>
    BY <1>0, <2>1, <2>2 DEF RestKept, Still, sweep, book
  <2>5. QED
    BY <2>1, <2>3, <2>4, UploadStep
<1>2. CASE WriteStart(u)
  <2>1. /\ Free /\ db.up[u] = "open" /\ writing' = writing \cup {u}
        /\ Note({u}, {}) /\ due' = TRUE /\ UNCHANGED <<disk, reg>> /\ Still
    BY <1>2 DEF WriteStart, Serving
  <2>2. FilesKept
    BY <2>1, StillFiles DEF disk
  <2>3. RestKept /\ UNCHANGED <<turn, redo>>
    BY <1>0, <2>1 DEF RestKept, Still, sweep, book
  <2>4. [db EXCEPT !.up[u] = "open"] = db
    BY <1>0, <2>1 DEF States
  <2>5. Commit([db EXCEPT !.up[u] = "open"])
    BY <2>1, <2>4 DEF Commit, disk
  <2>6. QED
    BY <2>1, <2>2, <2>3, <2>5, UploadStep
<1>3. CASE WriteEnd(u)
  <2>1. /\ Free /\ db.up[u] = "open" /\ writing' = writing \ {u}
        /\ Commit([db EXCEPT !.up[u] = "uploaded"])
        /\ Note({u}, {}) /\ due' = TRUE /\ UNCHANGED <<file, may, reg>> /\ Still
    BY <1>3 DEF WriteEnd, Serving
  <2>2. FilesKept
    BY <2>1, StillFiles
  <2>3. RestKept /\ UNCHANGED <<turn, redo>>
    BY <1>0, <2>1 DEF RestKept, Still, sweep, book
  <2>4. QED
    BY <2>1, <2>2, <2>3, UploadStep
<1>4. CASE WriteFails(u)
  <2> DEFINE next == IF db.up[u] = "open" /\ u \in Import THEN "open"
                     ELSE IF db.up[u] = "open" THEN "discarded" ELSE db.up[u]
  <2>1. /\ Free /\ writing' = writing \ {u}
        /\ Commit([db EXCEPT !.up[u] = next])
        /\ Note({u}, IF next = "open" THEN {} ELSE {u})
        /\ due' = TRUE /\ UNCHANGED <<file, may, reg>> /\ Still
    BY <1>4 DEF WriteFails, Serving
  <2>2. FilesKept
    BY <2>1, StillFiles
  <2>3. RestKept /\ UNCHANGED <<turn, redo>>
    BY <1>0, <2>1 DEF RestKept, Still, sweep, book
  <2>4. CASE db.up[u] = "open"
    <3>1. next \in {"open", "uploaded", "discarded"}
      BY <2>4
    <3> HIDE DEF next
    <3>2. QED
      BY <2>1, <2>2, <2>3, <2>4, <3>1, UploadStep
  <2>5. CASE db.up[u] # "open"
    <3>1. next = db.up[u]
      BY <2>5
    <3>2. [db EXCEPT !.up[u] = next] = db
      BY <1>0, <3>1 DEF States
    <3> HIDE DEF next
    <3>3. Commit(db)
      BY <2>1, <3>2
    <3>4. db' = db
      BY <3>3 DEF Commit
    <3>5. \A v \in Upload : Onward(v)
      BY <3>4 DEF Onward, Needed
    <3>6. {u} \subseteq Key
      BY <1>0
    <3>7. QED
      BY <1>0, <2>1, <2>2, <2>3, <3>3, <3>5, <3>6, NoSection, NotedKeeps
  <2>6. QED
    BY <2>4, <2>5
<1>5. CASE Cancel(u)
  <2>1. /\ Free /\ db.up[u] \in {"open", "uploaded"}
        /\ Commit([db EXCEPT !.up[u] = "discarded"])
        /\ Note({u}, IF u \in writing THEN {} ELSE {u})
        /\ due' = TRUE /\ UNCHANGED <<file, may, reg, writing>> /\ Still
    BY <1>5 DEF Cancel, Serving
  <2>2. FilesKept
    BY <2>1, StillFiles
  <2>3. RestKept /\ UNCHANGED <<turn, redo>>
    BY <1>0, <2>1 DEF RestKept, Still, sweep, book
  <2>4. QED
    BY <2>1, <2>2, <2>3, UploadStep
<1>6. QED
  BY <1>1, <1>2, <1>3, <1>4, <1>5

\* A request that changes holders, bodies or a released resource: no upload goes
\* further, and the digest's owners are noted if they change.
LEMMA OwnerStep ==
    ASSUME IInv, Free, NEW s \in States, Commit(s), FilesKept, RestKept, UNCHANGED <<turn, redo>>,
           NEW starts, Note({Blob}, starts), s.up = db.up, s.ob = db.ob,
           \A v \in Upload : s.res[v] # db.res[v] => db.res[v] = "ready" /\ s.res[v] = "released",
           s.body # {} \/ s.uses # {} => Wants(db) \/ Secure'
    PROVE  IInv'
<1>0. db \in States /\ StateInv(db) /\ {Blob} \subseteq Key /\ db' = s
  BY Current, CommitGives DEF Key, IInv, TypeInv
<1>1. StateInv(s)
  BY <1>0 DEF StateInv
<1>2. \A v \in Upload : Onward(v) /\ s.ob[v] = db.ob[v]
  BY <1>0 DEF Onward, Needed
<1>3. Wants(s) => Wants(db) \/ Secure'
  BY DEF Wants
<1>4. \A k \in Key \ {Blob} :
          IF k = Blob THEN Owned(s) = Owned(db) ELSE s.up[k] = db.up[k]
  OBVIOUS
<1>5. QED
  BY <1>0, <1>1, <1>2, <1>3, <1>4, NoSection, NotedKeeps

LEMMA OwnerRequests ==
    ASSUME IInv,
           \/ \E u \in Upload : Release(u)
           \/ \E h \in Holder : DropUses(h) \/ \E g \in Holder : Promote(g, h)
           \/ \E b \in Body : Accept(b) \/ DropBody(b)
    PROVE  IInv'
<1>0. /\ db \in States /\ StateInv(db)
      /\ writing \subseteq Upload /\ reg \subseteq Key /\ aged \subseteq Key
      /\ found \subseteq Key /\ left \in BOOLEAN
  BY Current DEF IInv, TypeInv, MainTypes
<1>1. ASSUME NEW u \in Upload, Release(u)
      PROVE  IInv'
  <2> DEFINE s == [db EXCEPT !.res[u] = "released"]
  <2>1. /\ Free /\ db.res[u] = "ready" /\ Commit(s) /\ Note({Blob}, {Blob})
        /\ due' = TRUE /\ UNCHANGED <<file, may>> /\ Steady
    BY <1>1 DEF Release, Serving
  <2>2. FilesKept
    BY <2>1, StillFiles DEF Steady
  <2>3. RestKept /\ UNCHANGED <<turn, redo>>
    BY <1>0, <2>1 DEF RestKept, Steady, Still, sweep, book
  <2>4. s \in States
    BY <1>0, ResType DEF ResStates
  <2>5. /\ s.up = db.up /\ s.ob = db.ob /\ s.body = db.body /\ s.uses = db.uses
        /\ s.res = [db.res EXCEPT ![u] = "released"]
    BY <1>0 DEF States
  <2>6. \A v \in Upload : s.res[v] # db.res[v] => db.res[v] = "ready" /\ s.res[v] = "released"
    BY <1>0, <2>1, <2>5 DEF States
  <2> HIDE DEF s
  <2>7. s.body # {} \/ s.uses # {} => Wants(db)
    BY <2>5 DEF Wants
  <2>8. QED
    BY <2>1, <2>2, <2>3, <2>4, <2>5, <2>6, <2>7, OwnerStep
<1>2. ASSUME NEW h \in Holder, DropUses(h)
      PROVE  IInv'
  <2> DEFINE stay == {p \in db.uses : p[1] # h}
             s == [db EXCEPT !.uses = stay]
  <2>1. /\ Free /\ Commit(s) /\ Note({Blob}, Collected(s))
        /\ due' = TRUE /\ UNCHANGED <<file, may>> /\ Steady
    BY <1>2 DEF DropUses, Serving
  <2>2. FilesKept
    BY <2>1, StillFiles DEF Steady
  <2>3. RestKept /\ UNCHANGED <<turn, redo>>
    BY <1>0, <2>1 DEF RestKept, Steady, Still, sweep, book
  <2>4. stay \subseteq db.uses /\ stay \in SUBSET (Holder \X Upload)
    BY <1>0 DEF States
  <2>5. s \in States
    <3> HIDE DEF stay
    <3>1. QED BY <1>0, <2>4, UsesType
  <2>6. /\ s.up = db.up /\ s.ob = db.ob /\ s.body = db.body /\ s.uses = stay
        /\ s.res = db.res
    BY <1>0 DEF States
  <2> HIDE DEF s, stay
  <2>7. s.body # {} \/ s.uses # {} => Wants(db)
    BY <2>4, <2>6 DEF Wants
  <2>8. QED
    BY <2>1, <2>2, <2>3, <2>5, <2>6, <2>7, OwnerStep
<1>3. ASSUME NEW h \in Holder, NEW g \in Holder, Promote(g, h)
      PROVE  IInv'
  <2> DEFINE taken == {p \in db.uses : p[1] # g} \cup {<<h, p[2]>> : p \in {q \in db.uses : q[1] = g}}
             s == [db EXCEPT !.uses = taken]
  <2>1. /\ Free /\ Commit(s) /\ Note({Blob}, Collected(s))
        /\ due' = TRUE /\ UNCHANGED <<file, may>> /\ Steady
        /\ \E u \in Upload : <<g, u>> \in db.uses
    BY <1>3 DEF Promote, Serving
  <2>2. FilesKept
    BY <2>1, StillFiles DEF Steady
  <2>3. RestKept /\ UNCHANGED <<turn, redo>>
    BY <1>0, <2>1 DEF RestKept, Steady, Still, sweep, book
  <2>4. taken \in SUBSET (Holder \X Upload)
    BY <1>0 DEF States
  <2>5. s \in States
    <3> HIDE DEF taken
    <3>1. QED BY <1>0, <2>4, UsesType
  <2>6. /\ s.up = db.up /\ s.ob = db.ob /\ s.body = db.body /\ s.res = db.res
    BY <1>0 DEF States
  <2>7. Wants(db)
    BY <2>1 DEF Wants
  <2> HIDE DEF s, taken
  <2>8. QED
    BY <2>1, <2>2, <2>3, <2>5, <2>6, <2>7, OwnerStep
<1>4. ASSUME NEW b \in Body, Accept(b)
      PROVE  IInv'
  <2> DEFINE s == [db EXCEPT !.body = @ \cup {b}, !.row = TRUE]
  <2>1. /\ Free /\ Commit(s) /\ Note({Blob}, {}) /\ Files({Blob}, {}) /\ Register({Blob})
        /\ left' = FALSE
        /\ UNCHANGED <<writing, alive, turn, redo, mat, sweep, pass, crashes, losses>>
    BY <1>4 DEF Accept, AcceptAs, Serving
  <2>2. reg \cup {Blob} \subseteq reg' /\ reg' \subseteq Key /\ due' = TRUE
    BY <2>1, Registered DEF Key
  <2>3. FilesKept /\ file'[Blob]
    BY <2>1, <2>2, ChangedFiles
  <2>4. Secure'
    BY <2>2, <2>3 DEF Secure
  <2>5. RestKept /\ UNCHANGED <<turn, redo>>
    BY <1>0, <2>1, <2>2 DEF RestKept, sweep
  <2>6. s \in States
    BY <1>0 DEF States
  <2>7. s.up = db.up /\ s.ob = db.ob /\ s.res = db.res
    BY <1>0 DEF States
  <2> HIDE DEF s
  <2>8. QED
    BY <2>1, <2>3, <2>4, <2>5, <2>6, <2>7, OwnerStep
<1>5. ASSUME NEW b \in Body, DropBody(b)
      PROVE  IInv'
  <2> DEFINE s == [db EXCEPT !.body = @ \ {b}]
  <2>1. /\ Free /\ Commit(s) /\ Note({Blob}, Collected(s))
        /\ due' = TRUE /\ UNCHANGED <<file, may>> /\ Steady
    BY <1>5 DEF DropBody, Serving
  <2>2. FilesKept
    BY <2>1, StillFiles DEF Steady
  <2>3. RestKept /\ UNCHANGED <<turn, redo>>
    BY <1>0, <2>1 DEF RestKept, Steady, Still, sweep, book
  <2>4. s \in States
    BY <1>0 DEF States
  <2>5. /\ s.up = db.up /\ s.ob = db.ob /\ s.body \subseteq db.body /\ s.uses = db.uses
        /\ s.res = db.res
    BY <1>0 DEF States
  <2> HIDE DEF s
  <2>6. s.body # {} \/ s.uses # {} => Wants(db)
    BY <2>5 DEF Wants
  <2>7. QED
    BY <2>1, <2>2, <2>3, <2>4, <2>5, <2>6, OwnerStep
<1>6. QED
  BY <1>1, <1>2, <1>3, <1>4, <1>5

\* A claim: the digest was owned before, so nothing needs a note.
LEMMA ClaimKeeps ==
    ASSUME IInv, NEW u \in Upload, NEW h \in Holder, Claim(h, u)
    PROVE  IInv'
<1> DEFINE s == [db EXCEPT !.uses = @ \cup {<<h, u>>}]
<1>0. db \in States /\ StateInv(db)
  BY Current
<1>1. /\ Free /\ Commit(s) /\ MayHold(h, u)
      /\ UNCHANGED <<file, may, custody, due>> /\ Steady
  BY DEF Claim, Serving
<1>2. s \in States
  BY <1>0 DEF States
<1>3. /\ s.up = db.up /\ s.ob = db.ob /\ s.res = db.res /\ s.body = db.body
      /\ s.uses = db.uses \cup {<<h, u>>} /\ s.ref = db.ref
  BY <1>0 DEF States
<1> HIDE DEF s
<1>4. Owned(db) /\ Wants(db)
  BY <1>1 DEF MayHold, Owned, Wants
<1>5. Owned(s)
  BY <1>3 DEF Owned
<1>6. db' = s /\ old' \subseteq old \cup {db}
  BY <1>1, <1>2, CommitGives DEF IInv, TypeInv
<1>7. CustodyInv'
  <2>1. \A k \in Key : Same(k)
    BY <1>3, <1>4, <1>5, <1>6 DEF Same
  <2>2. QED
    BY <1>1, <1>6, <2>1, StillKeepsCustody
<1>8. FilesKept
  BY <1>1, StillFiles DEF Steady
<1>9. RestKept /\ UNCHANGED <<turn, redo>>
  BY <1>1 DEF RestKept, Steady, Still, sweep, book, IInv, TypeInv, MainTypes
<1>10. StateInv(s) /\ \A v \in Upload : Onward(v) /\ s.ob[v] = db.ob[v]
  BY <1>0, <1>3, <1>6 DEF StateInv, Onward, Needed
<1>11. change' \in [Key -> Age] /\ wait' \in [Key -> Waits] /\ moved' \subseteq Key
  BY <1>1 DEF custody, IInv, TypeInv, MainTypes
<1>12. QED
  BY <1>1, <1>2, <1>4, <1>7, <1>8, <1>9, <1>10, <1>11, NoSection, StepKeeps

-----------------------------------------------------------------------------
\* A step that leaves the database as it is.
LEMMA SameState ==
    ASSUME IInv, db' = db, old' = old
    PROVE  /\ Commit(db) /\ \A u \in Upload : Onward(u)
           /\ \A k \in Key : Same(k)
  BY DEF Commit, Onward, Needed, Same

\* A body that is staged.
LEMMA StageKeeps ==
    ASSUME IInv, Stage
    PROVE  IInv'
<1>0. db \in States /\ StateInv(db)
  BY Current
<1>1. /\ alive /\ Files({Blob}, {}) /\ left' = TRUE
      /\ db' = db /\ old' = old /\ reg' = reg /\ UNCHANGED custody
      /\ UNCHANGED <<alive, turn, redo, writing, mat, sweep, flusher, crashes, losses>>
  BY DEF Stage, flusher
<1>2. FilesKept
  BY <1>1, ChangedFiles
<1>3. RestKept /\ TurnKept
  BY <1>1 DEF RestKept, TurnKept, sweep, flusher, IInv, TypeInv, MainTypes
<1>4. CustodyInv'
  BY <1>1, SameState, StillKeepsCustody
<1>5. change' \in [Key -> Age] /\ wait' \in [Key -> Waits] /\ moved' \subseteq Key
  BY <1>1 DEF custody, IInv, TypeInv, MainTypes
<1>6. QED
  BY <1>0, <1>1, <1>2, <1>3, <1>4, <1>5, SameState, StepKeeps

\* The list of the sweep.
LEMMA SweepListKeeps ==
    ASSUME IInv, SweepList
    PROVE  IInv'
<1>0. db \in States /\ StateInv(db)
  BY Current
<1>1. /\ Free /\ found' \subseteq aged /\ aged' = {}
      /\ db' = db /\ old' = old /\ file' = file /\ may' = may /\ UNCHANGED custody
      /\ UNCHANGED <<alive, turn, redo, writing, mat, flusher, book>>
  BY DEF SweepList, Serving, disk
<1>2. FilesKept
  BY <1>1, StillFiles DEF flusher
<1>3. RestKept /\ UNCHANGED <<turn, redo>>
  BY <1>1 DEF RestKept, flusher, book, IInv, TypeInv, MainTypes
<1>4. CustodyInv'
  BY <1>1, SameState, StillKeepsCustody
<1>5. change' \in [Key -> Age] /\ wait' \in [Key -> Waits] /\ moved' \subseteq Key
  BY <1>1 DEF custody, IInv, TypeInv, MainTypes
<1>6. QED
  BY <1>0, <1>1, <1>2, <1>3, <1>4, <1>5, SameState, NoSection, StepKeeps

\* What the cleaning of a part does: the digest is forgotten at most, and of the
\* files only the part goes.
LEMMA CleanGives ==
    ASSUME IInv, NEW u \in Upload, NEW collect \in BOOLEAN, CleanPart(u, collect)
    PROVE  /\ \E s \in States :
                 /\ Commit(s) /\ StateInv(s) /\ (Wants(s) => Wants(db))
                 /\ \A v \in Upload : Onward(v) /\ s.ob[v] = db.ob[v]
           /\ FilesKept /\ CustodyInv'
           /\ change' \in [Key -> Age] /\ wait' \in [Key -> Waits] /\ moved' \subseteq Key
           /\ reg' \subseteq Key /\ due' \in BOOLEAN /\ pass' = pass
<1> DEFINE owner == PartOwner(db, u)
           s == IF owner = "published" THEN [db EXCEPT !.ref = @ \ {u}] ELSE db
           keys == IF owner = "published" /\ u \in db.ref THEN {Blob, u} ELSE {}
           starts == (IF owner = "unowned" THEN {u} ELSE {})
                        \cup (IF collect /\ ~Owned(db') THEN {Blob} ELSE {})
<1>0. /\ db \in States /\ StateInv(db) /\ reg \subseteq Key /\ due \in BOOLEAN
      /\ Blob \in Key /\ u \in Key /\ Upload \subseteq Key /\ u # Blob
  BY Current, KeyAssumption DEF Key, IInv, TypeInv, MainTypes
<1>1. /\ Commit(s) /\ Note(keys, starts)
      /\ IF owner # "published" THEN UNCHANGED <<file, may, pass, reg>>
         ELSE Files({}, {u}) /\ reg' = reg \cup Upload /\ UNCHANGED pass
  BY DEF CleanPart
<1>2. due' \in BOOLEAN
  BY <1>0 DEF CleanPart
<1>3. db.ref \subseteq Upload
  BY <1>0 DEF States
<1>4. s \in States
  <2>1. db.ref \ {u} \in SUBSET Upload
    BY <1>3
  <2>2. [db EXCEPT !.ref = db.ref \ {u}] \in States
    BY <1>0, <2>1, RefType
  <2>3. QED
    BY <1>0, <2>2
<1>5. /\ s.up = db.up /\ s.ob = db.ob /\ s.res = db.res /\ s.body = db.body
      /\ s.uses = db.uses
      /\ s.ref = IF owner = "published" THEN db.ref \ {u} ELSE db.ref
  BY <1>0 DEF States
<1>6. keys \subseteq Key
  BY <1>0
<1>7. Blob \notin keys => Owned(s) = Owned(db)
  <2>1. Blob \notin keys => s.ref = db.ref
    BY <1>5
  <2> HIDE DEF s, keys
  <2>2. QED
    BY <1>5, <2>1 DEF Owned
<1> HIDE DEF s, keys, starts
<1>8. db' = s /\ old' \subseteq old \cup {db}
  BY <1>1, <1>4, CommitGives DEF IInv, TypeInv
<1>9. CustodyInv'
  <2>1. \A k \in Key \ keys : Same(k)
    BY <1>5, <1>7, <1>8 DEF Same
  <2>2. QED
    BY <1>1, <1>6, <1>8, <2>1, NoteKeepsCustody
<1>10. change' \in [Key -> Age] /\ wait' \in [Key -> Waits] /\ moved' \subseteq Key
  BY <1>1, <1>6, NoteGives DEF IInv, TypeInv
<1>11. FilesKept /\ reg' \subseteq Key /\ pass' = pass
  <2>1. CASE owner = "published"
    <3>1. Files({}, {u}) /\ reg \subseteq reg' /\ reg' \subseteq Key /\ pass' = pass
      BY <1>0, <1>1, <2>1
    <3>2. Blob \notin {u}
      BY <1>0
    <3>3. QED
      BY <3>1, <3>2, ChangedFiles
  <2>2. CASE owner # "published"
    <3>1. UNCHANGED <<file, may, pass, reg>>
      BY <1>1, <2>2
    <3>2. QED
      BY <1>0, <3>1, StillFiles
  <2>3. QED
    BY <2>1, <2>2
<1>12. /\ StateInv(s) /\ (Wants(s) => Wants(db))
       /\ \A v \in Upload : Onward(v) /\ s.ob[v] = db.ob[v]
  BY <1>0, <1>5, <1>8 DEF StateInv, Wants, Onward, Needed
<1>13. QED
  BY <1>1, <1>2, <1>4, <1>9, <1>10, <1>11, <1>12

\* The sweep decides on a file.
LEMMA SweepTakeKeeps ==
    ASSUME IInv, NEW k \in Key, SweepTake(k)
    PROVE  IInv'
<1>0. /\ db \in States /\ StateInv(db) /\ found \subseteq Key /\ aged \subseteq Key
      /\ left \in BOOLEAN /\ writing \subseteq Upload /\ reg \subseteq Key
  BY Current DEF IInv, TypeInv, MainTypes
<1>1. /\ Free /\ found' = found \ {k} /\ aged' = aged
      /\ left' = (left \/ (Owned(db) /\ ~Owned(db')))
      /\ UNCHANGED <<alive, turn, redo, writing, mat, crashes, losses>>
  BY DEF SweepTake, Serving
<1>2. left' \in BOOLEAN
  BY <1>0, <1>1
<1>3. CASE k # Blob
  <2>1. k \in Upload /\ CleanPart(k, FALSE)
    BY <1>3 DEF SweepTake, Key
  <2>2. /\ \E s \in States :
                 /\ Commit(s) /\ StateInv(s) /\ (Wants(s) => Wants(db))
                 /\ \A v \in Upload : Onward(v) /\ s.ob[v] = db.ob[v]
        /\ FilesKept /\ CustodyInv'
        /\ change' \in [Key -> Age] /\ wait' \in [Key -> Waits] /\ moved' \subseteq Key
        /\ reg' \subseteq Key /\ due' \in BOOLEAN /\ pass' = pass
    BY <2>1, CleanGives
  <2>3. RestKept
    BY <1>0, <1>1, <1>2, <2>2 DEF RestKept
  <2>4. QED
    BY <1>1, <2>2, <2>3, NoSection, StepKeeps
<1>4. CASE k = Blob
  <2>1. Note({}, {Blob}) /\ due' = TRUE /\ UNCHANGED <<disk, reg, pass>>
    BY <1>4 DEF SweepTake
  <2>2. db' = db /\ old' = old /\ UNCHANGED <<file, may>>
    BY <2>1 DEF disk
  <2>3. FilesKept
    BY <2>1, <2>2, StillFiles
  <2>4. RestKept
    BY <1>0, <1>1, <1>2, <2>1 DEF RestKept
  <2>5. {} \subseteq Key
    OBVIOUS
  <2>6. QED
    BY <1>0, <1>1, <2>1, <2>2, <2>3, <2>4, <2>5, SameState, NoSection, NotedKeeps
<1>5. QED
  BY <1>3, <1>4

\* A cleared row: its part, and the blob behind it.
LEMMA CleanKeeps ==
    ASSUME IInv, NEW u \in Upload, Clean(u)
    PROVE  IInv'
<1>1. /\ alive /\ turn.at = "clean" /\ CleanPart(u, TRUE)
      /\ turn' = IF turn.ups = {u} THEN Idle ELSE [turn EXCEPT !.ups = @ \ {u}]
      /\ UNCHANGED <<alive, redo, writing, mat, sweep, book>>
  BY DEF Clean, CleanAs
<1>2. /\ \E s \in States :
               /\ Commit(s) /\ StateInv(s) /\ (Wants(s) => Wants(db))
               /\ \A v \in Upload : Onward(v) /\ s.ob[v] = db.ob[v]
      /\ FilesKept /\ CustodyInv'
      /\ change' \in [Key -> Age] /\ wait' \in [Key -> Waits] /\ moved' \subseteq Key
      /\ reg' \subseteq Key /\ due' \in BOOLEAN /\ pass' = pass
  BY <1>1, CleanGives
<1>3. RestKept
  BY <1>1, <1>2 DEF RestKept, sweep, book, IInv, TypeInv, MainTypes
<1>4. TurnKept
  <2>1. turn \in Turns
    BY DEF IInv, TypeInv, MainTypes
  <2>2. CASE turn.ups = {u}
    <3>1. turn' = Idle /\ redo' = redo
      BY <1>1, <2>2
    <3>2. Idle \in Turns /\ Idle.at = "idle"
      BY DEF Idle, At, Turns, Age
    <3>3. QED
      BY <3>1, <3>2 DEF TurnKept, Publishing
  <2>3. CASE turn.ups # {u}
    <3>1. turn' = [turn EXCEPT !.ups = @ \ {u}] /\ redo' = redo
      BY <1>1, <2>3
    <3>2. turn' \in Turns /\ turn'.at = "clean"
      BY <1>1, <2>1, <3>1 DEF Turns
    <3>3. QED
      BY <3>1, <3>2 DEF TurnKept, Publishing
  <2>4. QED
    BY <2>2, <2>3
<1>5. QED
  BY <1>1, <1>2, <1>3, <1>4, StepKeeps

-----------------------------------------------------------------------------
\* A flight lands: its marks are gone, the others stay.
LEMMA LandedGives ==
    ASSUME IInv, NEW k \in Key, Landed(k), old' \subseteq old \cup {db}, \A j \in Key : Same(j)
    PROVE  /\ CustodyInv'
           /\ change' \in [Key -> Age] /\ wait' \in [Key -> Waits] /\ moved' \subseteq Key
<1>0. /\ change \in [Key -> Age] /\ wait \in [Key -> Waits] /\ moved \subseteq Key
  BY DEF IInv, TypeInv, MainTypes
<1>1. /\ change' \in [Key -> Age] /\ wait' \in [Key -> Waits] /\ moved' \subseteq Key
      /\ change'[k] = "none" /\ wait'[k] = "idle" /\ k \notin moved'
      /\ \A j \in Key \ {k} : /\ change'[j] = change[j] /\ wait'[j] = wait[j]
                              /\ j \in moved' <=> j \in moved
  BY <1>0 DEF Landed, Age, Waits
<1>2. \A j \in Key : Unmoved(j) => Unmoved(j)'
  BY DEF Same, Unmoved
<1>3. CustodyInv'
  BY <1>1, <1>2 DEF IInv, CustodyInv
<1>4. QED
  BY <1>1, <1>3

\* What a woken flight is.
LEMMA WokeGives ==
    ASSUME IInv, NEW k \in Key, Woke(k)
    PROVE  alive /\ turn = Idle /\ wait[k] = "synced"
  BY DEF Woke, Woken

\* A flight that starts over, or finds an owner.
LEMMA FlightStays ==
    ASSUME IInv, NEW k \in Key, FlightRetries(k) \/ FlightKeeps(k)
    PROVE  IInv'
<1>0. /\ db \in States /\ StateInv(db)
      /\ change \in [Key -> Age] /\ wait \in [Key -> Waits] /\ moved \subseteq Key
  BY Current DEF IInv, TypeInv, MainTypes
<1>1. /\ alive /\ turn = Idle /\ db' = db /\ old' = old
      /\ UNCHANGED <<file, may, writing, flusher, alive, turn, redo, mat, sweep, book>>
  BY WokeGives DEF FlightRetries, FlightKeeps, disk
<1>2. FilesKept
  BY <1>1, StillFiles DEF flusher
<1>3. RestKept /\ TurnKept
  BY <1>1 DEF RestKept, TurnKept, flusher, book, sweep, IInv, TypeInv, MainTypes
<1>4. /\ CustodyInv'
      /\ change' \in [Key -> Age] /\ wait' \in [Key -> Waits] /\ moved' \subseteq Key
  <2>1. CASE FlightRetries(k)
    <3>1. /\ k \in moved /\ wait' = [wait EXCEPT ![k] = change[k]] /\ moved' = moved \ {k}
          /\ change' = change
      BY <2>1 DEF FlightRetries, Recheck
    <3>2. change[k] # "none"
      BY <3>1 DEF IInv, CustodyInv
    <3>3. wait' \in [Key -> Waits] /\ moved' \subseteq Key
      BY <1>0, <3>1, <3>2 DEF Waits
    <3>4. \A j \in Key : Unmoved(j) => Unmoved(j)'
      BY <1>1 DEF Unmoved
    <3>5. \A j \in Key : /\ wait'[j] = IF j = k THEN change[k] ELSE wait[j]
                         /\ j \in moved' <=> j \in moved /\ j # k
      BY <1>0, <3>1
    <3>6. CustodyInv'
      BY <3>1, <3>4, <3>5 DEF IInv, CustodyInv
    <3>7. QED
      BY <1>0, <3>1, <3>3, <3>6
  <2>2. CASE FlightKeeps(k)
    BY <1>1, <2>2, SameState, LandedGives DEF FlightKeeps
  <2>3. QED
    BY <2>1, <2>2
<1>5. QED
  BY <1>0, <1>1, <1>2, <1>3, <1>4, SameState, StepKeeps

\* The unlink of a part.
LEMMA PartUnlinked ==
    ASSUME IInv, NEW k \in Upload, FlightUnlinks(k)
    PROVE  IInv'
<1>0. /\ db \in States /\ StateInv(db) /\ k \in Key /\ k # Blob /\ {k} \subseteq Key
  BY Current, KeyAssumption DEF Key
<1>1. /\ alive /\ turn = Idle /\ Files({}, {k}) /\ Register({k}) /\ Commit(db) /\ Landed(k)
      /\ aged' = aged \ {k}
      /\ UNCHANGED <<alive, turn, redo, writing, mat, found, pass, book>>
  BY <1>0, WokeGives DEF FlightUnlinks
<1>2. db' = db /\ old' = old
  BY <1>1 DEF Commit
<1>3. reg \subseteq reg' /\ reg' \subseteq Key /\ due' = TRUE
  BY <1>0, <1>1, Registered
<1>4. FilesKept
  <2>1. Blob \notin {k}
    BY <1>0
  <2>2. QED
    BY <1>1, <1>3, <2>1, ChangedFiles
<1>5. RestKept /\ TurnKept
  BY <1>1, <1>2, <1>3 DEF RestKept, TurnKept, book, IInv, TypeInv, MainTypes
<1>6. /\ CustodyInv'
      /\ change' \in [Key -> Age] /\ wait' \in [Key -> Waits] /\ moved' \subseteq Key
  BY <1>0, <1>1, <1>2, SameState, LandedGives
<1>7. QED
  BY <1>0, <1>1, <1>2, <1>4, <1>5, <1>6, SameState, StepKeeps

\* A flight that unlinks the blob has seen that nobody owns it in any state a
\* power loss may leave.
LEMMA NobodyOwns ==
    ASSUME IInv, FlightUnlinks(Blob)
    PROVE  \A s \in Survivors : ~Owned(s)
<1>1. Blob \in Key
  BY DEF Key
<1>2. wait[Blob] = "synced" /\ Blob \notin moved /\ ~Owned(db)
  BY <1>1, WokeGives DEF FlightUnlinks, Recheck, KeyOwned
<1>3. Unmoved(Blob)
  BY <1>1, <1>2 DEF IInv, CustodyInv
<1>4. QED
  BY <1>2, <1>3 DEF Unmoved, Survivors

\* Who does not own the blob needs nothing.
LEMMA UnownedNeeds ==
    ASSUME NEW s \in States, ~Owned(s)
    PROVE  /\ ~Wants(s) /\ ~NeedsBytes(s)
           /\ \A u \in Upload : s.ob[u] = "none" /\ s.res[u] \notin {"publishing", "ready"}
  BY DEF Owned, Wants, NeedsBytes

\* The unlink of the blob.
LEMMA BlobUnlinked ==
    ASSUME IInv, FlightUnlinks(Blob)
    PROVE  IInv'
<1> DEFINE s == [db EXCEPT !.row = FALSE]
<1>0. /\ db \in States /\ StateInv(db) /\ db \in Survivors /\ Blob \in Key /\ {Blob} \subseteq Key
      /\ Survivors \subseteq States
  BY Current DEF Key, IInv, TypeInv, DiskTypes
<1>1. /\ alive /\ turn = Idle /\ Files({}, {Blob}) /\ Register({Blob}) /\ Commit(s)
      /\ Landed(Blob) /\ aged' = aged \ {Blob}
      /\ UNCHANGED <<alive, turn, redo, writing, mat, found, pass, book>>
  BY <1>0, WokeGives DEF FlightUnlinks
<1>2. /\ s \in States /\ s.up = db.up /\ s.ob = db.ob /\ s.res = db.res /\ s.ref = db.ref
      /\ s.uses = db.uses /\ s.body = db.body
  BY <1>0 DEF States
<1> HIDE DEF s
<1>3. /\ db' = s /\ Survivors' = Survivors \cup {db'} /\ Survivors' \subseteq States
      /\ old' \subseteq old \cup {db}
  BY <1>1, <1>2, CommitGives DEF IInv, TypeInv
<1>4. \A t \in Survivors' : ~Owned(t) /\ StateInv(t)
  <2>1. Owned(s) = Owned(db) /\ StateInv(s)
    BY <1>0, <1>2 DEF Owned, StateInv
  <2>2. QED
    BY <1>0, <1>3, <2>1, NobodyOwns DEF IInv
<1>5. TypeInv'
  <2>1. /\ file' \in [Key -> BOOLEAN] /\ may' \in [Key -> SUBSET BOOLEAN]
        /\ \A k \in Key : file'[k] \in may'[k]
    BY <1>1, FilesGive DEF IInv, TypeInv
  <2>2. reg' \subseteq Key /\ due' = TRUE
    BY <1>0, <1>1, Registered
  <2>3. change' \in [Key -> Age] /\ wait' \in [Key -> Waits] /\ moved' \subseteq Key
    BY <1>1 DEF Landed, Age, Waits, IInv, TypeInv, MainTypes
  <2>4. DiskTypes'
    BY <1>3, <2>1 DEF DiskTypes
  <2>5. MainTypes'
    BY <1>1, <2>2, <2>3 DEF book, IInv, TypeInv, MainTypes
  <2>6. QED
    BY <2>4, <2>5 DEF TypeInv
<1>6. CustodyInv'
  <2>1. \A j \in Key : Same(j)
    BY <1>2, <1>3 DEF Same, Owned
  <2>2. QED
    BY <1>0, <1>1, <1>3, <2>1, LandedGives
<1>7. \A u \in Upload : Settled(u) => Settled(u)'
  <2> SUFFICES ASSUME NEW u \in Upload, Settled(u), NEW t \in Survivors'
               PROVE  /\ t.up[u] \in {"finalizing", "published"}
                      /\ t.res[u] \notin {"publishing", "ready"}
    BY DEF Settled
  <2>1. t.res[u] \notin {"publishing", "ready"}
    BY <1>3, <1>4, UnownedNeeds
  <2>2. t.up[u] \in {"finalizing", "published"}
    BY <1>0, <1>2, <1>3 DEF Settled
  <2>3. QED
    BY <2>1, <2>2
<1>8. \A u \in Upload : db.ob[u] = "none" /\ mat[u] = "none" /\ u \notin redo
  <2>1. \A u \in Upload : db.ob[u] = "none"
    BY <1>0, NobodyOwns, UnownedNeeds
  <2>2. QED
    BY <2>1 DEF IInv, MatInv, SectionInv
<1>9. MatInv' /\ SectionInv' /\ DeadInv'
  <2>1. MatInv'
    BY <1>1, <1>8 DEF MatInv
  <2>2. turn' = Idle /\ turn'.at \notin Publishing
    BY <1>1 DEF Idle, At, Publishing
  <2>3. redo' = {}
    BY <1>1, <1>8 DEF IInv, TypeInv, MainTypes
  <2>4. QED
    BY <1>1, <2>1, <2>2, <2>3 DEF SectionInv, DeadInv
<1>10. PublishedInv'
  <2> SUFFICES ASSUME NEW u \in Upload, NEW t \in Survivors',
                      t.up[u] = "published", t.ob[u] = "none"
               PROVE  Settled(u)'
    BY DEF PublishedInv
  <2>1. \E r \in Survivors : r.up[u] = "published" /\ r.ob[u] = "none"
    BY <1>0, <1>2, <1>3
  <2>2. Settled(u)
    BY <2>1 DEF IInv, PublishedInv
  <2>3. QED
    BY <1>7, <2>2
<1>11. LifeInv'
  <2>1. ~Wants(db') /\ ~NeedsBytes(db') /\ db' \in Survivors'
    BY <1>3, <1>4, UnownedNeeds
  <2>2. OwnersKeepBytes'
    BY <2>1 DEF OwnersKeepBytes
  <2>3. ~Wants(db)'
    BY <2>1 DEF Wants
  <2>4. QED
    BY <2>2, <2>3 DEF LifeInv
<1>12. QED
  BY <1>4, <1>5, <1>6, <1>9, <1>10, <1>11 DEF IInv

-----------------------------------------------------------------------------
\* Types after a calm step of a publication.
LEMMA SectionTypes ==
    ASSUME IInv, Calm, FilesKept, turn' \in Turns, redo' \subseteq Upload,
           mat' \in [Upload -> Age],
           /\ change' \in [Key -> Age] /\ wait' \in [Key -> Waits] /\ moved' \subseteq Key,
           /\ reg' \subseteq Key /\ due' \in BOOLEAN /\ left' \in BOOLEAN,
           /\ pass' \in BOOLEAN /\ alive' \in BOOLEAN,
           /\ writing' \subseteq Upload /\ aged' \subseteq Key /\ found' \subseteq Key
    PROVE  TypeInv'
<1>1. DiskTypes'
  BY DEF DiskTypes, FilesKept, Calm, IInv, TypeInv
<1>2. MainTypes'
  BY DEF MainTypes, Calm, IInv, TypeInv
<1>3. QED
  BY <1>1, <1>2 DEF TypeInv

\* A section is about one upload.
LEMMA SectionTurn ==
    ASSUME NEW where \in {"link", "commit"}, NEW u \in Upload, NEW g \in Age,
           Section(u, where, g)
    PROVE  turn' \in Turns /\ turn'.at = where /\ turn'.ups = {u} /\ turn'.g = g
  BY DEF Section, At, Turns

LEMMA IdleTurn == /\ Idle \in Turns /\ Idle.at = "idle" /\ Idle.at \notin Publishing
  BY DEF Idle, At, Turns, Age, Publishing

\* The first transaction of a publication.
LEMMA FinalizeKeeps ==
    ASSUME IInv, NEW u \in Upload, Finalize(u)
    PROVE  IInv'
<1> DEFINE s == [db EXCEPT !.up[u] = "finalizing", !.res[u] = "publishing",
                           !.ref = @ \cup {u}, !.ob[u] = "pending"]
<1>0. /\ db \in States /\ StateInv(db) /\ u \in Key /\ Blob \in Key
      /\ writing \subseteq Upload /\ reg \subseteq Key /\ aged \subseteq Key
      /\ found \subseteq Key /\ left \in BOOLEAN /\ mat \in [Upload -> Age]
      /\ pass \in BOOLEAN /\ alive \in BOOLEAN
  BY Current DEF Key, IInv, TypeInv, MainTypes
<1>1. /\ alive /\ redo = {} /\ db.up[u] = "uploaded" /\ Commit(s) /\ Note({Blob, u}, {})
      /\ due' = TRUE /\ Section(u, "link", "none")
      /\ UNCHANGED <<file, may, alive, redo, writing, mat, sweep, pass, reg, book>>
  BY DEF Finalize, Serving, Free
<1>2. s \in States
  BY <1>0, FinalizeType
<1>3. /\ s.up = [db.up EXCEPT ![u] = "finalizing"]
      /\ s.res = [db.res EXCEPT ![u] = "publishing"]
      /\ s.ob = [db.ob EXCEPT ![u] = "pending"]
      /\ s.body = db.body /\ s.uses = db.uses
  BY <1>0 DEF States
<1>4. \A v \in Upload :
          /\ s.up[v] = IF v = u THEN "finalizing" ELSE db.up[v]
          /\ s.res[v] = IF v = u THEN "publishing" ELSE db.res[v]
          /\ s.ob[v] = IF v = u THEN "pending" ELSE db.ob[v]
  BY <1>0, <1>3 DEF States
<1> HIDE DEF s
<1>5. /\ db' = s /\ Survivors' = Survivors \cup {db'} /\ old' \subseteq old \cup {db}
  BY <1>1, <1>2, CommitGives DEF IInv, TypeInv
<1>6. FilesKept
  BY <1>1, StillFiles
<1>7. Calm
  <2>1. StateInv(s)
    BY <1>0, <1>4 DEF StateInv
  <2>2. \A v \in Upload : Onward(v)
    BY <1>1, <1>4, <1>5 DEF Onward, Needed
  <2>3. Wants(s) => Wants(db)
    BY <1>3, <1>4 DEF Wants
  <2>4. QED
    BY <1>1, <1>2, <1>5, <1>6, <2>1, <2>2, <2>3 DEF Calm, FilesKept, book
<1>8. db'.ob[u] = "pending" /\ mat'[u] = "none"
  BY <1>1, <1>4, <1>5, Current
<1>9. MatInv'
  BY <1>1, <1>4, <1>5, <1>7, <1>8, MatStays
<1>10. turn' \in Turns /\ turn'.at = "link" /\ turn'.ups = {u}
  BY <1>1, SectionTurn DEF Age
<1>11. SectionInv'
  BY <1>1, <1>8, <1>10 DEF SectionInv
<1>12. /\ CustodyInv'
       /\ change' \in [Key -> Age] /\ wait' \in [Key -> Waits] /\ moved' \subseteq Key
  <2>1. \A k \in Key \ {Blob, u} : Same(k)
    BY <1>4, <1>5 DEF Same, Key
  <2>2. {Blob, u} \subseteq Key
    BY <1>0
  <2>3. QED
    BY <1>1, <1>5, <2>1, <2>2, NoteKeepsCustody, NoteGives DEF IInv, TypeInv
<1>13. TypeInv'
  BY <1>0, <1>1, <1>6, <1>7, <1>10, <1>12, SectionTypes DEF sweep, book
<1>14. QED
  BY <1>1, <1>7, <1>9, <1>11, <1>12, <1>13, CalmStep

\* A step of the section that leaves the database as it is, and files at most new.
LEMMA SectionStays ==
    ASSUME IInv, alive, UNCHANGED <<db, old, alive, redo, writing, custody, mat, sweep, pass,
                                    crashes, losses>>,
           FilesKept, turn' \in Turns, SectionInv',
           /\ reg' \subseteq Key /\ due' \in BOOLEAN /\ left' \in BOOLEAN
    PROVE  IInv'
<1>0. /\ db \in States /\ StateInv(db) /\ db \in Survivors
      /\ writing \subseteq Upload /\ aged \subseteq Key /\ redo \subseteq Upload
      /\ found \subseteq Key /\ mat \in [Upload -> Age]
      /\ pass \in BOOLEAN /\ alive \in BOOLEAN
      /\ change \in [Key -> Age] /\ wait \in [Key -> Waits] /\ moved \subseteq Key
  BY Current DEF Key, IInv, TypeInv, MainTypes
<1>1. Calm
  BY <1>0, SameState DEF Calm, FilesKept, Survivors
<1>2. MatInv'
  BY <1>1, MatStays
<1>3. CustodyInv'
  BY SameState, StillKeepsCustody
<1>4. TypeInv'
  BY <1>0, <1>1, SectionTypes DEF sweep, custody
<1>5. QED
  BY <1>1, <1>2, <1>3, <1>4, CalmStep

\* The section is opened again for an unfinished publication.
LEMMA ReplayKeeps ==
    ASSUME IInv, NEW u \in Upload, Replay(u)
    PROVE  IInv'
<1>1. /\ alive /\ Section(u, "link", "none")
      /\ UNCHANGED <<disk, alive, redo, writing, custody, mat, sweep, flusher, book>>
      /\ db.up[u] = "finalizing" \/ u \in redo
  BY DEF Replay, Serving, Free
<1>2. turn' \in Turns /\ turn'.at = "link" /\ turn'.ups = {u}
  BY <1>1, SectionTurn DEF Age
<1>3. FilesKept
  BY <1>1, StillFiles DEF disk, flusher
<1>4. db.ob[u] = "pending" /\ mat[u] = "none"
  <2>1. db.ob[u] = "pending"
    BY <1>1, Current DEF StateInv, IInv, SectionInv
  <2>2. QED
    BY <2>1 DEF IInv, MatInv
<1>5. SectionInv'
  BY <1>1, <1>2, <1>4 DEF SectionInv, IInv, disk
<1>6. reg \subseteq Key /\ due \in BOOLEAN /\ left \in BOOLEAN
  BY DEF IInv, TypeInv, MainTypes
<1>7. QED
  BY <1>1, <1>2, <1>3, <1>5, <1>6, SectionStays DEF disk, flusher, book

\* The link: the blob is there and its directory registered, or nobody needs it.
LEMMA LinkKeeps ==
    ASSUME IInv, NEW u \in Upload, Link(u)
    PROVE  IInv'
<1>1. /\ alive /\ turn.at = "link" /\ u \in turn.ups /\ Section(u, "commit", "new")
      /\ left' = FALSE
      /\ UNCHANGED <<db, old, alive, redo, writing, custody, mat, sweep, pass, crashes, losses>>
  BY DEF Link
<1>2. reg \subseteq Key /\ {Blob} \subseteq Key
  BY DEF Key, IInv, TypeInv, MainTypes
<1>3. /\ FilesKept /\ (Needed(u)' => Secure')
      /\ reg' \subseteq Key /\ due' \in BOOLEAN
  <2>1. CASE db.res[u] = "released"
    <3>1. due' = TRUE /\ UNCHANGED <<file, may, reg>>
      BY <2>1 DEF Link
    <3>2. FilesKept
      BY <3>1, StillFiles
    <3>3. QED
      BY <1>1, <1>2, <2>1, <3>1, <3>2 DEF Needed
  <2>2. CASE db.res[u] # "released"
    <3>1. Files({Blob}, {}) /\ Register({Blob})
      BY <2>2 DEF Link
    <3>2. reg \cup {Blob} \subseteq reg' /\ reg' \subseteq Key /\ due' = TRUE
      BY <1>2, <3>1, Registered
    <3>3. FilesKept /\ file'[Blob]
      BY <3>1, <3>2, ChangedFiles
    <3>4. Secure'
      BY <3>2, <3>3 DEF Secure
    <3>5. QED
      BY <3>2, <3>3, <3>4
  <2>3. QED
    BY <2>1, <2>2
<1>4. turn' \in Turns /\ turn'.at = "commit" /\ turn'.ups = {u} /\ turn'.g = "new"
  BY <1>1, SectionTurn DEF Age
<1>5. SectionInv'
  <2>1. db.ob[u] = "pending" /\ mat[u] = "none"
    BY <1>1 DEF IInv, SectionInv, Publishing
  <2>2. \A v \in redo : db.ob[v] = "pending" /\ mat[v] = "none"
    BY DEF IInv, SectionInv
  <2>3. QED
    BY <1>1, <1>3, <1>4, <2>1, <2>2 DEF SectionInv
<1>6. left' \in BOOLEAN
  BY <1>1
<1>7. QED
  BY <1>1, <1>3, <1>4, <1>5, <1>6, SectionStays

\* The second transaction: the blob is there, for certain or once a pass starts.
LEMMA PublishKeeps ==
    ASSUME IInv, NEW u \in Upload, Publish(u)
    PROVE  IInv'
<1> DEFINE redone == u \in redo
           s == IF redone THEN Published(u)
                ELSE [Published(u) EXCEPT !.ob[u] = "materialized"]
<1>0. /\ db \in States /\ StateInv(db) /\ db \in Survivors /\ u \in Key /\ Blob \in Key
      /\ writing \subseteq Upload /\ reg \subseteq Key /\ aged \subseteq Key
      /\ found \subseteq Key /\ left \in BOOLEAN /\ mat \in [Upload -> Age]
      /\ pass \in BOOLEAN /\ alive \in BOOLEAN /\ redo \subseteq Upload /\ turn \in Turns
  BY Current DEF Key, IInv, TypeInv, MainTypes
<1>1. /\ alive /\ turn.at = "commit" /\ u \in turn.ups /\ Commit(s) /\ Note({Blob, u}, {})
      /\ mat' = IF redone THEN mat ELSE [mat EXCEPT ![u] = turn.g]
      /\ turn' = IF redone THEN [turn EXCEPT !.at = "materialize"] ELSE Idle
      /\ due' = TRUE
      /\ UNCHANGED <<file, may, alive, redo, writing, sweep, pass, reg, book>>
  BY DEF Publish, PublishAt
<1>2. /\ db.ob[u] = "pending" /\ mat[u] = "none" /\ \A v \in turn.ups : v = u
      /\ \/ turn.g = "new" /\ (Needed(u) => Secure)
         \/ turn.g = "passing" /\ Settled(u)
  BY <1>1 DEF IInv, SectionInv, Publishing
<1>3. s \in States
  BY PublishType DEF IInv, TypeInv
<1>4. /\ \A v \in Upload :
            /\ s.up[v] = IF v = u THEN "published" ELSE db.up[v]
            /\ s.res[v] = IF v = u /\ db.res[u] # "released" THEN "ready" ELSE db.res[v]
            /\ s.ob[v] = IF v = u /\ ~redone THEN "materialized" ELSE db.ob[v]
      /\ s.body = db.body /\ s.uses = db.uses
  BY <1>0 DEF States, Published
<1> HIDE DEF s
<1>5. /\ db' = s /\ Survivors' = Survivors \cup {db'} /\ old' \subseteq old \cup {db}
  BY <1>1, <1>3, CommitGives DEF IInv, TypeInv
<1>6. FilesKept
  BY <1>1, StillFiles
<1>7. /\ db.up[u] \in {"finalizing", "published"}
      /\ db.res[u] \in {"publishing", "ready", "released"}
  BY <1>0, <1>2 DEF StateInv
<1>8. Needed(u) => Secure
  BY <1>0, <1>2 DEF Settled, Needed, Secure
<1>9. Calm
  <2>1. StateInv(s)
    BY <1>0, <1>2, <1>4, <1>7 DEF StateInv
  <2>2. \A v \in Upload : Onward(v)
    BY <1>2, <1>4, <1>5, <1>7 DEF Onward, Needed
  <2>3. Wants(s) => Wants(db) \/ Secure'
    <3>1. ASSUME Needed(u) PROVE Secure'
      BY <1>6, <1>8, <3>1 DEF FilesKept
    <3>2. ASSUME ~Needed(u), Wants(s) PROVE Wants(db)
      BY <1>4, <1>7, <3>2 DEF Wants, Needed
    <3>3. QED
      BY <3>1, <3>2
  <2>4. QED
    BY <1>1, <1>3, <1>5, <1>6, <2>1, <2>2, <2>3 DEF Calm, FilesKept, book
<1>10. \/ turn.g = "new" /\ (Needed(u)' => Secure')
       \/ turn.g = "passing" /\ Settled(u)'
  <2>1. Needed(u)' => Needed(u)
    BY <1>4, <1>5, <1>7 DEF Needed
  <2>2. Settled(u) => Settled(u)'
    BY <1>9, CalmKeepsSettled
  <2>3. QED
    BY <1>2, <1>6, <2>1, <2>2 DEF FilesKept
<1>11. MatInv'
  <2> SUFFICES ASSUME NEW v \in Upload
               PROVE  /\ mat'[v] # "none" => db'.ob[v] = "materialized"
                      /\ mat'[v] = "new" /\ Needed(v)' => Secure'
                      /\ mat'[v] = "passing" => Settled(v)'
                      /\ mat'[v] # "synced"
    BY DEF MatInv, Needed
  <2>1. CASE v = u /\ ~redone
    <3>1. mat'[u] = turn.g /\ db'.ob[u] = "materialized"
      BY <1>0, <1>1, <1>4, <1>5, <2>1
    <3>2. QED
      BY <1>10, <2>1, <3>1
  <2>2. CASE v # u \/ redone
    <3>1. mat'[v] = mat[v] /\ (mat[v] # "none" => db'.ob[v] = db.ob[v])
      BY <1>0, <1>1, <1>2, <1>4, <1>5, <2>2
    <3>2. QED
      BY <1>9, <3>1, MatOf
  <2>3. QED
    BY <2>1, <2>2
<1>12. \A v \in redo' : db'.ob[v] = "pending" /\ mat'[v] = "none"
  <2>1. \A v \in redo : v \in Upload /\ db.ob[v] = "pending" /\ mat[v] = "none"
    BY <1>0 DEF IInv, SectionInv
  <2>2. QED
    BY <1>0, <1>1, <1>4, <1>5, <2>1
<1>13. turn' \in Turns /\ SectionInv'
  <2>1. CASE redone
    <3>1. /\ turn' \in Turns /\ turn'.at = "materialize" /\ turn'.ups = turn.ups
          /\ turn'.g = turn.g
      BY <1>0, <1>1, <2>1 DEF Turns
    <3>2. db'.ob[u] = "pending" /\ mat'[u] = "none" /\ db'.up[u] = "published" /\ u \in redo'
      BY <1>1, <1>2, <1>4, <1>5, <2>1
    <3>3. QED
      BY <1>2, <1>10, <1>12, <3>1, <3>2 DEF SectionInv
  <2>2. CASE ~redone
    <3>1. turn' = Idle
      BY <1>1, <2>2
    <3>2. QED
      BY <1>12, <3>1, IdleTurn DEF SectionInv
  <2>3. QED
    BY <2>1, <2>2
<1>14. mat' \in [Upload -> Age]
  BY <1>0, <1>1 DEF Turns
<1>15. /\ CustodyInv'
       /\ change' \in [Key -> Age] /\ wait' \in [Key -> Waits] /\ moved' \subseteq Key
  <2>1. \A k \in Key \ {Blob, u} : Same(k)
    BY <1>4, <1>5 DEF Same, Key
  <2>2. {Blob, u} \subseteq Key
    BY <1>0
  <2>3. QED
    BY <1>1, <1>5, <2>1, <2>2, NoteKeepsCustody, NoteGives DEF IInv, TypeInv
<1>16. TypeInv'
  BY <1>0, <1>1, <1>6, <1>9, <1>13, <1>14, <1>15, SectionTypes DEF sweep, book
<1>17. QED
  BY <1>1, <1>9, <1>11, <1>13, <1>15, <1>16, CalmStep

\* The recovery's own commit of the obligation, under the registration's generation.
LEMMA MaterializeKeeps ==
    ASSUME IInv, NEW u \in Upload, Materialize(u)
    PROVE  IInv'
<1> DEFINE s == [db EXCEPT !.ob[u] = "materialized"]
           g == IF db.res[u] = "released" THEN "new" ELSE turn.g
<1>0. /\ db \in States /\ StateInv(db) /\ db \in Survivors /\ u \in Key /\ Blob \in Key
      /\ writing \subseteq Upload /\ reg \subseteq Key /\ aged \subseteq Key
      /\ found \subseteq Key /\ left \in BOOLEAN /\ mat \in [Upload -> Age]
      /\ pass \in BOOLEAN /\ alive \in BOOLEAN /\ redo \subseteq Upload /\ turn \in Turns
      /\ change \in [Key -> Age] /\ wait \in [Key -> Waits] /\ moved \subseteq Key
  BY Current DEF Key, IInv, TypeInv, MainTypes
<1>1. /\ alive /\ turn.at = "materialize" /\ u \in turn.ups /\ Commit(s)
      /\ mat' = [mat EXCEPT ![u] = g]
      /\ due' = TRUE /\ redo' = redo \ {u} /\ turn' = Idle
      /\ UNCHANGED <<file, may, alive, writing, custody, sweep, pass, reg, book>>
  BY DEF Materialize
<1>2. /\ db.ob[u] = "pending" /\ mat[u] = "none" /\ db.up[u] = "published"
      /\ \/ turn.g = "new" /\ (Needed(u) => Secure)
         \/ turn.g = "passing" /\ Settled(u)
  BY <1>1 DEF IInv, SectionInv, Publishing
<1>3. s \in States
  BY <1>0, ObType DEF ObStates
<1>4. /\ s.up = db.up /\ s.res = db.res /\ s.body = db.body /\ s.uses = db.uses
      /\ \A v \in Upload : s.ob[v] = IF v = u THEN "materialized" ELSE db.ob[v]
  BY <1>0 DEF States
<1> HIDE DEF s
<1>5. /\ db' = s /\ Survivors' = Survivors \cup {db'} /\ old' \subseteq old \cup {db}
  BY <1>1, <1>3, CommitGives DEF IInv, TypeInv
<1>6. FilesKept
  BY <1>1, StillFiles
<1>7. Calm
  <2>1. StateInv(s)
    BY <1>0, <1>2, <1>4 DEF StateInv
  <2>2. \A v \in Upload : Onward(v)
    BY <1>4, <1>5 DEF Onward, Needed
  <2>3. Wants(s) => Wants(db)
    BY <1>4 DEF Wants
  <2>4. QED
    BY <1>1, <1>3, <1>5, <1>6, <2>1, <2>2, <2>3 DEF Calm, FilesKept, book
<1>8. MatInv'
  <2> SUFFICES ASSUME NEW v \in Upload
               PROVE  /\ mat'[v] # "none" => db'.ob[v] = "materialized"
                      /\ mat'[v] = "new" /\ Needed(v)' => Secure'
                      /\ mat'[v] = "passing" => Settled(v)'
                      /\ mat'[v] # "synced"
    BY DEF MatInv, Needed
  <2>1. CASE v = u
    <3>1. mat'[u] = g /\ db'.ob[u] = "materialized"
      BY <1>0, <1>1, <1>4, <1>5
    <3>2. Needed(u)' <=> Needed(u)
      BY <1>4, <1>5 DEF Needed
    <3>3. (Secure => Secure') /\ (Settled(u) => Settled(u)')
      BY <1>7, CalmKeepsSettled DEF Calm
    <3>4. CASE db.res[u] = "released"
      BY <2>1, <3>1, <3>2, <3>4 DEF Needed
    <3>5. CASE db.res[u] # "released"
      <4>1. g = turn.g
        BY <3>5
      <4> HIDE DEF g
      <4>2. QED
        BY <1>2, <2>1, <3>1, <3>2, <3>3, <4>1
    <3>6. QED
      BY <3>4, <3>5
  <2>2. CASE v # u
    <3>1. mat'[v] = mat[v] /\ db'.ob[v] = db.ob[v]
      BY <1>0, <1>1, <1>4, <1>5, <2>2
    <3>2. QED
      BY <1>7, <3>1, MatOf
  <2>3. QED
    BY <2>1, <2>2
<1>9. SectionInv'
  <2>1. \A v \in redo' : v # u /\ v \in Upload /\ db.ob[v] = "pending" /\ mat[v] = "none"
    BY <1>0, <1>1 DEF IInv, SectionInv
  <2>2. \A v \in redo' : db'.ob[v] = "pending" /\ mat'[v] = "none"
    BY <1>0, <1>1, <1>4, <1>5, <2>1
  <2>3. QED
    BY <1>1, <2>2, IdleTurn DEF SectionInv
<1>10. CustodyInv'
  <2>1. Owned(db) /\ Owned(s)
    BY <1>2, <1>4 DEF Owned
  <2>2. \A k \in Key : Same(k)
    BY <1>4, <1>5, <2>1 DEF Same
  <2>3. QED
    BY <1>1, <1>5, <2>2, StillKeepsCustody
<1>11. mat' \in [Upload -> Age]
  BY <1>0, <1>1 DEF Turns, Age
<1>12. TypeInv'
  BY <1>0, <1>1, <1>6, <1>7, <1>11, IdleTurn, SectionTypes DEF sweep, custody, book
<1>13. QED
  BY <1>1, <1>7, <1>8, <1>9, <1>10, <1>12, CalmStep

\* The bytes are missing, or the link or a commit fails.
LEMMA SectionFailsKeeps ==
    ASSUME IInv, NEW u \in Upload, SectionFails(u)
    PROVE  IInv'
<1>0. db \in States /\ StateInv(db)
  BY Current
<1>1. /\ alive /\ turn' = Idle /\ redo' = redo \ {u} /\ db' = db /\ old' = old
      /\ UNCHANGED <<file, may, alive, writing, custody, mat, sweep, flusher, book>>
  BY DEF SectionFails, disk
<1>2. FilesKept
  BY <1>1, StillFiles DEF flusher
<1>3. TurnKept
  BY <1>1, IdleTurn DEF TurnKept
<1>4. RestKept
  BY <1>1 DEF RestKept, sweep, flusher, book, IInv, TypeInv, MainTypes
<1>5. CustodyInv'
  BY <1>1, SameState, StillKeepsCustody
<1>6. change' \in [Key -> Age] /\ wait' \in [Key -> Waits] /\ moved' \subseteq Key
  BY <1>1 DEF custody, IInv, TypeInv, MainTypes
<1>7. QED
  BY <1>0, <1>1, <1>2, <1>3, <1>4, <1>5, <1>6, SameState, StepKeeps

-----------------------------------------------------------------------------
\* A pass has begun: what is registered and what is committed is on the disk.
LEMMA StartPassKeeps ==
    ASSUME IInv, StartPass
    PROVE  IInv'
<1>0. /\ db \in States /\ StateInv(db) /\ db \in Survivors /\ Blob \in Key
      /\ file \in [Key -> BOOLEAN] /\ may \in [Key -> SUBSET BOOLEAN]
      /\ \A k \in Key : file[k] \in may[k]
      /\ mat \in [Upload -> Age] /\ turn \in Turns
      /\ change \in [Key -> Age] /\ wait \in [Key -> Waits] /\ moved \subseteq Key
  BY Current DEF Key, IInv, TypeInv, DiskTypes, MainTypes
<1>1. /\ alive /\ pass' = TRUE /\ due' = FALSE /\ reg' = {} /\ old' = {}
      /\ may' = [k \in Key |-> IF k \in reg THEN {file[k]} ELSE may[k]]
      /\ change' = [k \in Key |-> Step(change[k], "new", "passing")]
      /\ wait' = [k \in Key |-> Step(wait[k], "new", "passing")]
      /\ mat' = [u \in Upload |-> Step(mat[u], "new", "passing")]
      /\ turn' = [turn EXCEPT !.g = Step(@, "new", "passing")]
      /\ UNCHANGED <<db, file, alive, redo, writing, moved, sweep, book>>
  BY DEF StartPass
<1>2. Survivors' = {db} /\ db' = db
  BY <1>1 DEF Survivors
<1>3. Secure => Certain(Blob)'
  <2>1. may'[Blob] = IF Blob \in reg THEN {file[Blob]} ELSE may[Blob]
    BY <1>0, <1>1
  <2>2. CASE Blob \in reg
    <3>1. Secure => file[Blob] = TRUE
      BY <1>0 DEF Secure, Certain
    <3>2. QED
      BY <2>1, <2>2, <3>1 DEF Certain
  <2>3. CASE Blob \notin reg
    BY <2>1, <2>3 DEF Secure, Certain
  <2>4. QED
    BY <2>2, <2>3
<1>4. ASSUME NEW u \in Upload, db.up[u] \in {"finalizing", "published"}, Needed(u) => Secure
      PROVE  Settled(u)'
  BY <1>2, <1>3, <1>4 DEF Settled, Needed
<1>5. ASSUME NEW u \in Upload, Settled(u)
      PROVE  Settled(u)'
  BY <1>0, <1>4, <1>5 DEF Settled, Needed, Secure
<1>6. \A u \in Upload : Needed(u)' <=> Needed(u)
  BY <1>1 DEF Needed
<1>7. TypeInv'
  <2>1. may' \in [Key -> SUBSET BOOLEAN] /\ \A k \in Key : file'[k] \in may'[k]
    BY <1>0, <1>1
  <2>2. DiskTypes'
    BY <1>0, <1>1, <1>2, <2>1 DEF DiskTypes
  <2>3. change' \in [Key -> Age] /\ wait' \in [Key -> Waits] /\ mat' \in [Upload -> Age]
    BY <1>0, <1>1 DEF Step, Age, Waits
  <2>4. turn' \in Turns
    BY <1>0, <1>1 DEF Turns, Step, Age
  <2>5. MainTypes'
    BY <1>1, <2>3, <2>4 DEF sweep, book, IInv, TypeInv, MainTypes
  <2>6. QED
    BY <2>2, <2>5 DEF TypeInv
<1>8. (\A s \in Survivors' : StateInv(s)) /\ DeadInv'
  BY <1>0, <1>1, <1>2 DEF DeadInv
<1>9. CustodyInv'
  <2>1. \A k \in Key : Unmoved(k)'
    BY <1>1 DEF Unmoved
  <2>2. \A k \in Key : k \in moved' => change'[k] # "none"
    BY <1>1 DEF Step, IInv, CustodyInv
  <2>3. QED
    BY <2>1, <2>2 DEF CustodyInv
<1>10. MatInv'
  <2> SUFFICES ASSUME NEW u \in Upload
               PROVE  /\ mat'[u] # "none" => db'.ob[u] = "materialized"
                      /\ mat'[u] # "new" /\ mat'[u] # "synced"
                      /\ mat'[u] = "passing" => Settled(u)'
    BY DEF MatInv
  <2>1. mat'[u] = IF mat[u] = "new" THEN "passing" ELSE mat[u]
    BY <1>1 DEF Step
  <2>2. /\ mat[u] # "none" => db.ob[u] = "materialized"
        /\ mat[u] = "new" /\ Needed(u) => Secure
        /\ mat[u] = "passing" => Settled(u)
        /\ mat[u] # "synced"
    BY DEF IInv, MatInv
  <2>3. mat[u] = "new" => Settled(u)'
    <3>1. mat[u] = "new" => db.up[u] \in {"finalizing", "published"}
      BY <1>0, <2>2 DEF StateInv
    <3>2. QED
      BY <1>4, <2>2, <3>1
  <2>4. QED
    BY <1>1, <1>5, <2>1, <2>2, <2>3
<1>11. SectionInv'
  <2>1. /\ turn'.at = turn.at /\ turn'.ups = turn.ups
        /\ turn'.g = IF turn.g = "new" THEN "passing" ELSE turn.g
    BY <1>0, <1>1 DEF Turns, Step
  <2>2. turn'.at = "idle" => turn' = Idle
    <3>1. SUFFICES ASSUME turn'.at = "idle" PROVE turn' = Idle
      OBVIOUS
    <3>2. turn = Idle
      BY <2>1, <3>1 DEF IInv, SectionInv
    <3>3. QED
      BY <1>1, <3>2 DEF Idle, At, Step
  <2>3. \A u \in redo' : db'.ob[u] = "pending" /\ mat'[u] = "none"
    <3>1. \A u \in redo : u \in Upload /\ db.ob[u] = "pending" /\ mat[u] = "none"
      BY DEF IInv, SectionInv, TypeInv, MainTypes
    <3>2. QED
      BY <1>1, <3>1 DEF Step
  <2>4. ASSUME turn.at \in Publishing, NEW u \in turn.ups
        PROVE  /\ db'.ob[u] = "pending" /\ mat'[u] = "none"
               /\ turn'.at # "link" => \/ turn'.g = "new" /\ (Needed(u)' => Secure')
                                       \/ turn'.g = "passing" /\ Settled(u)'
               /\ turn'.at = "materialize" => db'.up[u] = "published" /\ u \in redo'
    <3>1. /\ u \in Upload /\ db.ob[u] = "pending" /\ mat[u] = "none"
          /\ turn.at # "link" => \/ turn.g = "new" /\ (Needed(u) => Secure)
                                 \/ turn.g = "passing" /\ Settled(u)
          /\ turn.at = "materialize" => db.up[u] = "published" /\ u \in redo
      BY <1>0, <2>4 DEF IInv, SectionInv, Turns
    <3>2. db'.ob[u] = "pending" /\ mat'[u] = "none"
      BY <1>1, <3>1 DEF Step
    <3>3. db.up[u] \in {"finalizing", "published"}
      BY <1>0, <3>1 DEF StateInv
    <3>4. turn'.at # "link" => turn'.g = "passing" /\ Settled(u)'
      BY <1>4, <1>5, <2>1, <3>1, <3>3
    <3>5. QED
      BY <1>1, <2>1, <3>1, <3>2, <3>4
  <2>5. turn.at \in Publishing => \A u, v \in turn.ups : u = v
    BY DEF IInv, SectionInv
  <2>6. QED
    BY <2>1, <2>2, <2>3, <2>4, <2>5 DEF SectionInv
<1>12. PublishedInv'
  <2> SUFFICES ASSUME NEW u \in Upload, db.up[u] = "published", db.ob[u] = "none"
               PROVE  Settled(u)'
    BY <1>2 DEF PublishedInv
  <2>1. Settled(u)
    BY <1>0 DEF IInv, PublishedInv
  <2>2. QED
    BY <1>5, <2>1
<1>13. LifeInv'
  <2> SUFFICES ASSUME crashes + losses = 0
               PROVE  (\A s \in Survivors' : NeedsBytes(s)) \/ Wants(db) => Certain(Blob)'
    BY <1>1, <1>2 DEF LifeInv, OwnersKeepBytes, Secure, book, Wants
  <2>1. Wants(db) => Secure
    BY DEF IInv, LifeInv
  <2>2. NeedsBytes(db) => Wants(db)
    BY DEF NeedsBytes, Wants
  <2>3. QED
    BY <1>2, <1>3, <2>1, <2>2
<1>14. QED
  BY <1>7, <1>8, <1>9, <1>10, <1>11, <1>12, <1>13 DEF IInv

\* The pass reports: the obligations it covers are cleared, all settled.
LEMMA ReportKeeps ==
    ASSUME IInv, Report
    PROVE  IInv'
<1> DEFINE clear == {u \in Upload : mat[u] = "passing" /\ db.ob[u] = "materialized"}
           some == clear # {}
           s == [db EXCEPT !.ob = [u \in Upload |-> IF u \in clear THEN "none" ELSE @[u]]]
<1>0. /\ db \in States /\ StateInv(db) /\ db \in Survivors /\ Blob \in Key
      /\ writing \subseteq Upload /\ reg \subseteq Key /\ aged \subseteq Key
      /\ found \subseteq Key /\ left \in BOOLEAN /\ mat \in [Upload -> Age]
      /\ due \in BOOLEAN /\ alive \in BOOLEAN /\ redo \subseteq Upload
      /\ change \in [Key -> Age] /\ wait \in [Key -> Waits] /\ moved \subseteq Key
  BY Current DEF Key, IInv, TypeInv, MainTypes
<1>1. /\ alive /\ pass' = FALSE /\ Commit(s)
      /\ mat' = [u \in Upload |-> IF u \in clear THEN "none" ELSE mat[u]]
      /\ turn' = IF some THEN At("clean", clear, "none") ELSE Idle
      /\ change' = [k \in Key |-> IF k = Blob /\ some THEN "new"
                                  ELSE Step(change[k], "passing", "synced")]
      /\ moved' = moved \cup {k \in {Blob} : some /\ wait[k] # "idle"}
      /\ due' = (due \/ some)
      /\ wait' = [k \in Key |-> Step(wait[k], "passing", "synced")]
      /\ UNCHANGED <<file, may, alive, redo, writing, sweep, reg, book>>
  BY DEF Report, Free
<1>2. clear \subseteq Upload /\ \A u \in clear : mat[u] = "passing" /\ db.ob[u] = "materialized"
  OBVIOUS
<1>3. s \in States
  BY <1>0 DEF States, ObStates
<1>4. /\ s.up = db.up /\ s.res = db.res /\ s.body = db.body /\ s.uses = db.uses /\ s.ref = db.ref
      /\ \A v \in Upload : s.ob[v] = IF v \in clear THEN "none" ELSE db.ob[v]
  BY <1>0 DEF States
<1> HIDE DEF s, clear
<1>5. /\ db' = s /\ Survivors' = Survivors \cup {db'} /\ old' \subseteq old \cup {db}
  BY <1>1, <1>3, CommitGives DEF IInv, TypeInv
<1>6. FilesKept
  BY <1>1, StillFiles
<1>7. \A u \in clear : Settled(u)
  BY <1>2 DEF IInv, MatInv
<1>8. Calm
  <2>1. StateInv(s)
    BY <1>0, <1>2, <1>4 DEF StateInv
  <2>2. \A v \in Upload : Onward(v)
    BY <1>4, <1>5, <1>7 DEF Onward, Needed
  <2>3. Wants(s) => Wants(db)
    BY <1>4 DEF Wants
  <2>4. QED
    BY <1>1, <1>3, <1>5, <1>6, <2>1, <2>2, <2>3 DEF Calm, FilesKept, book
<1>9. MatInv'
  <2> SUFFICES ASSUME NEW v \in Upload
               PROVE  /\ mat'[v] # "none" => db'.ob[v] = "materialized"
                      /\ mat'[v] = "new" /\ Needed(v)' => Secure'
                      /\ mat'[v] = "passing" => Settled(v)'
                      /\ mat'[v] # "synced"
    BY DEF MatInv, Needed
  <2>1. CASE v \in clear
    BY <1>1, <2>1
  <2>2. CASE v \notin clear
    <3>1. mat'[v] = mat[v] /\ db'.ob[v] = db.ob[v]
      BY <1>1, <1>4, <1>5, <2>2
    <3>2. QED
      BY <1>8, <3>1, MatOf
  <2>3. QED
    BY <2>1, <2>2
<1>10. turn' \in Turns /\ SectionInv'
  <2>1. \A v \in redo' : db'.ob[v] = "pending" /\ mat'[v] = "none"
    <3>1. \A v \in redo : v \in Upload /\ db.ob[v] = "pending" /\ mat[v] = "none" /\ v \notin clear
      BY <1>0, <1>2 DEF IInv, SectionInv
    <3>2. QED
      BY <1>1, <1>4, <1>5, <3>1
  <2>2. CASE some
    <3>1. /\ turn' = At("clean", clear, "none") /\ turn' \in Turns
          /\ turn'.at = "clean"
      BY <1>1, <1>2, <2>2 DEF At, Turns, Age
    <3>2. QED
      BY <2>1, <3>1 DEF SectionInv, Publishing
  <2>3. CASE ~some
    <3>1. turn' = Idle
      BY <1>1, <2>3
    <3>2. QED
      BY <2>1, <3>1, IdleTurn DEF SectionInv
  <2>4. QED
    BY <2>2, <2>3
<1>11. change' \in [Key -> Age] /\ wait' \in [Key -> Waits] /\ moved' \subseteq Key
  BY <1>0, <1>1 DEF Step, Age, Waits
<1>12. CustodyInv'
  <2> SUFFICES ASSUME NEW k \in Key
               PROVE  /\ change'[k] \in {"passing", "synced"} => Unmoved(k)'
                      /\ wait'[k] \in {"passing", "synced"} /\ k \notin moved' => Unmoved(k)'
                      /\ k \in moved' => change'[k] # "none"
    BY DEF CustodyInv
  <2>1. /\ change[k] \in {"passing", "synced"} => Unmoved(k)
        /\ wait[k] \in {"passing", "synced"} /\ k \notin moved => Unmoved(k)
        /\ k \in moved => change[k] # "none"
    BY DEF IInv, CustodyInv
  <2>2. CASE k = Blob /\ some
    BY <1>0, <1>1, <2>2 DEF Step
  <2>3. CASE ~(k = Blob /\ some)
    <3>1. Same(k)
      <4>1. CASE k # Blob
        BY <1>4, <1>5, <4>1 DEF Same
      <4>2. CASE k = Blob
        <5>1. \A v \in Upload : s.ob[v] = db.ob[v]
          BY <1>4, <2>3, <4>2
        <5>2. Owned(s) = Owned(db)
          BY <1>4, <5>1 DEF Owned
        <5>3. QED
          BY <1>5, <4>2, <5>2 DEF Same
      <4>3. QED
        BY <4>1, <4>2
    <3>2. Unmoved(k) => Unmoved(k)'
      BY <1>5, <3>1 DEF Same, Unmoved
    <3>3. /\ change'[k] = Step(change[k], "passing", "synced")
          /\ wait'[k] = Step(wait[k], "passing", "synced")
          /\ k \in moved' <=> k \in moved
      BY <1>1, <2>3
    <3>4. QED
      BY <2>1, <3>2, <3>3 DEF Step
  <2>4. QED
    BY <2>2, <2>3
<1>13. mat' \in [Upload -> Age]
  BY <1>0, <1>1 DEF Age
<1>14. due' \in BOOLEAN
  BY <1>1
<1>15. TypeInv'
  BY <1>0, <1>1, <1>6, <1>8, <1>10, <1>11, <1>13, <1>14, SectionTypes DEF sweep, book
<1>16. QED
  BY <1>1, <1>8, <1>9, <1>10, <1>12, <1>15, CalmStep

-----------------------------------------------------------------------------
\* The process goes down: what it knew is gone, of the disk only less is uncertain.
LEMMA DownKeeps ==
    ASSUME IInv, Forget, Survivors' \subseteq Survivors, DiskTypes',
           Certain(Blob) => Certain(Blob)',
           crashes' \in 0..MaxMishaps, losses' \in 0..MaxLosses, crashes' + losses' # 0
    PROVE  IInv'
<1>0. /\ alive' = FALSE /\ turn' = Idle /\ redo' = {} /\ writing' = {}
      /\ change' = [k \in Key |-> "none"] /\ wait' = [k \in Key |-> "idle"] /\ moved' = {}
      /\ mat' = [u \in Upload |-> "none"]
      /\ aged' = {} /\ found' = {}
      /\ pass' = FALSE /\ due' = FALSE /\ reg' = {} /\ left' = FALSE
  BY DEF Forget
<1>1. TypeInv'
  <2>1. MainTypes'
    BY <1>0, IdleTurn DEF MainTypes, Age, Waits
  <2>2. QED
    BY <2>1 DEF TypeInv
<1>2. (\A s \in Survivors' : StateInv(s)) /\ DeadInv'
  BY <1>0 DEF IInv, DeadInv
<1>3. CustodyInv' /\ SectionInv' /\ MatInv'
  BY <1>0, IdleTurn DEF CustodyInv, SectionInv, MatInv
<1>4. PublishedInv'
  <2> SUFFICES ASSUME NEW u \in Upload, NEW s \in Survivors',
                      s.up[u] = "published", s.ob[u] = "none"
               PROVE  Settled(u)'
    BY DEF PublishedInv
  <2>1. Settled(u)
    BY DEF IInv, PublishedInv
  <2>2. QED
    BY <2>1 DEF Settled
<1>5. LifeInv'
  BY DEF LifeInv
<1>6. QED
  BY <1>1, <1>2, <1>3, <1>4, <1>5 DEF IInv

LEMMA CrashKeeps ==
    ASSUME IInv, Crash
    PROVE  IInv'
<1>0. crashes \in 0..MaxMishaps /\ losses \in 0..MaxLosses /\ MaxMishaps \in Nat /\ MaxLosses \in Nat
  BY KeyAssumption DEF IInv, TypeInv, MainTypes
<1>1. /\ crashes + losses < MaxMishaps /\ crashes' = crashes + 1 /\ losses' = losses
      /\ Forget /\ UNCHANGED disk
  BY DEF Crash
<1>2. /\ crashes' \in 0..MaxMishaps /\ losses' \in 0..MaxLosses /\ crashes' + losses' # 0
  BY <1>0, <1>1
<1>3. Survivors' = Survivors /\ (Certain(Blob) => Certain(Blob)') /\ DiskTypes'
  BY <1>1 DEF disk, Survivors, Certain, IInv, TypeInv, DiskTypes
<1>4. QED
  BY <1>1, <1>2, <1>3, DownKeeps

LEMMA PowerLossKeeps ==
    ASSUME IInv, PowerLoss
    PROVE  IInv'
<1>0. /\ crashes \in 0..MaxMishaps /\ losses \in 0..MaxLosses
      /\ MaxMishaps \in Nat /\ MaxLosses \in Nat /\ Blob \in Key
      /\ Survivors \subseteq States /\ may \in [Key -> SUBSET BOOLEAN]
  BY KeyAssumption DEF Key, IInv, TypeInv, MainTypes, DiskTypes
<1>1. /\ losses < MaxLosses /\ losses' = losses + 1 /\ crashes' = crashes /\ Forget
      /\ db' \in Survivors /\ old' = {}
      /\ file' \in [Key -> BOOLEAN] /\ \A k \in Key : file'[k] \in may[k]
      /\ may' = [k \in Key |-> {file'[k]}]
  BY DEF PowerLoss, Survivors
<1>2. /\ crashes' \in 0..MaxMishaps /\ losses' \in 0..MaxLosses /\ crashes' + losses' # 0
  BY <1>0, <1>1
<1>3. Survivors' = {db'} /\ Survivors' \subseteq Survivors
  BY <1>1 DEF Survivors
<1>4. Certain(Blob) => Certain(Blob)'
  BY <1>0, <1>1 DEF Certain
<1>5. DiskTypes'
  BY <1>0, <1>1, <1>3 DEF DiskTypes
<1>6. QED
  BY <1>1, <1>2, <1>3, <1>4, <1>5, DownKeeps

\* The start of a process: every open obligation is to be redone.
LEMMA RestartKeeps ==
    ASSUME IInv, Restart
    PROVE  IInv'
<1> DEFINE open == {u \in Upload : db.ob[u] # "none"}
           s == [db EXCEPT !.ob = [u \in Upload |-> IF u \in open THEN "pending" ELSE @[u]]]
<1>0. /\ db \in States /\ StateInv(db) /\ db \in Survivors /\ Blob \in Key
      /\ writing \subseteq Upload /\ reg \subseteq Key
      /\ found \subseteq Key /\ left \in BOOLEAN /\ mat \in [Upload -> Age]
      /\ pass \in BOOLEAN /\ turn \in Turns
      /\ change \in [Key -> Age] /\ wait \in [Key -> Waits] /\ moved \subseteq Key
  BY Current DEF Key, IInv, TypeInv, MainTypes
<1>1. /\ alive' = TRUE /\ redo' = open /\ Commit(s) /\ aged' = {k \in Key : file[k]}
      /\ due' = TRUE
      /\ UNCHANGED <<file, may, turn, writing, custody, mat, found, pass, reg, book>>
  BY DEF Restart
<1>2. /\ turn = Idle /\ moved = {} /\ change = [k \in Key |-> "none"]
      /\ wait = [k \in Key |-> "idle"] /\ mat = [u \in Upload |-> "none"]
  BY DEF Restart, IInv, DeadInv
<1>3. s \in States
  BY <1>0 DEF States, ObStates
<1>4. /\ s.up = db.up /\ s.res = db.res /\ s.body = db.body /\ s.uses = db.uses
      /\ \A v \in Upload : s.ob[v] = IF v \in open THEN "pending" ELSE db.ob[v]
  BY <1>0 DEF States
<1>5. open \subseteq Upload /\ \A v \in Upload : v \in open <=> db.ob[v] # "none"
  OBVIOUS
<1> HIDE DEF s, open
<1>6. /\ db' = s /\ Survivors' = Survivors \cup {db'} /\ old' \subseteq old \cup {db}
  BY <1>1, <1>3, CommitGives DEF IInv, TypeInv
<1>7. FilesKept
  BY <1>1, StillFiles
<1>8. Calm
  <2>1. StateInv(s)
    BY <1>0, <1>4, <1>5 DEF StateInv
  <2>2. \A v \in Upload : Onward(v)
    BY <1>4, <1>5, <1>6 DEF Onward, Needed
  <2>3. Wants(s) => Wants(db)
    BY <1>4 DEF Wants
  <2>4. QED
    BY <1>1, <1>3, <1>6, <1>7, <2>1, <2>2, <2>3 DEF Calm, FilesKept, book
<1>9. MatInv' /\ SectionInv' /\ CustodyInv'
  <2>1. mat' = [u \in Upload |-> "none"] /\ turn' = Idle
    BY <1>1, <1>2
  <2>2. \A v \in redo' : db'.ob[v] = "pending" /\ mat'[v] = "none"
    BY <1>1, <1>4, <1>5, <1>6, <2>1
  <2>3. QED
    BY <1>1, <1>2, <2>1, <2>2, IdleTurn DEF MatInv, SectionInv, CustodyInv, custody
<1>10. TypeInv'
  <2>1. /\ redo' \subseteq Upload /\ due' \in BOOLEAN /\ alive' \in BOOLEAN /\ aged' \subseteq Key
        /\ turn' \in Turns /\ writing' \subseteq Upload /\ found' \subseteq Key
    BY <1>0, <1>1, <1>5
  <2>2. QED
    BY <1>0, <1>1, <1>7, <1>8, <2>1, SectionTypes DEF custody, book
<1>11. QED
  BY <1>1, <1>8, <1>9, <1>10, CalmStep

-----------------------------------------------------------------------------
LEMMA InitHolds == Init => IInv
<1> SUFFICES ASSUME Init PROVE IInv
  OBVIOUS
<1>0. /\ db = Empty /\ old = {}
      /\ file = [k \in Key |-> FALSE] /\ may = [k \in Key |-> {FALSE}]
      /\ alive = TRUE /\ turn = Idle /\ redo = {} /\ writing = {}
      /\ change = [k \in Key |-> "none"] /\ wait = [k \in Key |-> "idle"] /\ moved = {}
      /\ mat = [u \in Upload |-> "none"]
      /\ aged = {} /\ found = {}
      /\ pass = FALSE /\ due = FALSE /\ reg = {}
      /\ left = FALSE /\ crashes = 0 /\ losses = 0
  BY DEF Init
<1>1. /\ Survivors = {Empty} /\ Empty \in States /\ StateInv(Empty)
      /\ ~Wants(Empty) /\ ~NeedsBytes(Empty)
  BY <1>0 DEF Survivors, Empty, States, UpStates, ResStates, ObStates, StateInv, Wants, NeedsBytes
<1>2. TypeInv
  <2>1. DiskTypes
    BY <1>0, <1>1 DEF DiskTypes
  <2>2. MainTypes
    <3>1. 0 \in 0..MaxMishaps /\ 0 \in 0..MaxLosses
      BY KeyAssumption
    <3>2. /\ change \in [Key -> Age] /\ wait \in [Key -> Waits] /\ mat \in [Upload -> Age]
      BY <1>0 DEF Age, Waits
    <3>3. QED
      BY <1>0, <3>1, <3>2, IdleTurn DEF MainTypes
  <2>3. QED
    BY <2>1, <2>2 DEF TypeInv
<1>3. CustodyInv /\ SectionInv /\ MatInv /\ DeadInv
  BY <1>0, IdleTurn DEF CustodyInv, SectionInv, MatInv, DeadInv
<1>4. PublishedInv
  BY <1>1 DEF PublishedInv, Empty
<1>5. LifeInv
  BY <1>0, <1>1 DEF LifeInv, OwnersKeepBytes
<1>6. QED
  BY <1>1, <1>2, <1>3, <1>4, <1>5 DEF IInv

LEMMA StutterKeeps == ASSUME IInv, UNCHANGED vars PROVE IInv'
<1>1. UNCHANGED <<db, old, file, may, alive, turn, redo, writing, change, wait, moved, mat,
                  aged, found, pass, due, reg, left, crashes, losses>>
  BY DEF vars, disk, custody, sweep, flusher, book
<1>2. /\ TypeInv' <=> TypeInv
      /\ Survivors' = Survivors
      /\ DeadInv' <=> DeadInv
      /\ CustodyInv' <=> CustodyInv
  BY <1>1 DEF TypeInv, DiskTypes, MainTypes, Survivors, DeadInv, CustodyInv, Unmoved
<1>3. \A u \in Upload : Settled(u)' <=> Settled(u)
  BY <1>1, <1>2 DEF Settled, Certain
<1>4. /\ MatInv' <=> MatInv
      /\ PublishedInv' <=> PublishedInv
      /\ LifeInv' <=> LifeInv
  BY <1>1, <1>2, <1>3 DEF MatInv, Needed, Secure, Certain, PublishedInv, LifeInv,
                          OwnersKeepBytes, Wants
<1>5. SectionInv'
  <2>1. \A u \in turn.ups : u \in Upload
    BY DEF IInv, TypeInv, MainTypes, Turns
  <2>2. SectionInv
    BY DEF IInv
  <2>3. (Secure' <=> Secure) /\ \A u \in Upload : Needed(u)' <=> Needed(u)
    BY <1>1 DEF Secure, Certain, Needed
  <2>4. QED
    BY <1>1, <1>3, <2>1, <2>2, <2>3 DEF SectionInv
<1>6. QED
  BY <1>2, <1>4, <1>5 DEF IInv

LEMMA NextKeeps == ASSUME IInv, [Next]_vars PROVE IInv'
<1>1. ASSUME NEW u \in Upload,
             \/ Create(u) \/ WriteStart(u) \/ WriteEnd(u) \/ WriteFails(u)
             \/ Cancel(u) \/ Finalize(u) \/ Replay(u) \/ Release(u)
             \/ Link(u) \/ Publish(u) \/ Materialize(u) \/ SectionFails(u) \/ Clean(u)
             \/ \E h \in Holder : Claim(h, u)
      PROVE  IInv'
  BY <1>1, UploadRequests, FinalizeKeeps, ReplayKeeps, OwnerRequests, LinkKeeps, PublishKeeps,
     MaterializeKeeps, SectionFailsKeeps, CleanKeeps, ClaimKeeps
<1>2. CASE \/ \E h \in Holder : DropUses(h) \/ \E g \in Holder : Promote(g, h)
           \/ Stage \/ \E b \in Body : Accept(b) \/ DropBody(b)
  BY <1>2, OwnerRequests, StageKeeps
<1>3. ASSUME NEW k \in Key, Flight(k) \/ SweepTake(k)
      PROVE  IInv'
  BY <1>3, FlightStays, PartUnlinked, BlobUnlinked, SweepTakeKeeps DEF Flight, Key
<1>4. CASE SweepList \/ StartPass \/ Report \/ Crash \/ PowerLoss \/ Restart
  BY <1>4, SweepListKeeps, StartPassKeeps, ReportKeeps, CrashKeeps, PowerLossKeeps, RestartKeeps
<1>5. CASE UNCHANGED vars
  BY <1>5, StutterKeeps
<1>6. QED
  BY <1>1, <1>2, <1>3, <1>4, <1>5 DEF Next

THEOREM BlobInvariant == Spec => []IInv
<1>1. Init => IInv
  BY InitHolds
<1>2. IInv /\ [Next]_vars => IInv'
  BY NextKeeps
<1>3. QED
  BY <1>1, <1>2, PTL DEF Spec

-----------------------------------------------------------------------------
\* Every variable has its type, and every file is among what a power loss may
\* leave of it: the types of TypeOK hold of every instance.
THEOREM TypesAreCorrect == Spec => []TypeOK
<1>1. IInv => TypeOK
  <2> SUFFICES ASSUME IInv PROVE TypeOK
    OBVIOUS
  <2>1. \A s \in old \cup {db} :
          /\ s.up \in [Upload -> UpStates] /\ s.res \in [Upload -> ResStates]
          /\ s.ob \in [Upload -> ObStates]
          /\ s.ref \subseteq Upload /\ s.uses \subseteq Holder \X Upload
          /\ s.body \subseteq Body /\ s.row \in BOOLEAN
    BY DEF IInv, TypeInv, DiskTypes, Survivors, States
  <2>2. \A k \in Key : file[k] \in may[k] /\ may[k] \subseteq BOOLEAN
    BY DEF IInv, TypeInv, DiskTypes
  <2>3. MainTypes
    BY DEF IInv, TypeInv
  <2>4. QED
    BY <2>1, <2>2, <2>3 DEF TypeOK, MainTypes, UpStates, ResStates, ObStates, Turns, Waits
<1>2. QED
  BY <1>1, BlobInvariant, PTL

\* A ready resource whose obligation is gone has its blob, whatever a power loss
\* leaves: the obligation is cleared only under a generation that covers the link
\* (publish-blob.ts), in every interleaving and through every crash and recovery.
THEOREM PublicationIsKept == Spec => []PublicationSurvives
<1>1. IInv => PublicationSurvives
  <2> SUFFICES ASSUME IInv, NEW s \in Survivors, NEW u \in Upload,
                      s.res[u] = "ready", s.ob[u] = "none"
               PROVE  Certain(Blob)
    BY DEF PublicationSurvives
  <2>1. s.up[u] = "published"
    BY DEF IInv, StateInv
  <2>2. Settled(u)
    BY <2>1 DEF IInv, PublishedInv
  <2>3. QED
    BY <2>2 DEF Settled
<1>2. QED
  BY <1>1, BlobInvariant, PTL

\* While no process has gone down, once every state a power loss may leave has
\* somebody who needs the bytes the blob is there for certain: a barrier that
\* covers an owner covers the file (blob-files.ts, resource-uses.ts).
THEOREM OwnersBytesAreKept == Spec => []OwnersKeepBytesInOneLife
<1>1. IInv => OwnersKeepBytesInOneLife
  BY DEF IInv, LifeInv, OwnersKeepBytesInOneLife
<1>2. QED
  BY <1>1, BlobInvariant, PTL

-----------------------------------------------------------------------------
\* What a step may unlink: see UnlinkedIsUnneeded.
Unneeded(k) == \A s \in Survivors : IF k = Blob THEN ~Owned(s) ELSE ~NeedsPart(s, k)

\* A step after which no file that was there is gone.
LEMMA FilesStay ==
    ASSUME IInv, UNCHANGED file \/ \E on \in SUBSET Key : Files(on, {})
    PROVE  \A k \in Key : file[k] => file'[k]
<1>1. CASE UNCHANGED file
  BY <1>1
<1>2. CASE \E on \in SUBSET Key : Files(on, {})
  BY <1>2 DEF Files
<1>3. QED
  BY <1>1, <1>2

\* A part that is unowned now, and whose upload did not move since the last sync.
LEMMA PartUnneeded ==
    ASSUME IInv, NEW u \in Upload, FlightUnlinks(u)
    PROVE  Unneeded(u)
<1>0. u \in Key /\ u # Blob
  BY KeyAssumption DEF Key
<1>1. wait[u] = "synced" /\ u \notin moved /\ PartOwner(db, u) = "unowned"
  BY <1>0, WokeGives DEF FlightUnlinks, Recheck, KeyOwned
<1>2. Unmoved(u)
  BY <1>0, <1>1 DEF IInv, CustodyInv
<1>3. db.up[u] \in {"none", "discarded"}
  BY <1>1 DEF PartOwner
<1>4. \A s \in Survivors : s.up[u] \in {"none", "discarded"}
  BY <1>0, <1>2, <1>3 DEF Unmoved, Survivors
<1>5. QED
  BY <1>0, <1>4 DEF Unneeded, NeedsPart

\* A part whose publication is finished and settled.
LEMMA PublishedUnneeded ==
    ASSUME IInv, NEW u \in Upload, PartOwner(db, u) = "published"
    PROVE  Unneeded(u)
<1>0. u # Blob /\ db \in Survivors
  BY KeyAssumption, Current
<1>1. db.up[u] = "published" /\ db.ob[u] = "none"
  BY DEF PartOwner
<1>2. Settled(u)
  BY <1>0, <1>1 DEF IInv, PublishedInv
<1>3. QED
  BY <1>0, <1>2 DEF Unneeded, NeedsPart, Settled

LEMMA CleanUnneeded ==
    ASSUME IInv, NEW u \in Upload, NEW collect \in BOOLEAN, CleanPart(u, collect),
           NEW k \in Key, file[k], ~file'[k]
    PROVE  Unneeded(k)
<1>1. PartOwner(db, u) = "published" /\ Files({}, {u})
  BY DEF CleanPart
<1>2. k = u
  BY <1>1 DEF Files
<1>3. QED
  BY <1>1, <1>2, PublishedUnneeded

LEMMA FlightUnneeded ==
    ASSUME IInv, NEW j \in Key, Flight(j), NEW k \in Key, file[k], ~file'[k]
    PROVE  Unneeded(k)
<1>1. CASE FlightRetries(j) \/ FlightKeeps(j)
  BY <1>1 DEF FlightRetries, FlightKeeps, disk
<1>2. CASE FlightUnlinks(j)
  <2>1. k = j
    BY <1>2 DEF FlightUnlinks, Files
  <2>2. CASE j = Blob
    BY <1>2, <2>1, <2>2, NobodyOwns DEF Unneeded
  <2>3. CASE j # Blob
    BY <1>2, <2>1, <2>3, PartUnneeded DEF Key
  <2>4. QED
    BY <2>2, <2>3
<1>3. QED
  BY <1>1, <1>2 DEF Flight

\* Every other step of a live process leaves the files that are there.
LEMMA OthersUnlinkNothing ==
    ASSUME IInv, alive, alive', [Next]_vars, NEW k \in Key, file[k], ~file'[k]
    PROVE  \/ \E u \in Upload : Clean(u)
           \/ \E j \in Key : Flight(j) \/ SweepTake(j)
<1> SUFFICES ASSUME ~\E u \in Upload : Clean(u),
                    ~\E j \in Key : Flight(j) \/ SweepTake(j)
             PROVE  FALSE
  OBVIOUS
<1>0. {Blob} \in SUBSET Key /\ \A u \in Upload : {u} \in SUBSET Key
  BY DEF Key
<1>1. ASSUME NEW u \in Upload,
             \/ Create(u) \/ WriteStart(u) \/ WriteEnd(u) \/ WriteFails(u)
             \/ Cancel(u) \/ Finalize(u) \/ Replay(u) \/ Release(u)
             \/ Link(u) \/ Publish(u) \/ Materialize(u) \/ SectionFails(u)
             \/ \E h \in Holder : Claim(h, u)
      PROVE  UNCHANGED file \/ \E on \in SUBSET Key : Files(on, {})
  <2>1. CASE Create(u)
    BY <1>0, <2>1 DEF Create
  <2>2. CASE WriteStart(u) \/ WriteEnd(u) \/ WriteFails(u) \/ Cancel(u)
    BY <2>2 DEF WriteStart, WriteEnd, WriteFails, Cancel, disk
  <2>3. CASE Finalize(u) \/ Replay(u) \/ Release(u) \/ \E h \in Holder : Claim(h, u)
    BY <2>3 DEF Finalize, Replay, Release, Claim, disk
  <2>4. CASE Link(u)
    BY <1>0, <2>4 DEF Link
  <2>5. CASE Publish(u) \/ Materialize(u) \/ SectionFails(u)
    BY <2>5 DEF Publish, PublishAt, Materialize, SectionFails, disk
  <2>6. QED
    BY <1>1, <2>1, <2>2, <2>3, <2>4, <2>5
<1>2. CASE \/ \E h \in Holder : DropUses(h) \/ \E g \in Holder : Promote(g, h)
           \/ Stage \/ \E b \in Body : Accept(b) \/ DropBody(b)
  <2>1. UNCHANGED file \/ \E on \in SUBSET Key : Files(on, {})
    BY <1>0, <1>2 DEF DropUses, Promote, Stage, Accept, AcceptAs, DropBody
  <2>2. QED
    BY <2>1, FilesStay
<1>3. CASE SweepList \/ StartPass \/ Report
  BY <1>3 DEF SweepList, StartPass, Report, disk
<1>4. CASE Crash \/ PowerLoss \/ Restart
  BY <1>4 DEF Crash, PowerLoss, Restart, Forget
<1>5. CASE UNCHANGED vars
  BY <1>5 DEF vars, disk
<1>6. QED
  BY <1>1, <1>2, <1>3, <1>4, <1>5, FilesStay DEF Next

\* The program unlinks the blob only when no state a power loss may leave has an
\* owner of it, and a part only when no such state needs it: the barrier and the
\* re-check of a flight (owner-generations.ts), and the settled publication of a
\* part that is cleaned at once (uploads.ts).
THEOREM OnlyUnneededUnlinked == Spec => UnlinkedIsUnneeded
<1>1. ASSUME IInv, [Next]_vars, alive, alive', NEW k \in Key, file[k], ~file'[k]
      PROVE  Unneeded(k)
  <2>1. CASE \E u \in Upload : Clean(u)
    BY <1>1, <2>1, CleanUnneeded DEF Clean, CleanAs
  <2>2. CASE \E j \in Key : SweepTake(j)
    <3>1. PICK j \in Key : SweepTake(j)
      BY <2>2
    <3>2. j \in Upload /\ CleanPart(j, FALSE)
      BY <1>1, <3>1 DEF SweepTake, disk, Key
    <3>3. QED
      BY <1>1, <3>2, CleanUnneeded
  <2>3. CASE \E j \in Key : Flight(j)
    BY <1>1, <2>3, FlightUnneeded
  <2>4. QED
    BY <1>1, <2>1, <2>2, <2>3, OthersUnlinkNothing
<1>2. IInv /\ [Next]_vars => [alive /\ alive' => \A k \in Key : file[k] /\ ~file'[k] =>
          \A s \in Survivors : IF k = Blob THEN ~Owned(s) ELSE ~NeedsPart(s, k)]_vars
  BY <1>1 DEF Unneeded
<1>3. QED
  BY <1>2, BlobInvariant, PTL DEF Spec, UnlinkedIsUnneeded

=============================================================================
