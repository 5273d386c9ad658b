-------------------------- MODULE FirmwareCatalog --------------------------
(***************************************************************************)
(* The hardware registry and the firmware catalogue: the publication API   *)
(* (ota/views.py), its tables (ota/models.py), the files it stores and     *)
(* serves, and the admin site's deletions.                                 *)
(*                                                                         *)
(* Several publishers run at once.  A publication checks its request and   *)
(* reads the row of its version first; in its transaction it deletes the   *)
(* file of the row it read, stores its own and writes the row.  A rollback *)
(* or a crash takes back the row, never the files.  The storage gives a    *)
(* taken name a suffix; devices download from the name without one.        *)
(*                                                                         *)
(* An image stands for its bytes and for their MD5.  Uploads stop at       *)
(* MaxUploads, which also bounds the rows and the files.                   *)
(***************************************************************************)
EXTENDS Naturals

CONSTANTS
    Codes,        \* hardware codes
    Revisions,    \* hardware revisions
    CodeOf,       \* [Revisions -> Codes]
    Versions,     \* firmware versions, each of one revision
    RevisionOf,   \* [Versions -> Revisions]
    Images,
    None,         \* no image
    Publishers,   \* requests of the publication API under way at once
    MaxUploads    \* bound: firmware publications begun

ASSUME CatalogAssumption ==
    /\ CodeOf \in [Revisions -> Codes]
    /\ RevisionOf \in [Versions -> Revisions]
    /\ None \notin Images
    /\ MaxUploads \in Nat

VARIABLES
    codes,      \* registered HardwareCode rows
    revisions,  \* registered HardwareRevision rows
    row,        \* [Versions -> [id, image, file]]: Firmware rows; id 0 is no row
    inserted,   \* [Versions -> rows inserted so far]: the next primary key
    disk,       \* [Versions -> [Names -> image stored]]
    pub,        \* [Publishers -> the publication under way]
    uploads,    \* publications begun
    offered,    \* history: [Versions -> digests announced with an accepted upload]
    asked,      \* history: those announced with overwrite=true
    alone       \* history: [Versions -> BOOLEAN], no two publications of it have
                \* crossed, none was cut short that had touched a file, its
                \* row was never deleted

vars == <<codes, revisions, row, inserted, disk, pub, uploads, offered, asked, alone>>
registry == <<codes, revisions>>
history == <<offered, asked, alone>>

\* The name 0 is <version>.bin; the others carry a suffix.
Names == 0 .. MaxUploads
Ids == Nat
NoRow == [id |-> 0, image |-> None, file |-> 0]
Rows == [id : Ids, image : Images \cup {None}, file : Names]
Idle == [step |-> "idle"]
\* seen: the row as the publication read it; orphan: its revision is gone since.
Publications ==
    [step : {"checked", "cleared", "stored"}, version : Versions, image : Images,
     seen : Rows, file : Names, orphan : BOOLEAN]

TypeOK ==
    /\ codes \subseteq Codes /\ revisions \subseteq Revisions
    /\ row \in [Versions -> Rows]
    /\ inserted \in [Versions -> Ids]
    /\ disk \in [Versions -> [Names -> Images \cup {None}]]
    /\ pub \in [Publishers -> Publications \cup {Idle}]
    /\ uploads \in 0 .. MaxUploads
    /\ offered \in [Versions -> SUBSET Images] /\ asked \in [Versions -> SUBSET Images]
    /\ alone \in [Versions -> BOOLEAN]

Exists(v) == row[v].id # 0
Active(v) == {p \in Publishers : pub[p] # Idle /\ pub[p].version = v}

-----------------------------------------------------------------------------
(* The registry. *)

\* hw_code_view (A1) and hw_revision_view (A2): upserts.
RegisterCode(c) ==
    /\ codes' = codes \cup {c}
    /\ UNCHANGED <<revisions, row, inserted, disk, pub, uploads, history>>

RegisterRevision(r) ==
    /\ CodeOf[r] \in codes
    /\ revisions' = revisions \cup {r}
    /\ UNCHANGED <<codes, row, inserted, disk, pub, uploads, history>>

Protected(r) == \E v \in Versions : RevisionOf[v] = r /\ Exists(v)

\* What a publication read of these revisions is void, registered again or not.
Orphaned(rs) == [p \in Publishers |->
    IF pub[p] # Idle /\ RevisionOf[pub[p].version] \in rs
    THEN [pub[p] EXCEPT !.orphan = TRUE] ELSE pub[p]]
RevisionsOf(c) == {r \in Revisions : CodeOf[r] = c}

\* The admin site: a revision with images is protected, and so is its code; a
\* code takes its revisions with it.
DeleteRevision(r) ==
    /\ ~Protected(r)
    /\ revisions' = revisions \ {r}
    /\ pub' = Orphaned({r})
    /\ UNCHANGED <<codes, row, inserted, disk, uploads, history>>

DeleteCode_Unprotected(c) ==
    /\ codes' = codes \ {c}
    /\ revisions' = revisions \ RevisionsOf(c)
    /\ pub' = Orphaned(RevisionsOf(c))
    /\ UNCHANGED <<row, inserted, disk, uploads, history>>

DeleteCode(c) ==
    /\ \A r \in RevisionsOf(c) : ~Protected(r)
    /\ codes' = codes \ {c}
    /\ revisions' = revisions \ RevisionsOf(c)
    /\ pub' = Orphaned(RevisionsOf(c))
    /\ UNCHANGED <<row, inserted, disk, uploads, history>>

\* The file of a deleted row stays.
DeleteRow(v) ==
    /\ Exists(v)
    /\ row' = [row EXCEPT ![v] = NoRow]
    /\ alone' = [alone EXCEPT ![v] = FALSE]
    /\ UNCHANGED <<registry, inserted, disk, pub, uploads, offered, asked>>

-----------------------------------------------------------------------------
(* _publish_firmware (A3).                                                  *)

Accepts_AnyDigest(v, i, digest, overwrite) ==
    /\ RevisionOf[v] \in revisions
    /\ Exists(v) => overwrite

\* What is checked before anything is written: the revision, the digest of the
\* upload against the one announced, and the version's row.
Accepts(v, i, digest, overwrite) ==
    /\ RevisionOf[v] \in revisions
    /\ i = digest
    /\ Exists(v) => overwrite

Begin(p, v, i, digest, overwrite) ==
    /\ pub[p] = Idle /\ uploads < MaxUploads
    /\ Accepts(v, i, digest, overwrite)
    /\ pub' = [pub EXCEPT ![p] =
          [step |-> "checked", version |-> v, image |-> i, seen |-> row[v], file |-> 0,
           orphan |-> FALSE]]
    /\ uploads' = uploads + 1
    /\ offered' = [offered EXCEPT ![v] = @ \cup {digest}]
    /\ asked' = IF overwrite THEN [asked EXCEPT ![v] = @ \cup {digest}] ELSE asked
    /\ alone' = [alone EXCEPT ![v] = @ /\ Active(v) = {}]
    /\ UNCHANGED <<registry, row, inserted, disk>>

ClearFile_Plain(p) ==
    /\ pub[p].step = "checked"
    /\ disk' = [disk EXCEPT ![pub[p].version][0] = None]
    /\ pub' = [pub EXCEPT ![p].step = "cleared"]
    /\ UNCHANGED <<registry, row, inserted, uploads, history>>

ClearFile_Never(p) ==
    /\ pub[p].step = "checked"
    /\ pub' = [pub EXCEPT ![p].step = "cleared"]
    /\ UNCHANGED <<registry, row, inserted, disk, uploads, history>>

\* existing.file.delete: the file of the row as it was read, there or not.
ClearFile(p) ==
    /\ pub[p].step = "checked"
    /\ disk' = IF pub[p].seen.id = 0 THEN disk
               ELSE [disk EXCEPT ![pub[p].version][pub[p].seen.file] = None]
    /\ pub' = [pub EXCEPT ![p].step = "cleared"]
    /\ UNCHANGED <<registry, row, inserted, uploads, history>>

\* The name the storage gives: <version>.bin if it is free, else a new one.
Free(v) == {n \in Names : disk[v][n] = None}
NameFor(v) == IF 0 \in Free(v) THEN 0 ELSE CHOOSE n \in Free(v) : TRUE

StoreFile(p) ==
    /\ pub[p].step = "cleared"
    /\ Free(pub[p].version) # {}
    /\ LET v == pub[p].version IN
          /\ disk' = [disk EXCEPT ![v][NameFor(v)] = pub[p].image]
          /\ pub' = [pub EXCEPT ![p].step = "stored", ![p].file = NameFor(v)]
    /\ UNCHANGED <<registry, row, inserted, uploads, history>>

\* The row written for a publication: an update by primary key that finds no row
\* inserts it under the same key.
Key(p) == IF pub[p].seen.id # 0 THEN pub[p].seen.id ELSE inserted[pub[p].version] + 1

\* The keys of the database: the revision exists, and the version has no row but
\* the one that is updated.
Fits(p) ==
    /\ ~pub[p].orphan
    /\ Exists(pub[p].version) => row[pub[p].version].id = pub[p].seen.id

CommitRow(p) ==
    /\ pub[p].step = "stored"
    /\ Fits(p)
    /\ LET v == pub[p].version IN
          /\ row' = [row EXCEPT ![v] =
                [id |-> Key(p), image |-> pub[p].image, file |-> pub[p].file]]
          /\ inserted' = [inserted EXCEPT ![v] = IF Key(p) > @ THEN Key(p) ELSE @]
    /\ pub' = [pub EXCEPT ![p] = Idle]
    /\ UNCHANGED <<registry, disk, uploads, history>>

\* Nothing is stored and no file of a row is taken away as yet.
Harmless(p) == pub[p].step = "checked" \/ (pub[p].step = "cleared" /\ pub[p].seen.id = 0)

\* A key that does not fit, a storage that fails or a crash: the row is as it
\* was, the files are as they are.
Fail(p) ==
    /\ pub[p] # Idle
    /\ pub' = [pub EXCEPT ![p] = Idle]
    /\ alone' = [alone EXCEPT ![pub[p].version] = @ /\ Harmless(p)]
    /\ UNCHANGED <<registry, row, inserted, disk, uploads, offered, asked>>

-----------------------------------------------------------------------------
Init ==
    /\ codes = {} /\ revisions = {}
    /\ row = [v \in Versions |-> NoRow]
    /\ inserted = [v \in Versions |-> 0]
    /\ disk = [v \in Versions |-> [n \in Names |-> None]]
    /\ pub = [p \in Publishers |-> Idle]
    /\ uploads = 0
    /\ offered = [v \in Versions |-> {}] /\ asked = [v \in Versions |-> {}]
    /\ alone = [v \in Versions |-> TRUE]

Next ==
    \/ \E c \in Codes : RegisterCode(c) \/ DeleteCode(c)
    \/ \E r \in Revisions : RegisterRevision(r) \/ DeleteRevision(r)
    \/ \E v \in Versions : DeleteRow(v)
    \/ \E p \in Publishers :
          \/ \E v \in Versions, i, digest \in Images, overwrite \in BOOLEAN :
                Begin(p, v, i, digest, overwrite)
          \/ ClearFile(p) \/ StoreFile(p) \/ CommitRow(p) \/ Fail(p)

Spec == Init /\ [][Next]_vars

-----------------------------------------------------------------------------
(* Properties. *)

\* Every image hangs on a registered revision of a registered code, whatever is
\* deleted between the checks of a publication and its commit (the PROTECT and
\* CASCADE of ota/models.py:54, 89).
RowsAreRegistered ==
    /\ \A v \in Versions : Exists(v) => RevisionOf[v] \in revisions
    /\ \A r \in revisions : CodeOf[r] \in codes

\* Nobody's publication takes away the file of another version's row, or of a row
\* nobody asked to replace: crossing first publications, failures, crashes and
\* deletions included (ota/views.py:239-244).
FileIsKept ==
    \A v \in Versions : Exists(v) /\ asked[v] = {} => disk[v][row[v].file] = row[v].image

\* Published by one publisher at a time, never deleted, and never cut short with a
\* file deleted or stored, a version downloads what its checksum names, replaced
\* or not, except while it is being replaced (ota/views.py:239-248).
DownloadIsTheRow ==
    \A v \in Versions : Exists(v) /\ alone[v] /\ Active(v) = {} => disk[v][0] = row[v].image

\* The catalogue as its readers know it, without files, keys and publications.
Catalogue == INSTANCE ImageCatalogue WITH image <- [v \in Versions |-> row[v].image]

\* What a version shows was announced for it with its digest, and changes only
\* when a replacement was asked for with overwrite=true (ota/views.py:222-235).
ImplementsCatalogue == Catalogue!Spec
=============================================================================
