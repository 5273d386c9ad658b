----------------------- MODULE FirmwareCatalogProofs -----------------------
(***************************************************************************)
(* Proofs about FirmwareCatalog, for any codes, revisions, versions,       *)
(* images and publishers, and any number of uploads.                       *)
(***************************************************************************)
EXTENDS FirmwareCatalog, TLAPS

\* A publication whose revision still stands has it registered.
RegistryInv ==
    /\ RowsAreRegistered
    /\ \A p \in Publishers : pub[p] # Idle /\ ~pub[p].orphan =>
          RevisionOf[pub[p].version] \in revisions

RowsInv == \A v \in Versions : IF Exists(v) THEN row[v].image \in Images ELSE row[v] = NoRow

\* What a publication carries was offered, and asked for if it may replace a row.
OffersInv ==
    \A p \in Publishers : pub[p] # Idle =>
       /\ pub[p].image \in offered[pub[p].version]
       /\ pub[p].seen.id # 0 => pub[p].image \in asked[pub[p].version]

\* Until somebody asks for a replacement, rows and publications keep their files.
FilesInv ==
    /\ FileIsKept
    /\ \A p \in Publishers : pub[p].step = "stored" /\ asked[pub[p].version] = {} =>
          disk[pub[p].version][pub[p].file] = pub[p].image

\* Between publications: the only file is the row's, under the plain name.
AtRest(v) == IF Exists(v) THEN row[v].file = 0 /\ disk[v][0] = row[v].image
             ELSE disk[v][0] = None

\* What the single publication of a version finds and leaves on the disk.
UnderWay(p) ==
    LET v == pub[p].version IN
    /\ pub[p].seen = row[v]
    /\ pub[p].step = "checked" => AtRest(v)
    /\ pub[p].step = "cleared" => disk[v][0] = None
    /\ pub[p].step = "stored" => pub[p].file = 0 /\ disk[v][0] = pub[p].image

AloneInv ==
    \A v \in Versions : alone[v] =>
       /\ \A p, q \in Active(v) : p = q
       /\ \A n \in Names \ {0} : disk[v][n] = None
       /\ Active(v) = {} => AtRest(v)
       /\ \A p \in Active(v) : UnderWay(p)

\* The inductive invariant.
IInv == TypeOK /\ RegistryInv /\ RowsInv /\ OffersInv /\ FilesInv /\ AloneInv

\* What a step may do to the catalogue.
CatalogueStep == [Catalogue!Next]_(Catalogue!vars)

-----------------------------------------------------------------------------
LEMMA ConstantFacts ==
    /\ RevisionOf \in [Versions -> Revisions] /\ CodeOf \in [Revisions -> Codes]
    /\ None \notin Images /\ MaxUploads \in Nat
    /\ 0 \in Names /\ 0 \in Ids /\ NoRow \in Rows
BY CatalogAssumption DEF CatalogAssumption, Names, Ids, NoRow, Rows

\* A publication under way.
LEMMA PubFacts ==
    ASSUME TypeOK, NEW p \in Publishers
    PROVE  /\ pub[p] \in Publications \cup {Idle}
           /\ pub[p] # Idle <=> pub[p].step # "idle"
           /\ pub[p] # Idle => pub[p] \in Publications
<1>1. pub[p] \in Publications \cup {Idle}
  BY DEF TypeOK
<1>2. pub[p] \in Publications => pub[p].step # "idle"
  BY DEF Publications
<1>3. Idle.step = "idle"
  BY DEF Idle
<1> QED BY <1>1, <1>2, <1>3

LEMMA TypeParts ==
    ASSUME TypeOK
    PROVE  /\ row \in [Versions -> Rows]
           /\ disk \in [Versions -> [Names -> Images \cup {None}]]
           /\ pub \in [Publishers -> Publications \cup {Idle}]
BY DEF TypeOK

\* What the catalogue shows after one row has changed.
ShownNow == [v \in Versions |-> row[v].image]
LEMMA ShowsImage ==
    ASSUME NEW v \in Versions, \A w \in Versions \ {v} : row'[w] = row[w]
    PROVE  ShownNow' = [ShownNow EXCEPT ![v] = row'[v].image]
BY DEF ShownNow

\* A step that leaves what the catalogue shows alone.
LEMMA Unseen == ASSUME UNCHANGED <<row, offered, asked>> PROVE CatalogueStep
BY DEF CatalogueStep, Catalogue!vars

-----------------------------------------------------------------------------
LEMMA InitInv == Init => IInv /\ Catalogue!Init
<1> SUFFICES ASSUME Init PROVE IInv /\ Catalogue!Init
  OBVIOUS
<1> USE DEF Init
<1>1. \A p \in Publishers : pub[p] = Idle /\ pub[p].step = "idle"
  BY DEF Idle
<1>2. \A v \in Versions : ~Exists(v) /\ row[v] = NoRow
  BY DEF Exists, NoRow
<1>3. TypeOK
  BY ConstantFacts DEF TypeOK
<1>4. RegistryInv /\ RowsInv /\ OffersInv
  BY <1>1, <1>2 DEF RegistryInv, RowsAreRegistered, RowsInv, OffersInv
<1>5. FilesInv
  BY <1>1, <1>2 DEF FilesInv, FileIsKept
<1>6. AloneInv
  BY <1>1, <1>2, ConstantFacts DEF AloneInv, Active, AtRest
<1>7. Catalogue!Init
  BY DEF Catalogue!Init, NoRow
<1> QED BY <1>3, <1>4, <1>5, <1>6, <1>7 DEF IInv

-----------------------------------------------------------------------------
(* The registry. *)

LEMMA RegisterInv ==
    ASSUME IInv, (\E c \in Codes : RegisterCode(c)) \/ (\E r \in Revisions : RegisterRevision(r))
    PROVE  IInv' /\ CatalogueStep
<1>1. UNCHANGED <<row, inserted, disk, pub, uploads, offered, asked, alone>>
  BY DEF RegisterCode, RegisterRevision, history
<1>2. /\ codes \subseteq codes' /\ revisions \subseteq revisions'
      /\ codes' \subseteq Codes /\ revisions' \subseteq Revisions
      /\ \A r \in revisions' : CodeOf[r] \in codes'
  BY DEF IInv, TypeOK, RegistryInv, RowsAreRegistered, RegisterCode, RegisterRevision
<1>3. TypeOK'
  BY <1>1, <1>2 DEF IInv, TypeOK
<1>4. RegistryInv'
  BY <1>1, <1>2 DEF IInv, RegistryInv, RowsAreRegistered, Exists
<1>5. RowsInv' /\ OffersInv' /\ FilesInv'
  BY <1>1 DEF IInv, RowsInv, OffersInv, FilesInv, FileIsKept, Exists
<1>6. AloneInv'
  BY <1>1 DEF IInv, AloneInv, Active, AtRest, UnderWay, Exists
<1> QED BY <1>1, <1>3, <1>4, <1>5, <1>6, Unseen DEF IInv

\* Publications whose revision goes are void, the others are left alone.
LEMMA OrphanedFacts ==
    ASSUME TypeOK, NEW rs \in SUBSET Revisions, pub' = Orphaned(rs)
    PROVE  /\ pub' \in [Publishers -> Publications \cup {Idle}]
           /\ \A p \in Publishers :
                 /\ pub'[p] = Idle <=> pub[p] = Idle
                 /\ pub'[p].step = pub[p].step
                 /\ pub[p] # Idle =>
                       /\ pub'[p].version = pub[p].version /\ pub'[p].image = pub[p].image
                       /\ pub'[p].seen = pub[p].seen /\ pub'[p].file = pub[p].file
                       /\ ~pub'[p].orphan => ~pub[p].orphan /\ RevisionOf[pub[p].version] \notin rs
<1> SUFFICES ASSUME NEW p \in Publishers
             PROVE  /\ pub'[p] \in Publications \cup {Idle}
                    /\ pub'[p] = Idle <=> pub[p] = Idle
                    /\ pub'[p].step = pub[p].step
                    /\ pub[p] # Idle =>
                       /\ pub'[p].version = pub[p].version /\ pub'[p].image = pub[p].image
                       /\ pub'[p].seen = pub[p].seen /\ pub'[p].file = pub[p].file
                       /\ ~pub'[p].orphan => ~pub[p].orphan /\ RevisionOf[pub[p].version] \notin rs
  BY DEF Orphaned
<1>1. pub'[p] = IF pub[p] # Idle /\ RevisionOf[pub[p].version] \in rs
                THEN [pub[p] EXCEPT !.orphan = TRUE] ELSE pub[p]
  BY DEF Orphaned
<1>2. CASE pub[p] # Idle /\ RevisionOf[pub[p].version] \in rs
  <2>1. pub[p] \in Publications
    BY <1>2, PubFacts
  <2> DEFINE new == [pub[p] EXCEPT !.orphan = TRUE]
  <2>2. new \in Publications
    BY <2>1 DEF Publications
  <2>3. new.orphan = TRUE
    BY <2>1 DEF Publications
  <2>4. pub'[p] \in Publications /\ pub'[p].orphan = TRUE
    BY <1>1, <1>2, <2>2, <2>3
  <2>5. pub'[p].step # "idle" /\ Idle.step = "idle"
    BY <2>4 DEF Publications, Idle
  <2>6. /\ pub'[p].step = pub[p].step /\ pub'[p].version = pub[p].version
        /\ pub'[p].image = pub[p].image
        /\ pub'[p].seen = pub[p].seen /\ pub'[p].file = pub[p].file
    BY <1>1, <1>2, <2>1 DEF Publications
  <2> QED BY <1>2, <2>4, <2>5, <2>6
<1>3. CASE ~(pub[p] # Idle /\ RevisionOf[pub[p].version] \in rs)
  BY <1>1, <1>3, PubFacts
<1> QED BY <1>2, <1>3

\* A deletion in the registry: no row hangs on what goes.
LEMMA RegistryLoss ==
    ASSUME IInv, NEW rs \in SUBSET Revisions, \A r \in rs : ~Protected(r),
           revisions' = revisions \ rs, codes' \subseteq codes,
           \A r \in revisions' : CodeOf[r] \in codes',
           pub' = Orphaned(rs), UNCHANGED <<row, inserted, disk, uploads, offered, asked, alone>>
    PROVE  IInv' /\ CatalogueStep
<1>1. /\ pub' \in [Publishers -> Publications \cup {Idle}]
      /\ \A p \in Publishers :
            /\ pub'[p] = Idle <=> pub[p] = Idle
            /\ pub'[p].step = pub[p].step
            /\ pub[p] # Idle =>
                 /\ pub'[p].version = pub[p].version /\ pub'[p].image = pub[p].image
                 /\ pub'[p].seen = pub[p].seen /\ pub'[p].file = pub[p].file
                 /\ ~pub'[p].orphan => ~pub[p].orphan /\ RevisionOf[pub[p].version] \notin rs
  BY OrphanedFacts DEF IInv
<1>2. TypeOK'
  BY <1>1 DEF IInv, TypeOK
<1>3. RegistryInv'
  <2>1. \A v \in Versions : Exists(v) => RevisionOf[v] \notin rs
    BY DEF Protected
  <2> QED BY <1>1, <2>1 DEF IInv, RegistryInv, RowsAreRegistered, Exists
<1>4. RowsInv' /\ OffersInv'
  BY <1>1 DEF IInv, RowsInv, OffersInv, Exists
<1>5. FilesInv'
  <2>1. \A p \in Publishers : pub'[p].step = "stored" =>
          pub[p] # Idle /\ pub'[p].version = pub[p].version /\ pub'[p].file = pub[p].file
          /\ pub'[p].image = pub[p].image
    BY <1>1, PubFacts DEF IInv
  <2> QED BY <1>1, <2>1 DEF IInv, FilesInv, FileIsKept, Exists
<1>6. AloneInv'
  <2>1. \A v \in Versions : Active(v)' = Active(v)
    BY <1>1 DEF Active
  <2>2. \A v \in Versions : AtRest(v)' = AtRest(v)
    BY DEF AtRest, Exists
  <2>3. \A v \in Versions : \A p \in Active(v) : UnderWay(p) => UnderWay(p)'
    BY <1>1, <2>2 DEF Active, UnderWay, AtRest, Exists
  <2> QED BY <2>1, <2>2, <2>3 DEF IInv, AloneInv
<1> QED BY <1>2, <1>3, <1>4, <1>5, <1>6, Unseen DEF IInv

LEMMA DeletionInv ==
    ASSUME IInv, (\E c \in Codes : DeleteCode(c)) \/ (\E r \in Revisions : DeleteRevision(r))
    PROVE  IInv' /\ CatalogueStep
<1>1. ASSUME NEW c \in Codes, DeleteCode(c)
      PROVE  IInv' /\ CatalogueStep
  <2>1. RevisionsOf(c) \in SUBSET Revisions /\ \A r \in RevisionsOf(c) : ~Protected(r)
    BY <1>1 DEF DeleteCode, RevisionsOf
  <2>2. /\ codes' \subseteq codes /\ revisions' = revisions \ RevisionsOf(c)
        /\ pub' = Orphaned(RevisionsOf(c))
        /\ UNCHANGED <<row, inserted, disk, uploads, offered, asked, alone>>
    BY <1>1 DEF DeleteCode, history
  <2>3. \A r \in revisions' : CodeOf[r] \in codes'
    BY <1>1 DEF DeleteCode, RevisionsOf, IInv, TypeOK, RegistryInv, RowsAreRegistered
  <2> QED BY <2>1, <2>2, <2>3, RegistryLoss
<1>2. ASSUME NEW r \in Revisions, DeleteRevision(r)
      PROVE  IInv' /\ CatalogueStep
  <2>1. /\ {r} \in SUBSET Revisions /\ \A s \in {r} : ~Protected(s)
        /\ codes' \subseteq codes /\ revisions' = revisions \ {r} /\ pub' = Orphaned({r})
        /\ UNCHANGED <<row, inserted, disk, uploads, offered, asked, alone>>
    BY <1>2 DEF DeleteRevision, history
  <2>2. \A s \in revisions' : CodeOf[s] \in codes'
    BY <1>2 DEF DeleteRevision, IInv, RegistryInv, RowsAreRegistered
  <2> QED BY <2>1, <2>2, RegistryLoss
<1> QED BY <1>1, <1>2

LEMMA DeleteRowInv ==
    ASSUME IInv, NEW v \in Versions, DeleteRow(v)
    PROVE  IInv' /\ CatalogueStep
<1>1. /\ row' = [row EXCEPT ![v] = NoRow] /\ alone' = [alone EXCEPT ![v] = FALSE]
      /\ UNCHANGED <<codes, revisions, inserted, disk, pub, uploads, offered, asked>>
  BY DEF DeleteRow, registry
<1>2. TypeOK'
  BY <1>1, ConstantFacts DEF IInv, TypeOK
<1>3. row'[v] = NoRow /\ ~Exists(v)' /\ \A w \in Versions \ {v} : row'[w] = row[w]
  BY <1>1 DEF IInv, TypeOK, Exists, NoRow
<1>4. RegistryInv' /\ RowsInv' /\ OffersInv' /\ FilesInv'
  BY <1>1, <1>3 DEF IInv, RegistryInv, RowsAreRegistered, RowsInv, OffersInv, FilesInv,
                    FileIsKept, Exists
<1>5. AloneInv'
  <2>1. \A w \in Versions : alone'[w] => w # v /\ alone[w] /\ row'[w] = row[w]
    BY <1>1, <1>3 DEF IInv, TypeOK
  <2>2. \A w \in Versions : Active(w)' = Active(w)
    BY <1>1 DEF Active
  <2>3. \A w \in Versions \ {v} : AtRest(w)' = AtRest(w)
    BY <1>1, <1>3 DEF AtRest, Exists
  <2>4. \A w \in Versions \ {v} : \A p \in Active(w) : UnderWay(p) => UnderWay(p)'
    BY <1>1, <1>3 DEF UnderWay, Active, AtRest, Exists
  <2> QED BY <1>1, <2>1, <2>2, <2>3, <2>4 DEF IInv, AloneInv
<1>6. Catalogue!Withdraw(v)
  <2>1. row'[v].image = None
    BY <1>3 DEF NoRow
  <2>2. ShownNow' = [ShownNow EXCEPT ![v] = None]
    BY <1>3, <2>1, ShowsImage
  <2> QED BY <1>1, <2>2 DEF Catalogue!Withdraw, ShownNow
<1> QED BY <1>2, <1>4, <1>5, <1>6 DEF IInv, CatalogueStep, Catalogue!Next

-----------------------------------------------------------------------------
(* Publications. *)

LEMMA BeginInv ==
    ASSUME IInv, NEW p \in Publishers, NEW v \in Versions, NEW i \in Images,
           NEW digest \in Images, NEW overwrite \in BOOLEAN, Begin(p, v, i, digest, overwrite)
    PROVE  IInv' /\ CatalogueStep
<1> DEFINE New == [step |-> "checked", version |-> v, image |-> i, seen |-> row[v], file |-> 0,
                   orphan |-> FALSE]
<1>1. /\ pub[p] = Idle /\ uploads < MaxUploads /\ pub' = [pub EXCEPT ![p] = New]
      /\ uploads' = uploads + 1
      /\ offered' = [offered EXCEPT ![v] = @ \cup {digest}]
      /\ asked' = IF overwrite THEN [asked EXCEPT ![v] = @ \cup {digest}] ELSE asked
      /\ alone' = [alone EXCEPT ![v] = @ /\ Active(v) = {}]
      /\ UNCHANGED <<codes, revisions, row, inserted, disk>>
      /\ RevisionOf[v] \in revisions /\ i = digest /\ (Exists(v) => overwrite)
  BY DEF Begin, Accepts, registry
<1>2. row[v] \in Rows /\ New \in Publications
  BY ConstantFacts DEF IInv, TypeOK, Publications
<1>3. /\ New.step = "checked" /\ New.version = v /\ New.image = i /\ New.seen = row[v]
      /\ ~New.orphan /\ New # Idle
  BY DEF Idle
<1> HIDE DEF New
<1>4. pub'[p] = New /\ \A q \in Publishers \ {p} : pub'[q] = pub[q]
  BY <1>1 DEF IInv, TypeOK
<1>5. /\ offered' \in [Versions -> SUBSET Images] /\ asked' \in [Versions -> SUBSET Images]
      /\ \A w \in Versions : offered[w] \subseteq offered'[w] /\ asked[w] \subseteq asked'[w]
      /\ i \in offered'[v] /\ (Exists(v) => i \in asked'[v])
  BY <1>1 DEF IInv, TypeOK
<1>6. TypeOK'
  <2>1. pub' \in [Publishers -> Publications \cup {Idle}]
    BY <1>1, <1>2 DEF IInv, TypeOK
  <2>2. uploads' \in 0 .. MaxUploads
    BY <1>1, ConstantFacts DEF IInv, TypeOK
  <2>3. alone' \in [Versions -> BOOLEAN]
    BY <1>1 DEF IInv, TypeOK
  <2> QED BY <1>1, <1>5, <2>1, <2>2, <2>3 DEF IInv, TypeOK
<1>7. RegistryInv' /\ RowsInv'
  BY <1>1, <1>3, <1>4 DEF IInv, RegistryInv, RowsAreRegistered, RowsInv, Exists
<1>8. OffersInv'
  <2>1. New.image \in offered'[New.version]
        /\ (New.seen.id # 0 => New.image \in asked'[New.version])
    BY <1>3, <1>5 DEF Exists
  <2>2. \A q \in Publishers : pub[q] # Idle => pub[q].version \in Versions
    BY PubFacts DEF IInv, Publications
  <2> QED BY <1>4, <1>5, <2>1, <2>2 DEF IInv, OffersInv
<1>9. FilesInv'
  <2>1. \A q \in Publishers : pub'[q].step = "stored" =>
          pub'[q] = pub[q] /\ pub[q].version \in Versions
    BY <1>3, <1>4, PubFacts DEF IInv, Publications
  <2>2. \A w \in Versions : asked'[w] = {} => asked[w] = {}
    BY <1>5
  <2> QED BY <1>1, <2>1, <2>2 DEF IInv, FilesInv, FileIsKept, Exists
<1>10. AloneInv'
  <2>1. \A w \in Versions \ {v} : Active(w)' = Active(w) /\ alone'[w] = alone[w]
    BY <1>1, <1>3, <1>4 DEF Active, IInv, TypeOK
  <2>2. alone'[v] => alone[v] /\ Active(v) = {}
    BY <1>1 DEF IInv, TypeOK
  <2>3. Active(v) = {} => Active(v)' = {p}
    BY <1>1, <1>3, <1>4 DEF Active
  <2>4. \A w \in Versions : AtRest(w)' = AtRest(w)
    BY <1>1 DEF AtRest, Exists
  <2>5. \A w \in Versions \ {v} : \A q \in Active(w) : UnderWay(q) => UnderWay(q)'
    BY <1>1, <1>4, <2>4 DEF UnderWay, Active, AtRest, Exists
  <2>6. AtRest(v) => UnderWay(p)'
    BY <1>1, <1>3, <1>4, <2>4 DEF UnderWay
  <2>7. ASSUME NEW w \in Versions, alone'[w]
        PROVE  /\ \A q, r \in Active(w)' : q = r
               /\ \A n \in Names \ {0} : disk'[w][n] = None
               /\ Active(w)' = {} => AtRest(w)'
               /\ \A q \in Active(w)' : UnderWay(q)'
    <3>1. CASE w = v
      BY <1>1, <2>2, <2>3, <2>6, <2>7, <3>1 DEF IInv, AloneInv
    <3>2. CASE w # v
      BY <1>1, <2>1, <2>4, <2>5, <2>7, <3>2 DEF IInv, AloneInv
    <3> QED BY <3>1, <3>2
  <2> QED BY <2>7 DEF AloneInv
<1>11. CatalogueStep
  <2>1. Catalogue!Offer(v, digest)
    BY <1>1 DEF Catalogue!Offer
  <2> QED BY <2>1 DEF CatalogueStep, Catalogue!Next
<1> QED BY <1>6, <1>7, <1>8, <1>9, <1>10, <1>11 DEF IInv

LEMMA ClearInv ==
    ASSUME IInv, NEW p \in Publishers, ClearFile(p)
    PROVE  IInv' /\ CatalogueStep
<1> DEFINE v == pub[p].version
           New == [pub[p] EXCEPT !.step = "cleared"]
<1>1. /\ pub[p].step = "checked" /\ pub' = [pub EXCEPT ![p] = New]
      /\ disk' = IF pub[p].seen.id = 0 THEN disk ELSE [disk EXCEPT ![v][pub[p].seen.file] = None]
      /\ UNCHANGED <<codes, revisions, row, inserted, uploads, offered, asked, alone>>
  BY DEF ClearFile, registry, history
<1>2. pub[p] # Idle /\ pub[p] \in Publications /\ v \in Versions
  BY <1>1, PubFacts DEF IInv, Publications
<1>3. /\ New \in Publications /\ New # Idle /\ New.step = "cleared" /\ New.version = v
      /\ New.image = pub[p].image /\ New.seen = pub[p].seen /\ New.orphan = pub[p].orphan
  BY <1>2 DEF Publications, Idle
<1> HIDE DEF New
<1>4. pub'[p] = New /\ \A q \in Publishers \ {p} : pub'[q] = pub[q]
  BY <1>1 DEF IInv, TypeOK
<1>5. /\ disk' \in [Versions -> [Names -> Images \cup {None}]]
      /\ \A w \in Versions \ {v} : disk'[w] = disk[w]
      /\ pub[p].seen.id = 0 => disk' = disk
      /\ pub[p].seen.id # 0 => \A n \in Names :
            disk'[v][n] = IF n = pub[p].seen.file THEN None ELSE disk[v][n]
  BY <1>1, <1>2 DEF IInv, TypeOK
<1>6. TypeOK'
  <2>1. pub' \in [Publishers -> Publications \cup {Idle}]
    BY <1>1, <1>3 DEF IInv, TypeOK
  <2> QED BY <1>1, <1>5, <2>1 DEF IInv, TypeOK
<1>7. RegistryInv' /\ RowsInv' /\ OffersInv'
  BY <1>1, <1>2, <1>3, <1>4 DEF IInv, RegistryInv, RowsAreRegistered, RowsInv, OffersInv, Exists
<1>8. FilesInv'
  <2>1. \A w \in Versions : asked[w] = {} => disk'[w] = disk[w]
    BY <1>2, <1>5 DEF IInv, OffersInv
  <2>2. \A q \in Publishers : pub'[q].step = "stored" =>
          pub'[q] = pub[q] /\ pub[q].version \in Versions
    BY <1>3, <1>4, PubFacts DEF IInv, Publications
  <2> QED BY <1>1, <2>1, <2>2 DEF IInv, FilesInv, FileIsKept, Exists
<1>9. AloneInv'
  <2>1. \A w \in Versions : Active(w)' = Active(w)
    BY <1>2, <1>3, <1>4 DEF Active
  <2>2. \A w \in Versions \ {v} : AtRest(w)' = AtRest(w)
    BY <1>1, <1>5 DEF AtRest, Exists
  <2>3. \A w \in Versions \ {v} : \A q \in Active(w) : UnderWay(q) => UnderWay(q)'
    BY <1>1, <1>2, <1>4, <1>5, <2>2 DEF UnderWay, Active, AtRest, Exists
  <2>4. ASSUME alone[v]
        PROVE  /\ Active(v) = {p} /\ UnderWay(p)'
               /\ \A n \in Names \ {0} : disk'[v][n] = None
    <3>1. p \in Active(v)
      BY <1>2 DEF Active
    <3>2. /\ Active(v) = {p} /\ pub[p].seen = row[v] /\ AtRest(v)
          /\ \A n \in Names \ {0} : disk[v][n] = None
      BY <1>1, <1>2, <2>4, <3>1 DEF IInv, AloneInv, UnderWay
    <3>3. disk'[v][0] = None
      BY <1>5, <3>2, ConstantFacts DEF AtRest, Exists
    <3>4. \A n \in Names \ {0} : disk'[v][n] = None
      BY <1>5, <3>2
    <3> QED BY <1>1, <1>3, <1>4, <3>2, <3>3, <3>4 DEF UnderWay
  <2>5. ASSUME NEW w \in Versions, alone'[w]
        PROVE  /\ \A q, r \in Active(w)' : q = r
               /\ \A n \in Names \ {0} : disk'[w][n] = None
               /\ Active(w)' = {} => AtRest(w)'
               /\ \A q \in Active(w)' : UnderWay(q)'
    <3>1. CASE w = v
      BY <1>1, <2>1, <2>4, <2>5, <3>1
    <3>2. CASE w # v
      BY <1>1, <1>5, <2>1, <2>2, <2>3, <2>5, <3>2 DEF IInv, AloneInv
    <3> QED BY <3>1, <3>2
  <2> QED BY <2>5 DEF AloneInv
<1> QED BY <1>1, <1>6, <1>7, <1>8, <1>9, Unseen DEF IInv

LEMMA NameForFree ==
    ASSUME NEW v \in Versions, Free(v) # {}
    PROVE  /\ NameFor(v) \in Names /\ disk[v][NameFor(v)] = None
           /\ disk[v][0] = None => NameFor(v) = 0
<1>1. NameFor(v) \in Free(v)
  BY DEF NameFor
<1>2. disk[v][0] = None => NameFor(v) = 0
  BY ConstantFacts DEF NameFor, Free
<1> QED BY <1>1, <1>2 DEF Free

LEMMA StoreInv ==
    ASSUME IInv, NEW p \in Publishers, StoreFile(p)
    PROVE  IInv' /\ CatalogueStep
<1> DEFINE v == pub[p].version
           name == NameFor(v)
           New == [pub[p] EXCEPT !.step = "stored", !.file = name]
<1>1. /\ pub[p].step = "cleared" /\ pub' = [pub EXCEPT ![p] = New]
      /\ disk' = [disk EXCEPT ![v][name] = pub[p].image]
      /\ UNCHANGED <<codes, revisions, row, inserted, uploads, offered, asked, alone>>
      /\ Free(v) # {}
  BY DEF StoreFile, registry, history
<1>2. pub[p] # Idle /\ pub[p] \in Publications /\ v \in Versions /\ pub[p].image \in Images
  BY <1>1, PubFacts DEF IInv, Publications
<1>3. name \in Names /\ disk[v][name] = None /\ (disk[v][0] = None => name = 0)
  BY <1>1, <1>2, NameForFree
<1> HIDE DEF name
<1>4. /\ New \in Publications /\ New # Idle /\ New.step = "stored" /\ New.version = v
      /\ New.image = pub[p].image /\ New.seen = pub[p].seen /\ New.orphan = pub[p].orphan
      /\ New.file = name
  BY <1>2, <1>3 DEF Publications, Idle
<1> HIDE DEF New
<1>5. pub'[p] = New /\ \A q \in Publishers \ {p} : pub'[q] = pub[q]
  BY <1>1 DEF IInv, TypeOK
<1>6. /\ disk' \in [Versions -> [Names -> Images \cup {None}]]
      /\ \A w \in Versions \ {v} : disk'[w] = disk[w]
      /\ \A n \in Names : disk'[v][n] = IF n = name THEN pub[p].image ELSE disk[v][n]
  BY <1>1, <1>2, <1>3 DEF IInv, TypeOK
<1>7. TypeOK'
  <2>1. pub' \in [Publishers -> Publications \cup {Idle}]
    BY <1>1, <1>4 DEF IInv, TypeOK
  <2> QED BY <1>1, <1>6, <2>1 DEF IInv, TypeOK
<1>8. RegistryInv' /\ RowsInv' /\ OffersInv'
  BY <1>1, <1>2, <1>4, <1>5 DEF IInv, RegistryInv, RowsAreRegistered, RowsInv, OffersInv, Exists
\* What is on the disk stays there.
<1>9. \A w \in Versions : \A n \in Names : disk[w][n] # None => disk'[w][n] = disk[w][n]
  BY <1>3, <1>6
<1>10. FilesInv'
  <2>1. FileIsKept'
    <3>1. \A w \in Versions : Exists(w) => row[w].file \in Names /\ row[w].image # None
      BY ConstantFacts DEF IInv, TypeOK, Rows, RowsInv
    <3> QED BY <1>1, <1>9, <3>1 DEF IInv, FilesInv, FileIsKept, Exists
  <2>2. ASSUME NEW q \in Publishers, pub'[q].step = "stored", asked'[pub'[q].version] = {}
        PROVE  disk'[pub'[q].version][pub'[q].file] = pub'[q].image
    <3>1. CASE q = p
      BY <1>2, <1>3, <1>4, <1>5, <1>6, <3>1
    <3>2. CASE q # p
      <4>1. pub'[q] = pub[q] /\ pub[q] \in Publications
        BY <1>5, <2>2, <3>2, PubFacts DEF IInv
      <4>2. pub[q].version \in Versions /\ pub[q].file \in Names /\ pub[q].image # None
        BY <4>1, ConstantFacts DEF Publications
      <4> QED BY <1>1, <1>9, <2>2, <4>1, <4>2 DEF IInv, FilesInv
    <3> QED BY <3>1, <3>2
  <2> QED BY <2>1, <2>2 DEF FilesInv
<1>11. AloneInv'
  <2>1. \A w \in Versions : Active(w)' = Active(w)
    BY <1>2, <1>4, <1>5 DEF Active
  <2>2. \A w \in Versions \ {v} : AtRest(w)' = AtRest(w)
    BY <1>1, <1>6 DEF AtRest, Exists
  <2>3. \A w \in Versions \ {v} : \A q \in Active(w) : UnderWay(q) => UnderWay(q)'
    BY <1>1, <1>2, <1>5, <1>6, <2>2 DEF UnderWay, Active, AtRest, Exists
  <2>4. ASSUME alone[v]
        PROVE  /\ Active(v) = {p} /\ UnderWay(p)'
               /\ \A n \in Names \ {0} : disk'[v][n] = None
    <3>1. p \in Active(v)
      BY <1>2 DEF Active
    <3>2. /\ Active(v) = {p} /\ pub[p].seen = row[v] /\ disk[v][0] = None
          /\ \A n \in Names \ {0} : disk[v][n] = None
      BY <1>1, <1>2, <2>4, <3>1 DEF IInv, AloneInv, UnderWay
    <3>3. name = 0 /\ disk'[v][0] = pub[p].image
      BY <1>3, <1>6, <3>2
    <3>4. \A n \in Names \ {0} : disk'[v][n] = None
      BY <1>6, <3>2, <3>3
    <3> QED BY <1>1, <1>4, <1>5, <3>2, <3>3, <3>4 DEF UnderWay
  <2>5. ASSUME NEW w \in Versions, alone'[w]
        PROVE  /\ \A q, r \in Active(w)' : q = r
               /\ \A n \in Names \ {0} : disk'[w][n] = None
               /\ Active(w)' = {} => AtRest(w)'
               /\ \A q \in Active(w)' : UnderWay(q)'
    <3>1. CASE w = v
      BY <1>1, <2>1, <2>4, <2>5, <3>1
    <3>2. CASE w # v
      BY <1>1, <1>6, <2>1, <2>2, <2>3, <2>5, <3>2 DEF IInv, AloneInv
    <3> QED BY <3>1, <3>2
  <2> QED BY <2>5 DEF AloneInv
<1> QED BY <1>1, <1>7, <1>8, <1>10, <1>11, Unseen DEF IInv

LEMMA CommitInv ==
    ASSUME IInv, NEW p \in Publishers, NEW v \in Versions, v = pub[p].version, CommitRow(p)
    PROVE  IInv' /\ CatalogueStep
<1> DEFINE key == Key(p)
           New == [id |-> key, image |-> pub[p].image, file |-> pub[p].file]
<1>1. /\ pub[p].step = "stored" /\ pub' = [pub EXCEPT ![p] = Idle]
      /\ row' = [row EXCEPT ![v] = New]
      /\ inserted' = [inserted EXCEPT ![v] = IF key > @ THEN key ELSE @]
      /\ UNCHANGED <<codes, revisions, disk, uploads, offered, asked, alone>>
      /\ ~pub[p].orphan /\ (Exists(v) => row[v].id = pub[p].seen.id)
  BY DEF CommitRow, Fits, registry, history
<1>2. /\ pub[p] # Idle /\ pub[p] \in Publications /\ v \in Versions /\ pub[p].image \in Images
      /\ pub[p].file \in Names /\ pub[p].seen.id \in Nat
  BY <1>1, PubFacts DEF IInv, Publications, Rows, Ids
<1>3. key \in Nat /\ key # 0
  BY <1>2 DEF Key, IInv, TypeOK, Ids
<1> HIDE DEF key
<1>4. New \in Rows /\ New.id # 0 /\ New.image = pub[p].image /\ New.file = pub[p].file
  BY <1>2, <1>3 DEF Rows, Ids
<1> HIDE DEF New
<1>5. /\ row'[v] = New /\ \A w \in Versions \ {v} : row'[w] = row[w]
      /\ Exists(v)'
  BY <1>1, <1>2, <1>4 DEF IInv, TypeOK, Exists
<1>6. /\ pub'[p] = Idle /\ pub'[p].step = "idle"
      /\ \A q \in Publishers \ {p} : pub'[q] = pub[q]
  BY <1>1 DEF IInv, TypeOK, Idle
<1>7. TypeOK'
  <2>1. pub' \in [Publishers -> Publications \cup {Idle}] /\ row' \in [Versions -> Rows]
    BY <1>1, <1>4 DEF IInv, TypeOK
  <2>2. inserted' \in [Versions -> Ids]
    BY <1>1, <1>3 DEF IInv, TypeOK, Ids
  <2> QED BY <1>1, <2>1, <2>2 DEF IInv, TypeOK
<1>8. RegistryInv'
  <2>1. RevisionOf[v] \in revisions
    BY <1>1, <1>2 DEF IInv, RegistryInv
  <2> QED BY <1>1, <1>5, <1>6, <2>1 DEF IInv, RegistryInv, RowsAreRegistered, Exists
<1>9. RowsInv' /\ OffersInv'
  BY <1>1, <1>2, <1>4, <1>5, <1>6 DEF IInv, RowsInv, OffersInv, Exists
<1>10. FilesInv'
  BY <1>1, <1>2, <1>4, <1>5, <1>6 DEF IInv, FilesInv, FileIsKept, Exists
<1>11. AloneInv'
  <2>1. \A w \in Versions \ {v} : Active(w)' = Active(w) /\ AtRest(w)' = AtRest(w)
    BY <1>1, <1>2, <1>5, <1>6 DEF Active, AtRest, Exists
  <2>2. \A w \in Versions \ {v} : \A q \in Active(w) : UnderWay(q) => UnderWay(q)'
    BY <1>1, <1>5, <1>6, <2>1 DEF UnderWay, Active, AtRest, Exists
  <2>3. ASSUME alone[v]
        PROVE  /\ Active(v)' = {} /\ AtRest(v)'
               /\ \A n \in Names \ {0} : disk[v][n] = None
    <3>1. p \in Active(v)
      BY <1>2 DEF Active
    <3>2. /\ Active(v) = {p} /\ pub[p].file = 0 /\ disk[v][0] = pub[p].image
          /\ \A n \in Names \ {0} : disk[v][n] = None
      BY <1>1, <1>2, <2>3, <3>1 DEF IInv, AloneInv, UnderWay
    <3>3. Active(v)' = {}
      BY <1>6, <3>2 DEF Active
    <3> QED BY <1>1, <1>4, <1>5, <3>2, <3>3 DEF AtRest
  <2>4. ASSUME NEW w \in Versions, alone'[w]
        PROVE  /\ \A q, r \in Active(w)' : q = r
               /\ \A n \in Names \ {0} : disk'[w][n] = None
               /\ Active(w)' = {} => AtRest(w)'
               /\ \A q \in Active(w)' : UnderWay(q)'
    <3>1. CASE w = v
      BY <1>1, <2>3, <2>4, <3>1
    <3>2. CASE w # v
      BY <1>1, <2>1, <2>2, <2>4, <3>2 DEF IInv, AloneInv
    <3> QED BY <3>1, <3>2
  <2> QED BY <2>4 DEF AloneInv
<1>12. CatalogueStep
  <2>1. PICK i \in Images : i = pub[p].image
    BY <1>2
  <2>2. row'[v].image = i
    BY <1>4, <1>5, <2>1
  <2>3. ShownNow' = [ShownNow EXCEPT ![v] = i]
    BY <1>2, <1>5, <2>2, ShowsImage
  <2>4. CASE Exists(v)
    <3>1. i \in asked[v] /\ row[v].image # None
      BY <1>1, <1>2, <2>1, <2>4, ConstantFacts DEF IInv, OffersInv, RowsInv, Exists
    <3>2. Catalogue!Replace(v, i)
      BY <1>1, <2>3, <3>1 DEF Catalogue!Replace, ShownNow
    <3> QED BY <3>2 DEF CatalogueStep, Catalogue!Next
  <2>5. CASE ~Exists(v)
    <3>1. i \in offered[v] /\ row[v].image = None
      BY <1>2, <2>1, <2>5 DEF IInv, OffersInv, RowsInv, NoRow
    <3>2. Catalogue!Publish(v, i)
      BY <1>1, <2>3, <3>1 DEF Catalogue!Publish, ShownNow
    <3> QED BY <3>2 DEF CatalogueStep, Catalogue!Next
  <2> QED BY <2>4, <2>5
<1> QED BY <1>7, <1>8, <1>9, <1>10, <1>11, <1>12 DEF IInv

LEMMA FailInv ==
    ASSUME IInv, NEW p \in Publishers, Fail(p)
    PROVE  IInv' /\ CatalogueStep
<1> DEFINE v == pub[p].version
<1>1. /\ pub[p] # Idle /\ pub' = [pub EXCEPT ![p] = Idle]
      /\ alone' = [alone EXCEPT ![v] = @ /\ Harmless(p)]
      /\ UNCHANGED <<codes, revisions, row, inserted, disk, uploads, offered, asked>>
  BY DEF Fail, registry
<1>2. v \in Versions
  BY <1>1, PubFacts DEF IInv, Publications
<1>3. /\ pub'[p] = Idle /\ pub'[p].step = "idle"
      /\ \A q \in Publishers \ {p} : pub'[q] = pub[q]
  BY <1>1 DEF IInv, TypeOK, Idle
<1>4. TypeOK'
  BY <1>1, <1>2 DEF IInv, TypeOK
<1>5. RegistryInv' /\ RowsInv' /\ OffersInv' /\ FilesInv'
  BY <1>1, <1>3 DEF IInv, RegistryInv, RowsAreRegistered, RowsInv, OffersInv, FilesInv,
                    FileIsKept, Exists
<1>6. AloneInv'
  <2>1. \A w \in Versions : alone'[w] => alone[w] /\ (w = v => Harmless(p))
    BY <1>1, <1>2 DEF IInv, TypeOK
  <2>2. \A w \in Versions \ {v} : Active(w)' = Active(w) /\ AtRest(w)' = AtRest(w)
    BY <1>1, <1>3 DEF Active, AtRest, Exists
  <2>3. \A w \in Versions \ {v} : \A q \in Active(w) : UnderWay(q) => UnderWay(q)'
    BY <1>1, <1>3, <2>2 DEF UnderWay, Active, AtRest, Exists
  <2>4. ASSUME NEW w \in Versions, w = v, alone[w], Harmless(p)
        PROVE  Active(w)' = {} /\ AtRest(w)'
    <3>1. p \in Active(w)
      BY <1>1, <2>4 DEF Active
    <3>2. Active(w)' = {}
      <4>1. \A q \in Active(w) : q = p
        BY <2>4, <3>1 DEF IInv, AloneInv
      <4>2. \A q \in Publishers \ {p} : pub'[q] = Idle \/ pub'[q].version # w
        BY <1>3, <4>1 DEF Active
      <4> QED BY <1>3, <4>2 DEF Active
    <3>3. UnderWay(p)
      BY <2>4, <3>1 DEF IInv, AloneInv
    <3>4. AtRest(w)
      BY <2>4, <3>3 DEF UnderWay, Harmless, AtRest, Exists
    <3> QED BY <1>1, <3>2, <3>4 DEF AtRest, Exists
  <2>5. ASSUME NEW w \in Versions, alone'[w]
        PROVE  /\ \A q, r \in Active(w)' : q = r
               /\ \A n \in Names \ {0} : disk'[w][n] = None
               /\ Active(w)' = {} => AtRest(w)'
               /\ \A q \in Active(w)' : UnderWay(q)'
    <3>1. alone[w] /\ \A n \in Names \ {0} : disk'[w][n] = None
      BY <1>1, <2>1, <2>5 DEF IInv, AloneInv
    <3>2. CASE w = v
      <4>1. Active(w)' = {} /\ AtRest(w)'
        BY <2>1, <2>4, <2>5, <3>1, <3>2
      <4> QED BY <3>1, <4>1
    <3>3. CASE w # v
      BY <2>2, <2>3, <3>1, <3>3 DEF IInv, AloneInv
    <3> QED BY <3>2, <3>3
  <2> QED BY <2>5 DEF AloneInv
<1> QED BY <1>1, <1>4, <1>5, <1>6, Unseen DEF IInv

-----------------------------------------------------------------------------
LEMMA NextInv == ASSUME IInv, [Next]_vars PROVE IInv' /\ CatalogueStep
<1>1. CASE \E c \in Codes : RegisterCode(c) \/ DeleteCode(c)
  BY <1>1, RegisterInv, DeletionInv
<1>2. CASE \E r \in Revisions : RegisterRevision(r) \/ DeleteRevision(r)
  BY <1>2, RegisterInv, DeletionInv
<1>3. CASE \E v \in Versions : DeleteRow(v)
  BY <1>3, DeleteRowInv
<1>4. ASSUME NEW p \in Publishers,
             \/ \E v \in Versions, i, digest \in Images, overwrite \in BOOLEAN :
                   Begin(p, v, i, digest, overwrite)
             \/ ClearFile(p) \/ StoreFile(p) \/ CommitRow(p) \/ Fail(p)
      PROVE  IInv' /\ CatalogueStep
  <2>1. CASE CommitRow(p)
    <3>1. pub[p].step = "stored"
      BY <2>1 DEF CommitRow
    <3>2. PICK v \in Versions : v = pub[p].version
      BY <3>1, PubFacts DEF IInv, Publications
    <3> QED BY <2>1, <3>2, CommitInv
  <2> QED BY <1>4, <2>1, BeginInv, ClearInv, StoreInv, FailInv
<1>5. CASE UNCHANGED vars
  BY <1>5, Unseen DEF vars, IInv, TypeOK, RegistryInv, RowsAreRegistered, RowsInv, OffersInv,
       FilesInv, FileIsKept, AloneInv, Active, AtRest, UnderWay, Exists
<1> QED BY <1>1, <1>2, <1>3, <1>4, <1>5 DEF Next

THEOREM Invariance == Spec => []IInv
<1>1. Init => IInv
  BY InitInv
<1>2. IInv /\ [Next]_vars => IInv'
  BY NextInv
<1> QED BY <1>1, <1>2, PTL DEF Spec

\* Rows, files and publications keep their types.
THEOREM TypeCorrect == Spec => []TypeOK
<1>1. IInv => TypeOK
  BY DEF IInv
<1> QED BY <1>1, Invariance, PTL

\* No image without its revision, no revision without its code, whatever an
\* admin deletes under a publication (ota/models.py:54, 94).
THEOREM RegistryHolds == Spec => []RowsAreRegistered
<1>1. IInv => RowsAreRegistered
  BY DEF IInv, RegistryInv
<1> QED BY <1>1, Invariance, PTL

\* However publications cross, fail or crash, a row nobody asked to replace has
\* the file it was committed with (ota/views.py:239-244).
THEOREM FilesAreKept == Spec => []FileIsKept
<1>1. IInv => FileIsKept
  BY DEF IInv, FilesInv
<1> QED BY <1>1, Invariance, PTL

\* One publisher at a time, no failure and no deletion: what a version downloads
\* is what its row says, before and after any number of replacements.
THEOREM DownloadsAgree == Spec => []DownloadIsTheRow
<1>1. IInv => DownloadIsTheRow
  BY DEF IInv, AloneInv, AtRest, DownloadIsTheRow
<1> QED BY <1>1, Invariance, PTL

\* The catalogue keeps ImageCatalogue's promises, under any crossing, failure,
\* crash and deletion: nothing shown that was not announced with its digest, no
\* image replaced that nobody asked to replace (ota/views.py:222-247).
THEOREM CatalogueImplemented == Spec => ImplementsCatalogue
<1>1. Init => Catalogue!Init
  BY InitInv
<1>2. IInv /\ [Next]_vars => CatalogueStep
  BY NextInv
<1> QED BY <1>1, <1>2, Invariance, PTL
        DEF Spec, ImplementsCatalogue, Catalogue!Spec, CatalogueStep
=============================================================================
