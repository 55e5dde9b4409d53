---------------------------- MODULE BootUpdateProofs ----------------------------
(***************************************************************************)
(* What BootUpdate keeps, for any types, images and packages, and any      *)
(* number of failures.                                                     *)
(*                                                                         *)
(* Four invariants, each on top of the types: TypeInv, where the update is *)
(* and what the item at hand is; FlashInv, the tables that this update     *)
(* flashed and those that are always flashed with their images; StoreInv,  *)
(* the images that this update is past; and SafeInv, which counts the      *)
(* copies that are, or may become, bad.  The last two need that reading an *)
(* image table does not fail (bl_ptm.c would restore it over a good one).  *)
(***************************************************************************)
EXTENDS BootUpdate, TLAPS, FiniteSetTheorems

\* Inside the loops of the update; and while an image is on its way.
Looping   == {"item", "readTbl"} \cup TableOps \cup ImageOps
Restoring == {"rstErase", "rstWrite"}
Storing   == {"imgErase", "imgWrite", "tblErase", "tblWrite"}

\* Where the update is, and what the item at hand is.
Place ==
  /\ pc \in PTOps => pkg[1].kind = "PT" /\ copy = 1 /\ item = 1
  /\ pc = "ptWrite" => pts < PTBL_NUM_COPIES
  /\ pc \in Looping => item >= First(pkg)
  /\ pc \in Looping \ {"item"} => ptm = "IDLE"
  /\ pc \in {"hdrErase", "hdrWrite"} => pkg[item].kind = "hdr"
  /\ pc \in {"readTbl"} \cup Restoring \cup Storing => pkg[item].kind = "img"
  /\ result # "none" => mode = "download"

TypeInv == TypeOK /\ Place

(***************************************************************************)
(* The items of a package.                                                 *)
(***************************************************************************)

\* What the fields of an item may be.
LEMMA ItemFields ==
  ASSUME NEW x \in Items
  PROVE  /\ x.kind \in {"PT", "hdr", "img"}
         /\ x.kind = "PT" => x = PTItem
         /\ x.kind # "PT" => x.type \in Types
         /\ x.kind = "hdr" => x = Item("hdr", x.type, "none")
         /\ x.kind = "img" => x.img \in Imgs /\ x = Item("img", x.type, x.img)
BY DEF Items, Item, PTItem

\* A package is a sequence of items that is not empty.
LEMMA PackageSeq ==
  ASSUME NEW p \in Packages
  PROVE  /\ p \in Seq(Items) /\ Len(p) \in Nat /\ Len(p) >= 1
         /\ DOMAIN p = 1 .. Len(p)
         /\ \A j \in DOMAIN p : p[j] \in Items
         /\ First(p) \in 1 .. Len(p) + 1
<1>1. p \in Seq(Items) /\ p # <<>>
  BY PackageAssumption
<1>2. Len(p) \in Nat /\ Len(p) >= 1 /\ DOMAIN p = 1 .. Len(p) /\ \A j \in DOMAIN p : p[j] \in Items
  BY <1>1
<1>3. First(p) \in 1 .. Len(p) + 1
  BY <1>2 DEF First
<1>. QED  BY <1>1, <1>2, <1>3

\* Where the loops begin, and after that, there are only tables and images.
LEMMA AfterFirst ==
  ASSUME NEW p \in Packages, NEW j \in DOMAIN p, j >= First(p)
  PROVE  /\ p[j].kind \in {"hdr", "img"} /\ p[j].type \in Types
         /\ p[j].kind = "img" => p[j].img \in Imgs
<1>1. p[j].kind # "PT"
  BY PackageAssumption, PackageSeq DEF First
<1>. QED  BY <1>1, PackageSeq, ItemFields

\* There are no tables before the place where the loops begin.
LEMMA BeforeFirst ==
  ASSUME NEW p \in Packages, NEW j \in DOMAIN p, j < First(p)
  PROVE  p[j].kind = "PT"
BY PackageSeq DEF First

(***************************************************************************)
(* Type correctness.                                                       *)
(***************************************************************************)
\* A board from the factory is where an update may begin.
LEMMA TypeInit == Init => TypeInv
<1>. SUFFICES ASSUME Init PROVE TypeInv
  OBVIOUS
<1>1. TypeOK
  BY VersAssumption, CopyAssumption, TypeAssumption
  DEF Init, TypeOK, Tables, Fresh, Parts, Empty, PTBL_NUM_COPIES, PTBL_MAX_NUM_COPIES, TableOps, ImageOps, PTOps
<1>2. Place
  BY DEF Init, Place, Looping, Restoring, Storing, TableOps, ImageOps, PTOps
<1>. QED  BY <1>1, <1>2 DEF TypeInv

\* What the item at hand is, and where its tables and images are.
LEMMA Here ==
  ASSUME TypeInv, pc \in Looping \ {"item"}
  PROVE  /\ pkg \in Packages /\ item \in DOMAIN pkg /\ copy \in 1 .. N
         /\ pkg[item].type \in Types /\ Cur \in Parts
         /\ pkg[item].kind = "img" => pkg[item].img \in Imgs /\ <<Cur, pkg[item].img>> \in Parts \X Imgs
         /\ Fresh \in Tables /\ Written \in Tables /\ ptm = "IDLE" /\ mode = "update"
<1>1. /\ pkg \in Packages /\ item \in DOMAIN pkg /\ copy \in 1 .. N
      /\ ptm = "IDLE" /\ mode = "update" /\ item >= First(pkg)
  BY DEF TypeInv, TypeOK, Place, Looping, TableOps, ImageOps
<1>2. /\ pkg[item].type \in Types
      /\ pkg[item].kind = "img" => pkg[item].img \in Imgs
  BY <1>1, AfterFirst
<1>3. Fresh \in Tables /\ Written \in Tables
  BY DEF TypeInv, TypeOK, Fresh, Tables, Written
<1>. QED  BY <1>1, <1>2, <1>3 DEF Cur, Parts

\* Going to another item of the package, or past the last one.
LEMMA GotoType ==
  ASSUME TypeInv, mode = "update", pkg \in Packages,
         NEW c \in 1 .. PTBL_MAX_NUM_COPIES + 1, NEW j \in First(pkg) .. Len(pkg) + 1,
         Goto(c, j), UNCHANGED <<mode, pkg, ver, result>>,
         pts' \in 0 .. PTBL_NUM_COPIES, tbl' \in [Parts -> Tables \cup {Unreadable}],
         img' \in [Parts \X Imgs -> Vers \cup {Empty}],
         ptm' \in {"UNINIT", "IDLE", "ERROR"}, sysCfg' \in 0 .. N, imgTbl' \in Tables,
         since' \in 0 .. MaxFailures
  PROVE  TypeInv'
<1>1. j \in 1 .. Len(pkg) + 1
  BY PackageSeq
<1>2. TypeOK'
  BY <1>1 DEF TypeInv, TypeOK, Goto, TableOps, ImageOps, PTOps
<1>3. Place'
  BY DEF TypeInv, TypeOK, Place, Goto, Looping, Restoring, Storing, TableOps, ImageOps, PTOps
<1>. QED  BY <1>2, <1>3 DEF TypeInv

\* The end of an update, with or without an error.
LEMMA EndType ==
  ASSUME TypeInv, NEW res \in {"ok", "error"}, End(res), UNCHANGED <<ptm, sysCfg, imgTbl, pkg, ver>>,
         pts' \in 0 .. PTBL_NUM_COPIES, tbl' \in [Parts -> Tables \cup {Unreadable}],
         img' \in [Parts \X Imgs -> Vers \cup {Empty}], since' \in 0 .. MaxFailures
  PROVE  TypeInv'
<1>1. TypeOK'
  BY DEF TypeInv, TypeOK, End, TableOps, ImageOps, PTOps
<1>2. Place'
  BY DEF TypeInv, TypeOK, Place, End, Looping, Restoring, Storing, TableOps, ImageOps, PTOps
<1>. QED  BY <1>1, <1>2 DEF TypeInv

\* The loss of the RAM.
LEMMA OffType ==
  ASSUME TypeInv, Off,
         pts' \in 0 .. PTBL_NUM_COPIES, tbl' \in [Parts -> Tables \cup {Unreadable}],
         img' \in [Parts \X Imgs -> Vers \cup {Empty}], since' \in 0 .. MaxFailures
  PROVE  TypeInv'
<1>1. TypeOK'
  BY CopyAssumption DEF TypeInv, TypeOK, Off, Fresh, Tables, TableOps, ImageOps, PTOps, PTBL_MAX_NUM_COPIES
<1>2. Place'
  BY DEF Place, Off, Looping, Restoring, Storing, TableOps, ImageOps, PTOps
<1>. QED  BY <1>1, <1>2 DEF TypeInv

\* The least element of a set of copies is one of them.
LEMMA LeastCopy ==
  ASSUME NEW S \in SUBSET (1 .. N), S # {}
  PROVE  Least(S) \in S
<1>1. \E c \in S : \A d \in S : c <= d
  <2>1. N \in {1, 2, 3}
    BY CopyAssumption DEF PTBL_MAX_NUM_COPIES
  <2>2. \A d \in S : d \in {1, 2, 3}
    BY <2>1
  <2>3. CASE 1 \in S
    <3>1. \A d \in S : 1 <= d
      BY <2>2
    <3>. QED  BY <2>3, <3>1
  <2>4. CASE 1 \notin S /\ 2 \in S
    <3>1. \A d \in S : 2 <= d
      BY <2>2, <2>4
    <3>. QED  BY <2>4, <3>1
  <2>5. CASE 1 \notin S /\ 2 \notin S
    <3>1. PICK e \in S : TRUE
      OBVIOUS
    <3>2. e = 3 /\ \A d \in S : 3 <= d
      BY <2>2, <2>5
    <3>. QED  BY <3>2
  <2>. QED  BY <2>3, <2>4, <2>5
<1>. QED  BY <1>1 DEF Least

\* What the flash holds after an operation that failed.
LEMMA FaultType ==
  ASSUME TypeInv, Interrupted \/ (pc \in TableOps \cup ImageOps \cup PTOps /\ Unconfirmed)
  PROVE  /\ pts' \in 0 .. PTBL_NUM_COPIES /\ tbl' \in [Parts -> Tables \cup {Unreadable}]
         /\ img' \in [Parts \X Imgs -> Vers \cup {Empty}]
<1>1. CASE UNCHANGED flash
  BY <1>1 DEF flash, TypeInv, TypeOK
<1>2. CASE pc \in TableOps /\ (EraseTbl \/ WriteTbl) /\ UNCHANGED <<pts, img>>
  BY <1>2, Here DEF TypeInv, TypeOK, EraseTbl, WriteTbl, Looping, TableOps
<1>3. CASE /\ pc \in ImageOps /\ UNCHANGED <<pts, tbl>>
           /\ img' = [img EXCEPT ![<<Cur, pkg[item].img>>] = Empty] \/ img' = [img EXCEPT ![<<Cur, pkg[item].img>>] = ver]
  BY <1>3 DEF TypeInv, TypeOK
<1>4. CASE pts' = 0 /\ UNCHANGED <<tbl, img>>
  BY <1>4 DEF TypeInv, TypeOK, PTBL_NUM_COPIES
<1>5. CASE pc = "ptWrite" /\ pts' = pts + 1 /\ UNCHANGED <<tbl, img>>
  BY <1>5 DEF TypeInv, TypeOK, Place, PTBL_NUM_COPIES
<1>6. CASE Interrupted
  <2>1. CASE pc \in TableOps /\ EraseTbl /\ UNCHANGED <<pts, img>>
    BY <1>2, <2>1
  <2>2. CASE /\ pc \in ImageOps /\ UNCHANGED <<pts, tbl>>
             /\ img' = [img EXCEPT ![<<Cur, pkg[item].img>>] = Empty]
    BY <1>3, <2>2
  <2>3. CASE pc = "ptErase" /\ pts' = 0 /\ UNCHANGED <<tbl, img>>
    BY <1>4, <2>3
  <2>. QED  BY <1>1, <1>6, <2>1, <2>2, <2>3 DEF Interrupted
<1>7. CASE pc \in TableOps \cup ImageOps \cup PTOps /\ Unconfirmed
  <2>1. CASE pc \in TableOps \cap Writes /\ WriteTbl /\ UNCHANGED <<pts, img>>
    BY <1>2, <2>1
  <2>2. CASE pc = "imgWrite" /\ img' = [img EXCEPT ![<<Cur, pkg[item].img>>] = ver] /\ UNCHANGED <<pts, tbl>>
    BY <1>3, <2>2 DEF ImageOps
  <2>3. CASE pc = "ptWrite" /\ pts' = pts + 1 /\ UNCHANGED <<tbl, img>>
    BY <1>5, <2>3
  <2>. QED  BY <1>7, <2>1, <2>2, <2>3 DEF Unconfirmed
<1>. QED  BY <1>6, <1>7

\* Each action keeps the types, and the place of the update.
LEMMA TypeNext == TypeInv /\ [Next]_vars => TypeInv'
<1>. SUFFICES ASSUME TypeInv, [Next]_vars PROVE TypeInv'
  OBVIOUS
<1>. USE DEF Looping, Restoring, Storing, TableOps, ImageOps, PTOps
<1>1. ASSUME NEW r \in {"power", "sw_fw", "sw_download"}, Boot(r) PROVE TypeInv'
  <2>1. sysCfg' \in 0 .. N
    <3>1. ValidCopies(SYSCFG) \in SUBSET (1 .. N)
      BY DEF ValidCopies
    <3>2. sysCfg' = 0 \/ (ValidCopies(SYSCFG) # {} /\ sysCfg' = Least(ValidCopies(SYSCFG)))
      BY <1>1 DEF Boot
    <3>. QED  BY <3>1, <3>2, LeastCopy, CopyAssumption DEF PTBL_MAX_NUM_COPIES
  <2>2. TypeOK'
    BY <1>1, <2>1 DEF Boot, PTMInit, flash, TypeInv, TypeOK
  <2>3. Place'
    BY <1>1 DEF Boot, flash, TypeInv, TypeOK, Place
  <2>. QED  BY <2>2, <2>3 DEF TypeInv
<1>2. CASE Reset
  BY <1>2, OffType DEF Reset, flash, TypeInv, TypeOK
<1>3. ASSUME NEW p \in Packages, NEW v \in Vers, StartUpdate(p, v) PROVE TypeInv'
  <2>1. TypeOK'
    BY <1>3, PackageSeq, PackageAssumption DEF StartUpdate, flash, TypeInv, TypeOK, PTBL_MAX_NUM_COPIES
  <2>2. Place'
    BY <1>3 DEF StartUpdate, flash, Place, TypeInv, TypeOK, First
  <2>. QED  BY <2>1, <2>2 DEF TypeInv
<1>4. CASE PTErase
  BY <1>4 DEF PTErase, TypeInv, TypeOK, Place, PTBL_NUM_COPIES
<1>5. CASE PTWrite
  <2>1. pkg \in Packages /\ mode = "update"
    BY <1>5 DEF PTWrite, TypeInv, TypeOK
  <2>2. CASE pts' < PTBL_NUM_COPIES
    BY <1>5, <2>2 DEF PTWrite, TypeInv, TypeOK, Place, PTBL_NUM_COPIES
  <2>3. CASE ~(pts' < PTBL_NUM_COPIES)
    <3>1. Goto(1, First(pkg)) /\ Fresh \in Tables /\ imgTbl' = Fresh /\ ptm' = "IDLE" /\ sysCfg' = 0
      BY <1>5, <2>3 DEF PTWrite, Fresh, Tables
    <3>2. First(pkg) \in First(pkg) .. Len(pkg) + 1 /\ 1 \in 1 .. PTBL_MAX_NUM_COPIES + 1 /\ 0 \in 0 .. N
      BY <2>1, PackageSeq, CopyAssumption DEF PTBL_MAX_NUM_COPIES
    <3>. QED  BY <1>5, <2>1, <2>3, <3>1, <3>2, GotoType DEF PTWrite, TypeInv, TypeOK, Place, PTBL_NUM_COPIES
  <2>. QED  BY <2>2, <2>3
<1>6. CASE AllDone
  BY <1>6, EndType, CopyAssumption DEF AllDone, flash, TypeInv, TypeOK
<1>7. ASSUME pc = "item" PROVE
        /\ pkg \in Packages /\ mode = "update" /\ item \in First(pkg) .. Len(pkg) + 1
        /\ Len(pkg) \in Nat /\ First(pkg) \in 1 .. Len(pkg) + 1 /\ DOMAIN pkg = 1 .. Len(pkg)
  BY <1>7, PackageSeq DEF TypeInv, TypeOK, Place
<1>8. CASE NextCopy
  <2>1. copy + 1 \in 1 .. PTBL_MAX_NUM_COPIES + 1 /\ First(pkg) \in First(pkg) .. Len(pkg) + 1
    BY <1>7, <1>8 DEF NextCopy, PTBL_MAX_NUM_COPIES, TypeInv, TypeOK
  <2>. QED  BY <1>7, <1>8, <2>1, GotoType DEF NextCopy, flash, TypeInv, TypeOK
<1>9. CASE PassOver
  <2>1. item + 1 \in First(pkg) .. Len(pkg) + 1
    BY <1>7, <1>9 DEF PassOver
  <2>. QED  BY <1>7, <1>9, <2>1, GotoType DEF PassOver, Advance, flash, TypeInv, TypeOK
<1>10. CASE BeginItem
  <2>1. item \in DOMAIN pkg /\ pkg[item].kind \in {"hdr", "img"} /\ pkg[item].type \in Types
    BY <1>7, <1>10, AfterFirst DEF BeginItem
  <2>2. copy \in 1 .. N /\ ptm = "IDLE"
    BY <1>10, CopyAssumption DEF BeginItem, InTable, TypeInv, TypeOK
  <2>3. TypeOK'
    BY <1>10, <2>1, <2>2 DEF BeginItem, flash, TypeInv, TypeOK
  <2>4. Place'
    BY <1>7, <1>10, <2>1, <2>2 DEF BeginItem, flash, TypeInv, Place
  <2>. QED  BY <2>3, <2>4 DEF TypeInv
<1>11. ASSUME pc \in Looping \ {"item"}, Advance,
              UNCHANGED <<pts, mode, ptm, sysCfg, pkg, ver, result, since>>,
              tbl' \in [Parts -> Tables \cup {Unreadable}],
              img' \in [Parts \X Imgs -> Vers \cup {Empty}], imgTbl' \in Tables
       PROVE  TypeInv'
  <2>1. /\ mode = "update" /\ pkg \in Packages /\ copy \in 1 .. PTBL_MAX_NUM_COPIES + 1
        /\ item + 1 \in First(pkg) .. Len(pkg) + 1
    BY <1>11, PackageSeq, CopyAssumption DEF TypeInv, TypeOK, Place
  <2>. QED  BY <1>11, <2>1, GotoType DEF Advance, TypeInv, TypeOK
<1>12. CASE HdrErase
  <2>1. TypeOK'
    BY <1>12, Here DEF HdrErase, EraseTbl, TypeInv, TypeOK
  <2>. QED  BY <1>12, <2>1 DEF HdrErase, TypeInv, Place
<1>13. CASE HdrWrite
  BY <1>11, <1>13, Here DEF HdrWrite, WriteTbl, TypeInv, TypeOK
<1>14. CASE ReadTbl
  <2>1. CASE tbl[Cur] # Unreadable /\ imgTbl' = tbl[Cur] /\ pc' = "imgErase" /\ UNCHANGED <<mode, copy, item, result, since>>
    <3>1. tbl[Cur] \in Tables /\ pkg[item].kind = "img"
      BY <1>14, <2>1, Here DEF ReadTbl, TypeInv, TypeOK, Place
    <3>2. TypeOK'
      BY <1>14, <2>1, <3>1, Here DEF ReadTbl, flash, TypeInv, TypeOK, Cur
    <3>. QED  BY <1>14, <2>1, <3>1, <3>2 DEF ReadTbl, flash, TypeInv, Place
  <2>2. CASE since' \in {since, since + 1} /\ since' <= MaxFailures /\ UNCHANGED imgTbl /\ pc' = "rstErase" /\ UNCHANGED <<mode, copy, item, result>>
    <3>1. TypeOK'
      BY <1>14, <2>2, Here DEF ReadTbl, flash, TypeInv, TypeOK
    <3>. QED  BY <1>14, <2>2, <3>1 DEF ReadTbl, flash, TypeInv, Place
  <2>3. CASE since' \in {since, since + 1} /\ since' <= MaxFailures /\ UNCHANGED imgTbl /\ End("error")
    BY <1>14, <2>3, EndType, CopyAssumption DEF ReadTbl, flash, TypeInv, TypeOK
  <2>4. ASSUME ~ (tbl[Cur] # Unreadable /\ imgTbl' = tbl[Cur] /\ pc' = "imgErase" /\ UNCHANGED <<mode, copy, item, result, since>>)
        PROVE  /\ since' \in {since, since + 1} /\ since' <= MaxFailures /\ UNCHANGED imgTbl
               /\ (pc' = "rstErase" /\ UNCHANGED <<mode, copy, item, result>>) \/ End("error")
    BY <1>14, <2>4, CopyAssumption DEF ReadTbl, TypeInv, TypeOK
  <2>. QED  BY <2>1, <2>2, <2>3, <2>4
<1>15. CASE RstErase
  <2>1. TypeOK'
    BY <1>15, Here DEF RstErase, EraseTbl, TypeInv, TypeOK
  <2>. QED  BY <1>15, <2>1 DEF RstErase, TypeInv, Place
<1>16. CASE RstWrite
  <2>1. Fresh \in Tables /\ Written = Fresh /\ tbl'[Cur] = Fresh /\ pkg[item].kind = "img"
    BY <1>16, Here DEF RstWrite, WriteTbl, Written, TypeInv, TypeOK, Place
  <2>2. TypeOK'
    BY <1>16, <2>1, Here DEF RstWrite, WriteTbl, TypeInv, TypeOK, Cur
  <2>. QED  BY <1>16, <2>2 DEF RstWrite, TypeInv, Place
<1>17. CASE ImgErase
  <2>1. TypeOK'
    BY <1>17, Here DEF ImgErase, TypeInv, TypeOK
  <2>. QED  BY <1>17, <2>1 DEF ImgErase, TypeInv, Place
<1>18. CASE ImgWrite
  <2>1. ver \in Vers /\ pkg[item].img \in Imgs
    BY <1>18, Here DEF ImgWrite, TypeInv, TypeOK, Place
  <2>2. imgTbl' \in Tables
    BY <1>18, <2>1 DEF ImgWrite, TypeInv, TypeOK, Tables
  <2>3. TypeOK'
    BY <1>18, <2>1, <2>2, Here DEF ImgWrite, TypeInv, TypeOK
  <2>. QED  BY <1>18, <2>3 DEF ImgWrite, TypeInv, Place
<1>19. CASE TblErase
  <2>1. TypeOK'
    BY <1>19, Here DEF TblErase, EraseTbl, TypeInv, TypeOK
  <2>. QED  BY <1>19, <2>1 DEF TblErase, TypeInv, Place
<1>20. CASE TblWrite
  BY <1>11, <1>20, Here DEF TblWrite, WriteTbl, TypeInv, TypeOK
<1>21. CASE Fault
  <2>1. Interrupted \/ (pc \in TableOps \cup ImageOps \cup PTOps /\ Unconfirmed)
    BY <1>21 DEF Fault, Flashing
  <2>2. since' \in 0 .. MaxFailures
    BY <1>21, CopyAssumption DEF Fault, Flashing, TypeInv, TypeOK
  <2>. QED  BY <1>21, <2>1, <2>2, FaultType, EndType DEF Fault
<1>22. CASE PowerFailure
  <2>1. since' \in 0 .. MaxFailures
    BY <1>22, CopyAssumption DEF PowerFailure, TypeInv, TypeOK
  <2>. QED  BY <1>22, <2>1, FaultType, OffType DEF PowerFailure
<1>23. CASE UNCHANGED vars
  BY <1>23 DEF vars, TypeInv, TypeOK, Place
<1>. QED  BY <1>1, <1>2, <1>3, <1>4, <1>5, <1>6, <1>8, <1>9, <1>10, <1>12, <1>13, <1>14, <1>15, <1>16,
             <1>17, <1>18, <1>19, <1>20, <1>21, <1>22, <1>23 DEF Next

\* Type correctness, with where the update is.
THEOREM TypeCorrect == Spec => []TypeOK
<1>1. TypeInv => TypeOK
  BY DEF TypeInv
<1>. QED  BY <1>1, TypeInit, TypeNext, PTL DEF Spec

(***************************************************************************)
(* The tables of what was flashed with its table.                          *)
(***************************************************************************)

\* The table of this type was flashed, in the copy at hand, in this update.
Flashed(t) == ptm = "IDLE" /\ \E k \in DOMAIN pkg : k < item /\ pkg[k] = Item("hdr", t, "none")

\* The entries of a table come from this update; or all from the same one.
OfUpdate(T) == \A m \in Imgs : T[m] \in {Empty, ver}
OfOne(T)    == \A m, n \in Imgs : T[m] = Empty \/ T[n] = Empty \/ T[m] = T[n]

\* A table that was flashed is there, but for the moment it is replaced, and
\* its entries are of this update.
TableOfUpdate(t) ==
  /\ tbl[<<t, copy>>] = Unreadable => pc \in {"rstWrite", "tblWrite"} /\ t = pkg[item].type
  /\ tbl[<<t, copy>>] # Unreadable => OfUpdate(tbl[<<t, copy>>])
  /\ pc \in Storing /\ t = pkg[item].type => OfUpdate(imgTbl)

TablesOfUpdate == pc \in Looping /\ copy <= N => \A t \in Types : Flashed(t) => TableOfUpdate(t)

NeverPiecemeal(t) == \A p \in Packages : ~Piecemeal(p, t)

TablesOfOne ==
  \A t \in Types : NeverPiecemeal(t) =>
    \A c \in 1 .. N : tbl[<<t, c>>] # Unreadable => OfOne(tbl[<<t, c>>])

FlashInv == TypeInv /\ TablesOfUpdate /\ TablesOfOne

\* Images of a type that is never flashed piecemeal come after their table.
LEMMA TableFirst ==
  ASSUME TypeInv, pc \in Looping \ {"item"}, pkg[item].kind = "img", ~Piecemeal(pkg, pkg[item].type)
  PROVE  Flashed(pkg[item].type)
<1>1. pkg \in Packages /\ item \in DOMAIN pkg /\ ptm = "IDLE" /\ DOMAIN pkg = 1 .. Len(pkg) /\ Len(pkg) \in Nat
  BY Here, PackageSeq
<1>2. PICK k \in DOMAIN pkg : pkg[k] = Item("hdr", pkg[item].type, "none")
  BY <1>1 DEF Piecemeal
<1>3. pkg[k].kind = "hdr" /\ pkg[k].type = pkg[item].type
  BY <1>2 DEF Item
<1>4. item >= k /\ item # k
  BY <1>1, <1>3, PackageAssumption
<1>. QED  BY <1>1, <1>2, <1>4 DEF Flashed

\* The table of a type comes once.
LEMMA TableOnce ==
  ASSUME TypeInv, pc \in Looping \ {"item"}, pkg[item].kind = "hdr"
  PROVE  ~Flashed(pkg[item].type)
<1>. SUFFICES ASSUME NEW k \in DOMAIN pkg, k < item, pkg[k] = Item("hdr", pkg[item].type, "none") PROVE FALSE
  BY DEF Flashed
<1>1. pkg \in Packages /\ item \in DOMAIN pkg /\ DOMAIN pkg = 1 .. Len(pkg) /\ Len(pkg) \in Nat
  BY Here, PackageSeq
<1>2. pkg[k].kind = "hdr" /\ pkg[k].type = pkg[item].type
  BY DEF Item
<1>3. pkg[item].kind = "img"
  BY <1>1, <1>2, PackageAssumption
<1>. QED  BY <1>3

\* Nothing was flashed where the loop over the items begins.
LEMMA NothingFlashed ==
  ASSUME NEW t, NEW p \in Packages, pkg' = p, item' = 1 \/ item' = First(p)
  PROVE  ~Flashed(t)'
<1>. SUFFICES ASSUME NEW k \in DOMAIN p, k < item', p[k] = Item("hdr", t, "none") PROVE FALSE
  BY DEF Flashed
<1>1. k < First(p)
  BY PackageSeq
<1>. QED  BY <1>1, BeforeFirst DEF Item

\* What the next item adds to what was flashed.
LEMMA FlashedNext ==
  ASSUME TypeInv, NEW t, item \in DOMAIN pkg, pkg \in Packages,
         UNCHANGED <<ptm, pkg>>, item' = item + 1, Flashed(t)'
  PROVE  Flashed(t) \/ pkg[item] = Item("hdr", t, "none")
BY PackageSeq DEF Flashed

\* A table goes to one place, the one at hand.
LEMMA Elsewhere ==
  ASSUME TypeInv, pc \in Looping \ {"item"}, EraseTbl \/ WriteTbl
  PROVE  /\ EraseTbl => tbl'[Cur] = Unreadable
         /\ WriteTbl => tbl'[Cur] = Written
         /\ \A t \in Types, c \in 1 .. N : <<t, c>> # Cur => tbl'[<<t, c>>] = tbl[<<t, c>>]
BY Here DEF EraseTbl, WriteTbl, TypeInv, TypeOK, Parts

\* Whatever is written to a table of a type that is always flashed with its
\* table, its entries come from one update.
LEMMA OneTable ==
  ASSUME FlashInv, pc \in Looping \ {"item"}, EraseTbl \/ (pc \in Writes /\ WriteTbl)
  PROVE  TablesOfOne'
<1>. SUFFICES ASSUME NEW t \in Types, NeverPiecemeal(t), NEW c \in 1 .. N, tbl'[<<t, c>>] # Unreadable
              PROVE  OfOne(tbl'[<<t, c>>])
  BY DEF TablesOfOne, NeverPiecemeal, OfOne
<1>1. CASE <<t, c>> # Cur
  BY <1>1, Elsewhere DEF FlashInv, TablesOfOne
<1>2. CASE <<t, c>> = Cur
  <2>1. tbl'[Cur] = Written /\ t = pkg[item].type /\ copy = c
    BY <1>2, Elsewhere DEF FlashInv, Cur
  <2>2. CASE pc # "tblWrite"
    BY <1>2, <2>1, <2>2 DEF Written, Fresh, OfOne
  <2>3. CASE pc = "tblWrite"
    <3>1. pkg[item].kind = "img" /\ ~Piecemeal(pkg, t)
      BY <2>3, Here DEF FlashInv, TypeInv, Place, Storing, NeverPiecemeal
    <3>2. OfUpdate(imgTbl)
      BY <2>1, <2>3, <3>1, TableFirst, Here DEF FlashInv, TablesOfUpdate, TableOfUpdate, Storing, Looping, TableOps
    <3>. QED  BY <1>2, <2>1, <2>3, <3>2 DEF Written, OfUpdate, OfOne
  <2>. QED  BY <2>2, <2>3
<1>. QED  BY <1>1, <1>2

\* On a board from the factory the tables are of one version each.
LEMMA FlashInit == Init => FlashInv
<1>. SUFFICES ASSUME Init PROVE FlashInv
  OBVIOUS
<1>1. TablesOfUpdate
  BY DEF Init, TablesOfUpdate, Looping, TableOps, ImageOps
<1>2. TablesOfOne
  BY DEF Init, TablesOfOne, OfOne, Parts
<1>. QED  BY <1>1, <1>2, TypeInit DEF FlashInv

\* Each action keeps what is said of the tables.
LEMMA TablesNext == FlashInv /\ [Next]_vars => FlashInv'
<1>. SUFFICES ASSUME FlashInv, [Next]_vars PROVE FlashInv'
  OBVIOUS
<1>. USE DEF Looping, Restoring, Storing, TableOps, ImageOps, PTOps
<1>1. TypeInv /\ TypeInv'
  BY TypeNext DEF FlashInv
<1>2. ASSUME UNCHANGED tbl PROVE TablesOfOne'
  BY <1>2 DEF FlashInv, TablesOfOne, NeverPiecemeal, OfOne
<1>3. ASSUME pc' \in {"none", "ptErase", "ptWrite"} PROVE TablesOfUpdate'
  BY <1>3 DEF TablesOfUpdate
<1>4. ASSUME pkg' \in Packages, item' = 1 \/ item' = First(pkg') PROVE TablesOfUpdate'
  BY <1>4, NothingFlashed DEF TablesOfUpdate
<1>5. CASE \E r \in {"power", "sw_fw", "sw_download"} : Boot(r)
  BY <1>1, <1>2, <1>3, <1>5 DEF Boot, flash, FlashInv, TypeInv, TypeOK
<1>6. CASE Reset
  BY <1>1, <1>2, <1>3, <1>6 DEF Reset, Off, flash, FlashInv
<1>7. CASE \E p \in Packages, v \in Vers : StartUpdate(p, v)
  BY <1>1, <1>2, <1>4, <1>7 DEF StartUpdate, flash, FlashInv
<1>8. CASE PTErase
  BY <1>1, <1>2, <1>3, <1>8 DEF PTErase, FlashInv
<1>9. CASE PTWrite
  <2>1. pkg' \in Packages
    BY <1>1, <1>9 DEF PTWrite, TypeInv, TypeOK
  <2>. QED  BY <1>1, <1>2, <1>3, <1>4, <1>9, <2>1 DEF PTWrite, Goto, FlashInv
<1>10. CASE AllDone
  BY <1>1, <1>2, <1>3, <1>10 DEF AllDone, End, flash, FlashInv
<1>11. CASE NextCopy
  <2>1. pkg' \in Packages /\ pkg' = pkg
    BY <1>1, <1>11 DEF NextCopy, TypeInv, TypeOK
  <2>. QED  BY <1>1, <1>2, <1>4, <1>11, <2>1 DEF NextCopy, Goto, flash, FlashInv
<1>12. CASE PassOver
  <2>1. copy' <= N => ptm' # "IDLE"
    BY <1>12 DEF PassOver, Advance, Goto, InTable
  <2>2. TablesOfUpdate'
    BY <2>1 DEF TablesOfUpdate, Flashed
  <2>. QED  BY <1>1, <1>2, <1>12, <2>2 DEF PassOver, flash, FlashInv
<1>13. CASE BeginItem
  <2>1. TablesOfUpdate'
    BY <1>13 DEF BeginItem, flash, FlashInv, TablesOfUpdate, TableOfUpdate, Flashed, OfUpdate
  <2>. QED  BY <1>1, <1>2, <1>13, <2>1 DEF BeginItem, flash, FlashInv
<1>14. ASSUME UNCHANGED <<ptm, pkg, item, copy, ver>>, pc \in Looping \ {"item"},
              TablesOfOne', \A t \in Types : Flashed(t) => TableOfUpdate(t)'
       PROVE  FlashInv'
  <2>1. \A t \in Types : Flashed(t)' => Flashed(t)
    BY <1>14 DEF Flashed
  <2>. QED  BY <1>1, <1>14, <2>1 DEF TablesOfUpdate, FlashInv
<1>15. ASSUME pc \in Looping \ {"item"}, NEW t \in Types, Flashed(t)
       PROVE  TableOfUpdate(t) /\ <<t, copy>> \in Parts
  BY <1>1, <1>15, Here DEF FlashInv, TablesOfUpdate, Parts
<1>16. CASE HdrErase
  <2>. SUFFICES ASSUME NEW t \in Types, Flashed(t) PROVE TableOfUpdate(t)'
    BY <1>14, <1>16, OneTable DEF HdrErase, FlashInv
  <2>1. t # pkg[item].type
    BY <1>1, <1>16, TableOnce DEF HdrErase, TypeInv, Place
  <2>2. tbl'[<<t, copy>>] = tbl[<<t, copy>>] /\ pc = "hdrErase"
    BY <1>1, <1>16, <2>1, Elsewhere, Here DEF HdrErase, Cur
  <2>. QED  BY <1>15, <1>16, <2>2 DEF HdrErase, TableOfUpdate, OfUpdate
<1>17. ASSUME pc \in Looping \ {"item"}, Advance, UNCHANGED <<ptm, pkg, ver>>, TablesOfOne',
              \A t \in Types : Flashed(t) \/ pkg[item] = Item("hdr", t, "none") => TableOfUpdate(t)'
       PROVE  FlashInv'
  <2>1. \A t \in Types : Flashed(t)' => Flashed(t) \/ pkg[item] = Item("hdr", t, "none")
    BY <1>1, <1>17, Here, FlashedNext DEF Advance, Goto
  <2>. QED  BY <1>1, <1>17, <2>1 DEF TablesOfUpdate, FlashInv
<1>18. CASE HdrWrite
  <2>. SUFFICES ASSUME NEW t \in Types, Flashed(t) \/ pkg[item] = Item("hdr", t, "none") PROVE TableOfUpdate(t)'
    BY <1>17, <1>18, OneTable DEF HdrWrite, FlashInv, Writes
  <2>1. CASE t = pkg[item].type
    <3>1. tbl'[<<t, copy>>] = Fresh
      BY <1>1, <1>18, <2>1, Here DEF HdrWrite, WriteTbl, Written, Cur, TypeInv, TypeOK
    <3>. QED  BY <1>18, <3>1, VersAssumption, Here, <1>1 DEF HdrWrite, Advance, Goto, TableOfUpdate, OfUpdate, Fresh
  <2>2. CASE t # pkg[item].type
    <3>1. Flashed(t)
      BY <2>2 DEF Item
    <3>2. tbl'[<<t, copy>>] = tbl[<<t, copy>>]
      BY <1>1, <1>18, <2>2, Elsewhere, Here DEF HdrWrite, Cur
    <3>. QED  BY <1>15, <1>18, <3>1, <3>2 DEF HdrWrite, Advance, Goto, TableOfUpdate, OfUpdate
  <2>. QED  BY <2>1, <2>2
<1>19. CASE ReadTbl
  <2>1. CASE pc' = "none"
    BY <1>1, <1>2, <1>3, <1>19, <2>1 DEF ReadTbl, flash, FlashInv
  <2>2. CASE pc' # "none"
    <3>. SUFFICES ASSUME NEW t \in Types, Flashed(t) PROVE TableOfUpdate(t)'
      BY <1>2, <1>14, <1>19, <2>2 DEF ReadTbl, End, flash
    <3>1. tbl[<<t, copy>>] # Unreadable /\ OfUpdate(tbl[<<t, copy>>])
      BY <1>15, <1>19 DEF ReadTbl, TableOfUpdate
    <3>2. pc' = "imgErase" => imgTbl' = tbl[Cur]
      BY <1>19 DEF ReadTbl, End
    <3>3. pc' \in {"imgErase", "rstErase"} /\ UNCHANGED <<tbl, copy, item, pkg, ver>>
      BY <1>19, <2>2 DEF ReadTbl, flash, End
    <3>. QED  BY <3>1, <3>2, <3>3 DEF TableOfUpdate, OfUpdate, Cur
  <2>. QED  BY <2>1, <2>2
<1>20. CASE RstErase
  <2>. SUFFICES ASSUME NEW t \in Types, Flashed(t) PROVE TableOfUpdate(t)'
    BY <1>14, <1>20, OneTable DEF RstErase, FlashInv
  <2>1. t # pkg[item].type => tbl'[<<t, copy>>] = tbl[<<t, copy>>]
    BY <1>1, <1>20, Elsewhere, Here DEF RstErase, Cur
  <2>2. t = pkg[item].type => tbl'[<<t, copy>>] = Unreadable
    BY <1>1, <1>15, <1>20, Here DEF RstErase, EraseTbl, Cur, TypeInv, TypeOK
  <2>. QED  BY <1>15, <1>20, <2>1, <2>2 DEF RstErase, TableOfUpdate, OfUpdate
<1>21. CASE RstWrite
  <2>. SUFFICES ASSUME NEW t \in Types, Flashed(t) PROVE TableOfUpdate(t)'
    BY <1>14, <1>21, OneTable DEF RstWrite, FlashInv, Writes
  <2>1. t # pkg[item].type => tbl'[<<t, copy>>] = tbl[<<t, copy>>]
    BY <1>1, <1>21, Elsewhere, Here DEF RstWrite, Cur
  <2>2. t = pkg[item].type => tbl'[<<t, copy>>] = Fresh
    BY <1>1, <1>15, <1>21, Here DEF RstWrite, WriteTbl, Written, Cur, TypeInv, TypeOK
  <2>3. OfUpdate(Fresh)' /\ Fresh # Unreadable
    BY VersAssumption, <1>1, <1>21, Here DEF RstWrite, OfUpdate, Fresh
  <2>4. imgTbl' = Fresh /\ UNCHANGED <<copy, item, pkg, ver>> /\ pc = "rstWrite" /\ pc' = "imgErase"
    BY <1>21 DEF RstWrite
  <2>. QED  BY <1>15, <2>1, <2>2, <2>3, <2>4 DEF TableOfUpdate, OfUpdate
<1>22. CASE ImgErase
  <2>. SUFFICES ASSUME NEW t \in Types, Flashed(t) PROVE TableOfUpdate(t)'
    BY <1>2, <1>14, <1>22 DEF ImgErase
  <2>. QED  BY <1>15, <1>22 DEF ImgErase, TableOfUpdate, OfUpdate
<1>23. CASE ImgWrite
  <2>. SUFFICES ASSUME NEW t \in Types, Flashed(t) PROVE TableOfUpdate(t)'
    BY <1>2, <1>14, <1>23 DEF ImgWrite
  <2>1. OfUpdate(imgTbl) => OfUpdate(imgTbl)'
    BY <1>1, <1>23 DEF ImgWrite, OfUpdate, TypeInv, TypeOK, Tables
  <2>. QED  BY <1>15, <1>23, <2>1 DEF ImgWrite, TableOfUpdate, OfUpdate
<1>24. CASE TblErase
  <2>. SUFFICES ASSUME NEW t \in Types, Flashed(t) PROVE TableOfUpdate(t)'
    BY <1>14, <1>24, OneTable DEF TblErase, FlashInv
  <2>1. t # pkg[item].type => tbl'[<<t, copy>>] = tbl[<<t, copy>>]
    BY <1>1, <1>24, Elsewhere, Here DEF TblErase, Cur
  <2>2. t = pkg[item].type => tbl'[<<t, copy>>] = Unreadable
    BY <1>1, <1>15, <1>24, Here DEF TblErase, EraseTbl, Cur, TypeInv, TypeOK
  <2>. QED  BY <1>15, <1>24, <2>1, <2>2 DEF TblErase, TableOfUpdate, OfUpdate
<1>25. CASE TblWrite
  <2>. SUFFICES ASSUME NEW t \in Types, Flashed(t) \/ pkg[item] = Item("hdr", t, "none") PROVE TableOfUpdate(t)'
    BY <1>17, <1>25, OneTable DEF TblWrite, FlashInv, Writes
  <2>1. Flashed(t)
    BY <1>1, <1>25 DEF TblWrite, TypeInv, Place, Item
  <2>2. t # pkg[item].type => tbl'[<<t, copy>>] = tbl[<<t, copy>>]
    BY <1>1, <1>25, Elsewhere, Here DEF TblWrite, Cur
  <2>3. t = pkg[item].type => tbl'[<<t, copy>>] = imgTbl /\ imgTbl # Unreadable
    BY <1>1, <1>15, <1>25, <2>1, Here, VersAssumption DEF TblWrite, WriteTbl, Written, Cur, TypeInv, TypeOK
  <2>. QED  BY <1>15, <1>25, <2>1, <2>2, <2>3 DEF TblWrite, Advance, Goto, TableOfUpdate, OfUpdate
<1>26. ASSUME Interrupted \/ (pc \in TableOps \cup ImageOps \cup PTOps /\ Unconfirmed), pc' = "none" PROVE FlashInv'
  <2>1. UNCHANGED tbl \/ (pc \in TableOps /\ (EraseTbl \/ (pc \in Writes /\ WriteTbl)))
    BY <1>26 DEF Interrupted, Unconfirmed, flash
  <2>. QED  BY <1>1, <1>2, <1>3, <1>26, <2>1, OneTable DEF FlashInv
<1>27. CASE Fault
  BY <1>26, <1>27 DEF Fault, Flashing, End
<1>28. CASE PowerFailure
  BY <1>26, <1>28 DEF PowerFailure, Off
<1>29. CASE UNCHANGED vars
  BY <1>1, <1>2, <1>29 DEF vars, FlashInv, TablesOfUpdate, TableOfUpdate, Flashed, OfUpdate
<1>. QED  BY <1>5, <1>6, <1>7, <1>8, <1>9, <1>10, <1>11, <1>12, <1>13, <1>16, <1>18, <1>19, <1>20, <1>21,
             <1>22, <1>23, <1>24, <1>25, <1>27, <1>28, <1>29 DEF Next

\* A partition that validates has its images from one package, whatever was
\* interrupted before, when its type is always flashed with its table.
THEOREM ImagesOfOneVersion == Spec => []OneVersion
<1>1. FlashInv => OneVersion
  BY DEF FlashInv, TablesOfOne, NeverPiecemeal, OfOne, OneVersion, ValidCopies, Valid
<1>. QED  BY <1>1, FlashInit, TablesNext, PTL DEF Spec

\* What is left in the flash is never the reason why a package with its
\* tables is refused.
THEOREM UpdateCanBeRepeated == Spec => Repeatable
<1>1. FlashInv /\ [Next]_vars =>
        (result' = "error" /\ result # "error" /\ since' = since => \E t \in Types : Piecemeal(pkg, t))
  <2>. SUFFICES ASSUME FlashInv, [Next]_vars, result' = "error", result # "error", since' = since,
                       \A t \in Types : ~Piecemeal(pkg, t)
                PROVE  FALSE
    OBVIOUS
  <2>1. ~Fault
    BY CopyAssumption DEF Fault, FlashInv, TypeInv, TypeOK
  <2>2. ReadTbl
    BY <2>1 DEF Next, vars, Boot, Reset, Off, StartUpdate, PTErase, PTWrite, Goto, AllDone, End, NextCopy, PassOver,
                Advance, BeginItem, HdrErase, HdrWrite, RstErase, RstWrite, ImgErase, ImgWrite, TblErase, TblWrite,
                PowerFailure
  <2>3. tbl[Cur] = Unreadable
    BY <2>2, CopyAssumption DEF ReadTbl, FlashInv, TypeInv, TypeOK
  <2>4. pc \in Looping \ {"item"} /\ pc = "readTbl" /\ pkg[item].kind = "img"
    BY <2>2 DEF ReadTbl, Looping, FlashInv, TypeInv, Place
  <2>5. Flashed(pkg[item].type) /\ copy \in 1 .. N /\ pkg[item].type \in Types
    BY <2>4, TableFirst, Here DEF FlashInv
  <2>6. TableOfUpdate(pkg[item].type)
    BY <2>4, <2>5 DEF FlashInv, TablesOfUpdate
  <2>. QED  BY <2>3, <2>4, <2>6 DEF TableOfUpdate, Cur
<1>. QED  BY <1>1, FlashInit, TablesNext, PTL DEF Spec, Repeatable

(***************************************************************************)
(* The images that were flashed.                                           *)
(***************************************************************************)

\* The table of a partition, or the one that is about to replace it.
Kept(t, c) == IF pc = "tblWrite" /\ <<t, c>> = Cur THEN imgTbl ELSE tbl[<<t, c>>]

\* An image that was flashed, its own or (twice in a package) being flashed
\* again, is under a table that says so, and the table at hand will do so too.
ImageStored(t, c, m) ==
  /\ Kept(t, c) # Unreadable /\ Kept(t, c)[m] = ver
  /\ img[<<<<t, c>>, m>>] = ver \/ (pc = "imgWrite" /\ <<t, c>> = Cur /\ m = pkg[item].img)
  /\ pc \in Storing /\ <<t, c>> = Cur => imgTbl[m] = ver

\* What the loops went past.
Past(k, c) == c < copy \/ (c = copy /\ k < item)

ImagesOfUpdate ==
  pc \in Looping /\ ptm = "IDLE" =>
    \A k \in DOMAIN pkg, c \in 1 .. N :
      pkg[k].kind = "img" /\ Past(k, c) => ImageStored(pkg[k].type, c, pkg[k].img)

\* The image at hand is stored before its table is; and a table is restored
\* only when there is none.
ImageAtHand ==
  /\ pc \in {"tblErase", "tblWrite"} => imgTbl[pkg[item].img] = ver /\ img[<<Cur, pkg[item].img>>] = ver
  /\ pc \in Restoring => tbl[Cur] = Unreadable

StoreInv == TypeInv /\ ImagesOfUpdate /\ ImageAtHand /\ OkMeansStored

\* Nothing was flashed yet.
LEMMA StoreInit == Init => StoreInv
<1>. SUFFICES ASSUME Init PROVE StoreInv
  OBVIOUS
<1>1. ImagesOfUpdate /\ ImageAtHand /\ OkMeansStored
  BY DEF Init, ImagesOfUpdate, ImageAtHand, OkMeansStored, Looping, Restoring, TableOps, ImageOps
<1>. QED  BY <1>1, TypeInit DEF StoreInv

\* An image is a place of its own in the flash.
LEMMA ImageFields ==
  ASSUME TypeInv, pkg \in Packages, NEW k \in DOMAIN pkg, pkg[k].kind = "img", NEW c \in 1 .. N
  PROVE  /\ pkg[k].type \in Types /\ pkg[k].img \in Imgs
         /\ <<pkg[k].type, c>> \in Parts /\ <<<<pkg[k].type, c>>, pkg[k].img>> \in Parts \X Imgs
<1>1. pkg[k] \in Items
  BY PackageSeq
<1>. QED  BY <1>1, ItemFields DEF Parts

\* No image comes before the table of its type.
LEMMA ImagesAfter ==
  ASSUME TypeInv, pc \in Looping \ {"item"}, pkg[item].kind = "hdr",
         NEW k \in DOMAIN pkg, k < item
  PROVE  pkg[k].type # pkg[item].type
<1>1. pkg \in Packages /\ item \in DOMAIN pkg /\ DOMAIN pkg = 1 .. Len(pkg) /\ Len(pkg) \in Nat
  BY Here, PackageSeq
<1>. QED  BY <1>1, PackageAssumption

\* Each action keeps stored what was: a table goes and comes back with its
\* entries, and is restored only when there was nothing to lose.
LEMMA StoreNext == ~ReadsFail /\ StoreInv /\ [Next]_vars => StoreInv'
<1>. SUFFICES ASSUME ~ReadsFail, StoreInv, [Next]_vars PROVE StoreInv'
  OBVIOUS
<1>. USE DEF Looping, Restoring, Storing, TableOps, ImageOps, PTOps
<1>1. TypeInv /\ TypeInv' /\ ImagesOfUpdate /\ ImageAtHand /\ OkMeansStored
  BY TypeNext DEF StoreInv
<1>2. ASSUME pc' \in {"none", "ptErase", "ptWrite"}, result' # "ok" PROVE StoreInv'
  BY <1>1, <1>2 DEF StoreInv, ImagesOfUpdate, ImageAtHand, OkMeansStored
<1>3. ASSUME pkg' \in Packages, item' = 1 \/ item' = First(pkg'), copy' = 1, pc' = "item", result' # "ok"
      PROVE  StoreInv'
  <2>1. ImageAtHand' /\ OkMeansStored'
    BY <1>3 DEF ImageAtHand, OkMeansStored
  <2>2. ASSUME NEW k \in DOMAIN pkg', NEW c \in 1 .. N, pkg'[k].kind = "img" PROVE ~Past(k, c)'
    <3>1. k >= 1 /\ k >= First(pkg')
      BY <1>3, <2>2, PackageSeq, BeforeFirst
    <3>2. k \in Nat /\ First(pkg') \in Nat /\ N \in Nat
      BY <1>3, PackageSeq, CopyAssumption DEF PTBL_MAX_NUM_COPIES
    <3>. QED  BY <1>3, <3>1, <3>2 DEF Past
  <2>. QED  BY <1>1, <2>1, <2>2 DEF StoreInv, ImagesOfUpdate
<1>4. CASE \E r \in {"power", "sw_fw", "sw_download"} : Boot(r)
  BY <1>1, <1>2, <1>4 DEF Boot, flash, TypeInv, TypeOK, Place
<1>5. CASE Reset
  BY <1>2, <1>5 DEF Reset, Off
<1>6. CASE \E p \in Packages, v \in Vers : StartUpdate(p, v)
  BY <1>2, <1>3, <1>6 DEF StartUpdate
<1>7. ASSUME mode = "update" PROVE result # "ok" /\ pkg \in Packages
  BY <1>1, <1>7 DEF TypeInv, TypeOK, Place
<1>8. CASE PTErase
  BY <1>1, <1>2, <1>7, <1>8 DEF PTErase, TypeInv, TypeOK
<1>9. CASE PTWrite
  BY <1>1, <1>2, <1>3, <1>7, <1>9 DEF PTWrite, Goto, TypeInv, TypeOK
<1>10. ASSUME pc \in Looping PROVE
         /\ mode = "update" /\ result # "ok" /\ pkg \in Packages /\ DOMAIN pkg = 1 .. Len(pkg) /\ Len(pkg) \in Nat
         /\ item \in 1 .. Len(pkg) + 1 /\ copy \in 1 .. PTBL_MAX_NUM_COPIES + 1
  BY <1>1, <1>7, <1>10, PackageSeq DEF TypeInv, TypeOK
<1>11. CASE AllDone
  <2>1. ASSUME ptm = "IDLE" PROVE Stored(pkg)'
    <3>. SUFFICES ASSUME NEW j \in DOMAIN pkg, pkg[j].kind = "img", NEW c \in 1 .. N
                  PROVE  /\ tbl[<<pkg[j].type, c>>] # Unreadable /\ tbl[<<pkg[j].type, c>>][pkg[j].img] = ver
                         /\ img[<<<<pkg[j].type, c>>, pkg[j].img>>] = ver
      BY <1>11 DEF AllDone, flash, Stored
    <3>1. Past(j, c)
      BY <1>10, <1>11, CopyAssumption DEF AllDone, Past, PTBL_MAX_NUM_COPIES
    <3>2. ImageStored(pkg[j].type, c, pkg[j].img)
      BY <1>1, <1>11, <2>1, <3>1 DEF AllDone, ImagesOfUpdate
    <3>. QED  BY <1>11, <3>2 DEF AllDone, ImageStored, Kept
  <2>. QED  BY <1>1, <1>11, <2>1 DEF AllDone, End, StoreInv, ImagesOfUpdate, ImageAtHand, OkMeansStored
\* Steps between the operations: what is past is stored, as it was.
<1>12. ASSUME pc = "item", UNCHANGED <<tbl, img, ptm, pkg, ver, result>>, pc' \in {"item", "hdrErase", "readTbl"},
              ptm = "IDLE" =>
                \A k \in DOMAIN pkg, c \in 1 .. N : pkg[k].kind = "img" /\ Past(k, c)' => Past(k, c)
       PROVE  StoreInv'
  <2>1. ASSUME NEW t, NEW c, NEW m, ImageStored(t, c, m) PROVE ImageStored(t, c, m)'
    BY <1>12, <2>1 DEF ImageStored, Kept
  <2>2. ImagesOfUpdate'
    BY <1>1, <1>12, <2>1 DEF ImagesOfUpdate
  <2>. QED  BY <1>1, <1>10, <1>12, <2>2 DEF StoreInv, ImageAtHand, OkMeansStored
<1>13. CASE NextCopy
  <2>1. ASSUME NEW k \in DOMAIN pkg, NEW c \in 1 .. N, pkg[k].kind = "img", Past(k, c)' PROVE Past(k, c)
    <3>1. k >= First(pkg) /\ First(pkg) \in Nat /\ item > Len(pkg) /\ copy' = copy + 1 /\ item' = First(pkg)
      BY <1>10, <1>13, <2>1, PackageSeq, BeforeFirst DEF NextCopy, Goto
    <3>. QED  BY <1>10, <1>13, <2>1, <3>1, CopyAssumption DEF Past, NextCopy, PTBL_MAX_NUM_COPIES
  <2>. QED  BY <1>12, <1>13, <2>1 DEF NextCopy, Goto, flash
<1>14. CASE PassOver
  <2>1. ASSUME ptm = "IDLE", NEW k \in DOMAIN pkg, NEW c \in 1 .. N, Past(k, c)' PROVE Past(k, c)
    BY <1>10, <1>14, <2>1, CopyAssumption DEF PassOver, Advance, Goto, InTable, Past, PTBL_MAX_NUM_COPIES
  <2>. QED  BY <1>12, <1>14, <2>1 DEF PassOver, Advance, Goto, flash
<1>15. CASE BeginItem
  BY <1>12, <1>15 DEF BeginItem, flash, Past
\* The operations on the item at hand, and what they leave alone.
<1>16. ASSUME pc \in Looping \ {"item"}, UNCHANGED <<mode, ptm, pkg, ver, copy, item, result>>, ImageAtHand',
              \A k \in DOMAIN pkg, c \in 1 .. N :
                pkg[k].kind = "img" /\ Past(k, c) /\ ImageStored(pkg[k].type, c, pkg[k].img)
                  => ImageStored(pkg[k].type, c, pkg[k].img)'
       PROVE  StoreInv'
  <2>1. ImagesOfUpdate'
    BY <1>1, <1>16, Here DEF ImagesOfUpdate, Past
  <2>. QED  BY <1>1, <1>10, <1>16, <2>1 DEF StoreInv, OkMeansStored
<1>17. ASSUME pc \in Looping \ {"item"}, UNCHANGED <<mode, ptm, pkg, ver, result>>, Advance,
              \A k \in DOMAIN pkg, c \in 1 .. N :
                /\ pkg[k].kind = "img"
                /\ \/ Past(k, c) /\ ImageStored(pkg[k].type, c, pkg[k].img)
                   \/ c = copy /\ k = item
                => ImageStored(pkg[k].type, c, pkg[k].img)'
       PROVE  StoreInv'
  <2>1. ASSUME NEW k \in DOMAIN pkg, NEW c \in 1 .. N, Past(k, c)' PROVE Past(k, c) \/ (c = copy /\ k = item)
    BY <1>10, <1>17, <2>1 DEF Past, Advance, Goto
  <2>2. ImagesOfUpdate'
    BY <1>1, <1>17, <2>1, Here DEF ImagesOfUpdate
  <2>. QED  BY <1>1, <1>10, <1>17, <2>2 DEF StoreInv, OkMeansStored, ImageAtHand, Advance, Goto
<1>18. ASSUME pc \in Looping \ {"item"}, NEW k \in DOMAIN pkg, NEW c \in 1 .. N, pkg[k].kind = "img", EraseTbl \/ WriteTbl
       PROVE  /\ <<pkg[k].type, c>> # Cur => tbl'[<<pkg[k].type, c>>] = tbl[<<pkg[k].type, c>>]
              /\ <<pkg[k].type, c>> = Cur /\ WriteTbl => tbl'[<<pkg[k].type, c>>] = Written
              /\ <<pkg[k].type, c>> = Cur => pkg[k].type = pkg[item].type /\ c = copy
              /\ Written # Unreadable
  <2>1. pkg[k].type \in Types /\ Written # Unreadable
    BY <1>1, <1>18, Here, ImageFields, VersAssumption
  <2>2. <<pkg[k].type, c>> = Cur => pkg[k].type = pkg[item].type /\ c = copy
    BY DEF Cur
  <2>. QED  BY <1>1, <1>18, <2>1, <2>2, Elsewhere
<1>19. ASSUME pc \in {"hdrErase", "hdrWrite"}, NEW k \in DOMAIN pkg, NEW c \in 1 .. N, Past(k, c)
       PROVE  <<pkg[k].type, c>> # Cur
  BY <1>1, <1>10, <1>19, ImagesAfter DEF Past, Cur, TypeInv, Place
<1>20. CASE HdrErase
  <2>. SUFFICES ASSUME NEW k \in DOMAIN pkg, NEW c \in 1 .. N, pkg[k].kind = "img", Past(k, c),
                       ImageStored(pkg[k].type, c, pkg[k].img)
                PROVE  ImageStored(pkg[k].type, c, pkg[k].img)'
    BY <1>16, <1>20 DEF HdrErase, ImageAtHand
  <2>. QED  BY <1>18, <1>19, <1>20 DEF HdrErase, ImageStored, Kept
<1>21. CASE HdrWrite
  <2>. SUFFICES ASSUME NEW k \in DOMAIN pkg, NEW c \in 1 .. N, pkg[k].kind = "img", Past(k, c),
                       ImageStored(pkg[k].type, c, pkg[k].img)
                PROVE  ImageStored(pkg[k].type, c, pkg[k].img)'
    BY <1>1, <1>17, <1>21 DEF HdrWrite, TypeInv, Place
  <2>. QED  BY <1>18, <1>19, <1>21 DEF HdrWrite, Advance, Goto, ImageStored, Kept
<1>22. CASE ReadTbl
  <2>1. CASE End("error")
    BY <1>2, <1>22, <2>1 DEF End
  <2>2. CASE tbl[Cur] # Unreadable /\ imgTbl' = tbl[Cur] /\ pc' = "imgErase" /\ UNCHANGED <<mode, copy, item, result, since>>
    <3>. SUFFICES ASSUME NEW k \in DOMAIN pkg, NEW c \in 1 .. N, pkg[k].kind = "img", Past(k, c),
                         ImageStored(pkg[k].type, c, pkg[k].img)
                  PROVE  ImageStored(pkg[k].type, c, pkg[k].img)'
      BY <1>16, <1>22, <2>2 DEF ReadTbl, flash, ImageAtHand
    <3>. QED  BY <1>22, <2>2 DEF ReadTbl, flash, ImageStored, Kept, Cur
  <2>3. CASE tbl[Cur] = Unreadable /\ pc' = "rstErase" /\ UNCHANGED <<mode, copy, item, result, imgTbl>>
    <3>. SUFFICES ASSUME NEW k \in DOMAIN pkg, NEW c \in 1 .. N, pkg[k].kind = "img", Past(k, c),
                         ImageStored(pkg[k].type, c, pkg[k].img)
                  PROVE  ImageStored(pkg[k].type, c, pkg[k].img)'
      BY <1>16, <1>22, <2>3 DEF ReadTbl, flash, ImageAtHand, Cur
    <3>. QED  BY <1>22, <2>3 DEF ReadTbl, flash, ImageStored, Kept, Cur
  <2>. QED  BY <1>22, <2>1, <2>2, <2>3 DEF ReadTbl
<1>23. ASSUME pc \in Restoring, NEW k \in DOMAIN pkg, NEW c \in 1 .. N, ImageStored(pkg[k].type, c, pkg[k].img)
       PROVE  <<pkg[k].type, c>> # Cur
  BY <1>1, <1>23 DEF ImageAtHand, ImageStored, Kept
<1>24. CASE RstErase
  <2>. SUFFICES ASSUME NEW k \in DOMAIN pkg, NEW c \in 1 .. N, pkg[k].kind = "img", Past(k, c),
                       ImageStored(pkg[k].type, c, pkg[k].img)
                PROVE  ImageStored(pkg[k].type, c, pkg[k].img)'
    <3>1. tbl'[Cur]  = Unreadable
      BY <1>1, <1>24, Here DEF RstErase, EraseTbl, TypeInv, TypeOK
    <3>. QED  BY <1>16, <1>24, <3>1 DEF RstErase, ImageAtHand, Cur
  <2>. QED  BY <1>18, <1>23, <1>24 DEF RstErase, ImageStored, Kept, Cur
<1>25. CASE RstWrite
  <2>. SUFFICES ASSUME NEW k \in DOMAIN pkg, NEW c \in 1 .. N, pkg[k].kind = "img", Past(k, c),
                       ImageStored(pkg[k].type, c, pkg[k].img)
                PROVE  ImageStored(pkg[k].type, c, pkg[k].img)'
    BY <1>16, <1>25 DEF RstWrite, ImageAtHand
  <2>. QED  BY <1>18, <1>23, <1>25 DEF RstWrite, ImageStored, Kept, Cur
<1>26. ASSUME pc \in Storing, NEW k \in DOMAIN pkg, NEW c \in 1 .. N, pkg[k].kind = "img", pc \in ImageOps,
              NEW x, img' = [img EXCEPT ![<<Cur, pkg[item].img>>] = x]
       PROVE  img'[<<<<pkg[k].type, c>>, pkg[k].img>>] =
                IF <<pkg[k].type, c>> = Cur /\ pkg[k].img = pkg[item].img THEN x
                ELSE img[<<<<pkg[k].type, c>>, pkg[k].img>>]
  BY <1>1, <1>10, <1>26, ImageFields DEF TypeInv, TypeOK
<1>27. CASE ImgErase
  <2>. SUFFICES ASSUME NEW k \in DOMAIN pkg, NEW c \in 1 .. N, pkg[k].kind = "img", Past(k, c),
                       ImageStored(pkg[k].type, c, pkg[k].img)
                PROVE  ImageStored(pkg[k].type, c, pkg[k].img)'
    BY <1>16, <1>27 DEF ImgErase, ImageAtHand
  <2>. QED  BY <1>26, <1>27 DEF ImgErase, ImageStored, Kept, Cur
<1>28. CASE ImgWrite
  <2>1. pkg[item].img \in Imgs /\ <<Cur, pkg[item].img>> \in Parts \X Imgs /\ ver \in Vers
    BY <1>1, <1>28, Here DEF ImgWrite, TypeInv, TypeOK, Place
  <2>2. \A m \in Imgs : imgTbl'[m] = IF m = pkg[item].img THEN ver ELSE imgTbl[m]
    BY <1>1, <1>28 DEF ImgWrite, TypeInv, TypeOK, Tables
  <2>3. img'[<<Cur, pkg[item].img>>] = ver
    BY <1>1, <1>28, <2>1 DEF ImgWrite, TypeInv, TypeOK
  <2>. SUFFICES ASSUME NEW k \in DOMAIN pkg, NEW c \in 1 .. N, pkg[k].kind = "img", Past(k, c),
                       ImageStored(pkg[k].type, c, pkg[k].img)
                PROVE  ImageStored(pkg[k].type, c, pkg[k].img)'
    BY <1>16, <1>28, <2>1, <2>2, <2>3 DEF ImgWrite, ImageAtHand, Cur
  <2>4. pkg[k].img \in Imgs
    BY <1>1, <1>10, <1>28, ImageFields DEF ImgWrite
  <2>5. img'[<<<<pkg[k].type, c>>, pkg[k].img>>] = ver
    <3>1. img'[<<<<pkg[k].type, c>>, pkg[k].img>>] =
            IF <<pkg[k].type, c>> = Cur /\ pkg[k].img = pkg[item].img THEN ver
            ELSE img[<<<<pkg[k].type, c>>, pkg[k].img>>]
      BY <1>26, <1>28 DEF ImgWrite
    <3>. QED  BY <3>1 DEF ImageStored
  <2>6. Kept(pkg[k].type, c)' = Kept(pkg[k].type, c) /\ ver' = ver
    BY <1>28 DEF ImgWrite, Kept
  <2>7. <<pkg[k].type, c>> = Cur => imgTbl'[pkg[k].img] = ver
    BY <1>28, <2>2, <2>4 DEF ImgWrite, ImageStored
  <2>. QED  BY <1>28, <2>5, <2>6, <2>7 DEF ImgWrite, ImageStored, Cur
<1>29. CASE TblErase
  <2>. SUFFICES ASSUME NEW k \in DOMAIN pkg, NEW c \in 1 .. N, pkg[k].kind = "img", Past(k, c),
                       ImageStored(pkg[k].type, c, pkg[k].img)
                PROVE  ImageStored(pkg[k].type, c, pkg[k].img)'
    BY <1>1, <1>16, <1>29 DEF TblErase, ImageAtHand, Cur
  <2>1. imgTbl # Unreadable
    BY <1>1, VersAssumption DEF TypeInv, TypeOK
  <2>. QED  BY <1>18, <1>29, <2>1 DEF TblErase, ImageStored, Kept, Cur
<1>30. CASE TblWrite
  <2>. SUFFICES ASSUME NEW k \in DOMAIN pkg, NEW c \in 1 .. N, pkg[k].kind = "img",
                       \/ Past(k, c) /\ ImageStored(pkg[k].type, c, pkg[k].img)
                       \/ c = copy /\ k = item
                PROVE  ImageStored(pkg[k].type, c, pkg[k].img)'
    BY <1>17, <1>30 DEF TblWrite
  <2>1. CASE Past(k, c) /\ ImageStored(pkg[k].type, c, pkg[k].img)
    BY <1>18, <1>30, <2>1 DEF TblWrite, Advance, Goto, ImageStored, Kept, Written
  <2>2. CASE c = copy /\ k = item
    BY <1>1, <1>18, <1>30, <2>2 DEF TblWrite, Advance, Goto, ImageStored, ImageAtHand, Kept, Written, Cur
  <2>. QED  BY <2>1, <2>2
<1>31. CASE Fault
  BY <1>2, <1>31 DEF Fault, End
<1>32. CASE PowerFailure
  BY <1>2, <1>32 DEF PowerFailure, Off
<1>33. CASE UNCHANGED vars
  BY <1>1, <1>33 DEF vars, StoreInv, ImagesOfUpdate, ImageAtHand, OkMeansStored, Stored, ImageStored, Kept, Cur, Past
<1>. QED  BY <1>4, <1>5, <1>6, <1>8, <1>9, <1>11, <1>13, <1>14, <1>15, <1>20, <1>21, <1>22, <1>24, <1>25,
             <1>27, <1>28, <1>29, <1>30, <1>31, <1>32, <1>33 DEF Next

\* As long as no image table fails to be read, an update that ends without an
\* error has flashed all its images to all the copies.
THEOREM OkIsStored == ~ReadsFail => (Spec => []OkMeansStored)
<1>. SUFFICES ASSUME ~ReadsFail PROVE Spec => []OkMeansStored
  OBVIOUS
<1>1. StoreInv /\ [Next]_vars => StoreInv'
  BY StoreNext
<1>2. StoreInv => OkMeansStored
  BY DEF StoreInv
<1>. QED  BY <1>1, <1>2, StoreInit, PTL DEF Spec


(***************************************************************************)
(* The copies that are left.                                               *)
(***************************************************************************)

\* The image has yet to be flashed, after its table was; or is being flashed.
Open(t, m) == Flashed(t) /\ \A k \in DOMAIN pkg : k < item => pkg[k] # Item("img", t, m)
BeingStored(t, m) == pc \in {"imgWrite", "tblErase"} /\ pkg[item] = Item("img", t, m)

\* In the copy at hand, every image is valid or will be before the next copy.
Sound(t) ==
  \/ pc = "hdrWrite" /\ t = pkg[item].type
  \/ /\ Kept(t, copy) # Unreadable
     /\ \A m \in Imgs : \/ Open(t, m) \/ BeingStored(t, m)
                        \/ Kept(t, copy)[m] # Empty /\ Kept(t, copy)[m] = img[<<<<t, copy>>, m>>]

Good(c) == \A t \in Types : IF pc \in Looping /\ c = copy THEN Sound(t) ELSE Valid(<<t, c>>)
Bad     == {c \in 1 .. N : ~Good(c)}

\* A failure spoils the copy at hand, and no other.
FewBad == Cardinality(Bad) <= since

\* What the table in RAM has of the one in the flash.
TableInRam ==
  /\ pc \in {"imgErase", "imgWrite"} => imgTbl = tbl[Cur]
  /\ pc = "tblErase" => \A m \in Imgs : m # pkg[item].img => imgTbl[m] = tbl[Cur][m]

SafeInv == StoreInv /\ TableInRam /\ FewBad

\* The copies are few, and so are the bad ones.
LEMMA CopiesFinite == /\ N \in Nat /\ IsFiniteSet(1 .. N) /\ Cardinality(1 .. N) = N
                      /\ Bad \subseteq 1 .. N /\ IsFiniteSet(Bad) /\ Cardinality(Bad) \in Nat
<1>1. N \in Nat /\ N \in Int /\ 1 \in Int /\ N >= 1
  BY CopyAssumption DEF PTBL_MAX_NUM_COPIES
<1>2. IsFiniteSet(1 .. N) /\ Cardinality(1 .. N) = N
  BY <1>1, FS_Interval
<1>3. Bad \subseteq 1 .. N
  BY DEF Bad
<1>. QED  BY <1>1, <1>2, <1>3, FS_Subset, FS_CardinalityType

\* No step spoils a copy, but a failure may spoil one.
LEMMA FewBadNext ==
  ASSUME TypeInv, TypeInv', FewBad, NEW c,
         \/ since' = since /\ \A d \in 1 .. N : Good(d) => Good(d)'
         \/ since' = since + 1 /\ \A d \in 1 .. N : d # c /\ Good(d) => Good(d)'
  PROVE  FewBad'
<1>1. since \in Nat
  BY CopyAssumption DEF TypeInv, TypeOK
<1>2. IsFiniteSet(Bad) /\ Cardinality(Bad) \in Nat
  BY CopiesFinite
<1>3. CASE since' = since /\ \A d \in 1 .. N : Good(d) => Good(d)'
  <2>1. Bad' \subseteq Bad
    BY <1>3 DEF Bad
  <2>2. Cardinality(Bad') <= Cardinality(Bad) /\ Cardinality(Bad') \in Nat
    BY <1>2, <2>1, FS_Subset, FS_CardinalityType
  <2>. QED  BY <1>1, <1>2, <1>3, <2>2 DEF FewBad
<1>4. CASE since' = since + 1 /\ \A d \in 1 .. N : d # c /\ Good(d) => Good(d)'
  <2>1. Bad' \subseteq Bad \cup {c}
    BY <1>4 DEF Bad
  <2>2. IsFiniteSet(Bad \cup {c}) /\ Cardinality(Bad \cup {c}) <= Cardinality(Bad) + 1 /\ Cardinality(Bad \cup {c}) \in Nat
    BY <1>2, FS_AddElement, FS_CardinalityType
  <2>3. Cardinality(Bad') <= Cardinality(Bad \cup {c}) /\ Cardinality(Bad') \in Nat
    BY <2>1, <2>2, FS_Subset, FS_CardinalityType
  <2>. QED  BY <1>1, <1>2, <1>4, <2>2, <2>3 DEF FewBad
<1>. QED  BY <1>3, <1>4

\* As long as there is a copy that is not bad, there is a valid one.
LEMMA FewBadIsSafe == SafeInv => Failsafe
<1>. SUFFICES ASSUME SafeInv, mode # "update", since < N, NEW t \in Types PROVE ValidCopies(t) # {}
  BY DEF Failsafe
<1>1. since \in Nat /\ N \in Nat /\ Cardinality(Bad) \in Nat /\ Cardinality(Bad) <= since
  BY CopyAssumption, CopiesFinite DEF SafeInv, StoreInv, TypeInv, TypeOK, FewBad
<1>2. Cardinality(Bad) # N
  BY <1>1
<1>3. Bad # 1 .. N
  BY <1>2, CopiesFinite
<1>4. PICK c \in 1 .. N : Good(c)
  BY <1>3 DEF Bad
<1>5. pc = "none"
  BY DEF SafeInv, StoreInv, TypeInv, TypeOK
<1>. QED  BY <1>4, <1>5 DEF Good, ValidCopies, Looping, TableOps, ImageOps

\* On a board from the factory no copy is bad.
LEMMA SafeInit == Init => SafeInv
<1>. SUFFICES ASSUME Init PROVE SafeInv
  OBVIOUS
<1>1. pc = "none" /\ since = 0
  BY DEF Init
<1>2. ASSUME NEW c \in 1 .. N, NEW t \in Types PROVE Valid(<<t, c>>)
  <2>1. <<t, c>> \in Parts /\ \A m \in Imgs : <<<<t, c>>, m>> \in Parts \X Imgs
    BY DEF Parts
  <2>2. PICK v \in Vers : tbl = [p \in Parts |-> [m \in Imgs |-> v]] /\ img = [q \in Parts \X Imgs |-> v]
    BY DEF Init
  <2>3. tbl[<<t, c>>] = [m \in Imgs |-> v] /\ \A m \in Imgs : img[<<<<t, c>>, m>>] = v
    BY <2>1, <2>2
  <2>4. [m \in Imgs |-> v] \in Tables
    BY DEF Tables
  <2>. QED  BY <2>3, <2>4, VersAssumption DEF Valid
<1>3. Bad = {}
  BY <1>1, <1>2 DEF Bad, Good, Looping, TableOps, ImageOps
<1>4. FewBad
  BY <1>1, <1>3, FS_EmptySet DEF FewBad
<1>. QED  BY <1>1, <1>4, StoreInit DEF SafeInv, TableInRam

\* Where a copy begins, what is valid is sound.
LEMMA ValidIsSound ==
  ASSUME NEW p \in Packages, pkg' = p, item' = 1 \/ item' = First(p), pc' = "item",
         NEW t, Valid(<<t, copy>>)'
  PROVE  Sound(t)'
BY DEF Valid, Sound, Kept

\* Where a copy ends, what is sound is valid.
LEMMA SoundIsValid ==
  ASSUME TypeInv, pc = "item", item > Len(pkg), NEW t \in Types, Sound(t)
  PROVE  Valid(<<t, copy>>)
<1>1. pkg \in Packages /\ DOMAIN pkg = 1 .. Len(pkg) /\ Len(pkg) \in Nat /\ item \in Nat
  BY PackageSeq DEF TypeInv, TypeOK
<1>2. ASSUME NEW m \in Imgs PROVE ~Open(t, m)
  <2>. SUFFICES ASSUME Flashed(t) PROVE \E k \in DOMAIN pkg : k < item /\ pkg[k] = Item("img", t, m)
    BY DEF Open
  <2>1. PICK j \in DOMAIN pkg : pkg[j] = Item("hdr", t, "none")
    BY DEF Flashed
  <2>2. pkg[j].kind = "hdr" /\ pkg[j].type = t
    BY <2>1 DEF Item
  <2>3. PICK k \in DOMAIN pkg : pkg[k] = Item("img", t, m)
    BY <1>1, <2>2, PackageAssumption
  <2>. QED  BY <1>1, <2>3
<1>. QED  BY <1>2 DEF Sound, BeingStored, Kept, Valid

\* A package that is complete leaves every copy valid.
LEMMA CompleteIsValid ==
  ASSUME TypeInv, Stored(pkg), Complete(pkg), mode = "update", NEW c \in 1 .. N, NEW t \in Types
  PROVE  Valid(<<t, c>>)
<1>1. pkg \in Packages /\ ver \in Vers /\ Empty \notin Vers
  BY VersAssumption DEF TypeInv, TypeOK
<1>2. PICK j \in DOMAIN pkg : pkg[j] = Item("hdr", t, "none")
  BY DEF Complete
<1>3. pkg[j].kind = "hdr" /\ pkg[j].type = t
  BY <1>2 DEF Item
<1>4. ASSUME NEW m \in Imgs
      PROVE  tbl[<<t, c>>] # Unreadable /\ tbl[<<t, c>>][m] = ver /\ img[<<<<t, c>>, m>>] = ver
  <2>1. PICK k \in DOMAIN pkg : pkg[k] = Item("img", t, m)
    BY <1>1, <1>3, PackageAssumption
  <2>2. pkg[k].kind = "img" /\ pkg[k].type = t /\ pkg[k].img = m
    BY <2>1 DEF Item
  <2>. QED  BY <2>2 DEF Stored
<1>5. tbl[<<t, c>>] # Unreadable
  BY <1>4, TypeAssumption
<1>. QED  BY <1>1, <1>4, <1>5 DEF Valid

\* Each action leaves good copies good, but a failure, which may spoil the
\* copy at hand; and an update that is complete leaves no bad one.
LEMMA SafeNext == ~ReadsFail /\ SafeInv /\ [Next]_vars => SafeInv'
<1>. SUFFICES ASSUME ~ReadsFail, SafeInv, [Next]_vars PROVE SafeInv'
  OBVIOUS
<1>. USE DEF Looping, Restoring, Storing, TableOps, ImageOps, PTOps
<1>1. StoreInv /\ StoreInv' /\ TypeInv /\ TypeInv' /\ TableInRam /\ FewBad /\ ImageAtHand
  BY StoreNext DEF SafeInv, StoreInv
<1>2. ASSUME UNCHANGED <<tbl, img>>, NEW t, NEW c PROVE Valid(<<t, c>>)' = Valid(<<t, c>>)
  BY <1>2 DEF Valid
\* Outside the loops.
<1>3. ASSUME pc \notin Looping, pc' \notin Looping, UNCHANGED <<tbl, img, since>> PROVE SafeInv'
  <2>1. \A c \in 1 .. N : Good(c) => Good(c)'
    BY <1>2, <1>3 DEF Good
  <2>. QED  BY <1>1, <1>3, <2>1, FewBadNext DEF SafeInv, TableInRam
<1>4. ASSUME pc \notin Looping, pkg' \in Packages, item' = 1 \/ item' = First(pkg'), pc' = "item",
             UNCHANGED <<tbl, img, since>>
      PROVE  SafeInv'
  <2>1. \A c \in 1 .. N : Good(c) => Good(c)'
    BY <1>2, <1>4, ValidIsSound DEF Good
  <2>. QED  BY <1>1, <1>4, <2>1, FewBadNext DEF SafeInv, TableInRam
<1>5. CASE \E r \in {"power", "sw_fw", "sw_download"} : Boot(r)
  BY <1>1, <1>3, <1>5 DEF Boot, flash, TypeInv, TypeOK
<1>6. CASE Reset
  BY <1>1, <1>3, <1>6 DEF Reset, Off, flash, TypeInv, TypeOK
<1>7. CASE \E p \in Packages, v \in Vers : StartUpdate(p, v)
  BY <1>1, <1>3, <1>4, <1>7 DEF StartUpdate, flash, TypeInv, TypeOK
<1>8. CASE PTErase
  BY <1>3, <1>8 DEF PTErase
<1>9. CASE PTWrite
  BY <1>1, <1>3, <1>4, <1>9 DEF PTWrite, Goto, TypeInv, TypeOK
\* Between the operations.
<1>10. CASE AllDone
  <2>1. \A c \in 1 .. N : Good(c) => Good(c)'
    BY <1>2, <1>10, CopyAssumption DEF AllDone, End, flash, Good, PTBL_MAX_NUM_COPIES
  <2>2. CASE since' = since
    BY <1>1, <1>10, <2>1, <2>2, FewBadNext DEF AllDone, End, SafeInv, TableInRam
  <2>3. CASE since' = 0 /\ ptm = "IDLE" /\ Complete(pkg)
    <3>1. Stored(pkg)
      BY <1>1, <1>10, <2>3 DEF AllDone, End, flash, StoreInv, OkMeansStored, Stored
    <3>2. ASSUME NEW c \in 1 .. N, NEW t \in Types PROVE Valid(<<t, c>>)'
      <4>1. mode = "update"
        BY <1>1, <1>10 DEF AllDone, TypeInv, TypeOK
      <4>2. Valid(<<t, c>>)
        BY <1>1, <2>3, <3>1, <4>1, CompleteIsValid
      <4>. QED  BY <1>2, <1>10, <4>2 DEF AllDone, flash
    <3>3. Bad' = {}
      BY <1>10, <3>2 DEF AllDone, End, Bad, Good
    <3>4. FewBad'
      BY <2>3, <3>3, FS_EmptySet DEF FewBad
    <3>. QED  BY <1>1, <1>10, <3>4 DEF AllDone, End, SafeInv, TableInRam
  <2>. QED  BY <1>10, <2>2, <2>3 DEF AllDone
<1>11. CASE NextCopy
  <2>1. ASSUME NEW c \in 1 .. N, Good(c), NEW t \in Types PROVE Valid(<<t, c>>)'
    BY <1>1, <1>2, <1>11, <2>1, SoundIsValid DEF NextCopy, flash, Good
  <2>2. ASSUME NEW t \in Types, Valid(<<t, copy>>)' PROVE Sound(t)'
    BY <1>1, <1>11, <2>2, ValidIsSound DEF NextCopy, Goto, TypeInv, TypeOK
  <2>3. \A c \in 1 .. N : Good(c) => Good(c)'
    BY <2>1, <2>2 DEF Good
  <2>. QED  BY <1>1, <1>11, <2>3, FewBadNext DEF NextCopy, Goto, SafeInv, TableInRam
<1>12. CASE PassOver
  <2>1. ASSUME NEW c \in 1 .. N, c # copy \/ ptm # "IDLE", Good(c) PROVE Good(c)'
    BY <1>12, <2>1 DEF PassOver, Advance, Goto, flash, Good, Valid, Sound, Kept, Open, Flashed, BeingStored
  <2>. QED  BY <1>1, <1>12, <2>1, FewBadNext DEF PassOver, Advance, Goto, InTable, SafeInv, TableInRam
<1>13. CASE BeginItem
  <2>1. ASSUME NEW c \in 1 .. N, Good(c) PROVE Good(c)'
    BY <1>13, <2>1 DEF BeginItem, flash, Good, Valid, Sound, Kept, Open, Flashed, BeingStored
  <2>. QED  BY <1>1, <1>13, <2>1, FewBadNext DEF BeginItem, SafeInv, TableInRam
\* The other copies.
<1>14. ASSUME pc \in Looping \ {"item"}, UNCHANGED tbl \/ EraseTbl \/ WriteTbl,
              UNCHANGED img \/ (pc \in ImageOps /\ \E x : img' = [img EXCEPT ![<<Cur, pkg[item].img>>] = x]),
              NEW t \in Types, NEW c \in 1 .. N, c # copy
       PROVE  Valid(<<t, c>>)' = Valid(<<t, c>>)
  <2>1. <<t, c>> # Cur
    BY <1>14 DEF Cur
  <2>2. tbl'[<<t, c>>] = tbl[<<t, c>>]
    BY <1>1, <1>14, <2>1, Elsewhere
  <2>3. \A m \in Imgs : img'[<<<<t, c>>, m>>] = img[<<<<t, c>>, m>>]
    BY <1>1, <1>14, <2>1 DEF TypeInv, TypeOK, Parts
  <2>. QED  BY <2>2, <2>3 DEF Valid
\* The operations: it remains to look at the copy at hand.
<1>15. ASSUME pc \in Looping \ {"item"}, pc' \in Looping, copy' = copy, since' = since, TableInRam',
              UNCHANGED tbl \/ EraseTbl \/ WriteTbl,
              UNCHANGED img \/ (pc \in ImageOps /\ \E x : img' = [img EXCEPT ![<<Cur, pkg[item].img>>] = x]),
              (\A t \in Types : Sound(t)) => \A t \in Types : Sound(t)'
       PROVE  SafeInv'
  <2>1. \A c \in 1 .. N : Good(c) => Good(c)'
    BY <1>14, <1>15 DEF Good
  <2>. QED  BY <1>1, <1>15, <2>1, FewBadNext DEF SafeInv
<1>16. ASSUME pc \in Looping \ {"item"} PROVE pkg[item].type \in Types /\ Cur \in Parts
  BY <1>1, <1>16, Here
<1>17. ASSUME pc \in Looping \ {"item"}, NEW t \in Types, t # pkg[item].type
       PROVE  /\ EraseTbl \/ WriteTbl => tbl'[<<t, copy>>] = tbl[<<t, copy>>]
              /\ <<t, copy>> # Cur
  BY <1>1, <1>17, Elsewhere, Here DEF Cur
<1>18. CASE HdrErase
  <2>1. ASSUME NEW t \in Types, Sound(t) PROVE Sound(t)'
    BY <1>17, <1>18, <2>1 DEF HdrErase, Sound, Kept, Open, Flashed, BeingStored
  <2>. QED  BY <1>15, <1>18, <2>1 DEF HdrErase, TableInRam
<1>19. CASE HdrWrite
  <2>1. pkg \in Packages /\ item \in DOMAIN pkg /\ DOMAIN pkg = 1 .. Len(pkg) /\ Len(pkg) \in Nat /\ pkg[item] \in Items
        /\ ptm = "IDLE" /\ pkg[item] = Item("hdr", pkg[item].type, "none")
    BY <1>1, <1>19, Here, PackageSeq, ItemFields DEF HdrWrite, TypeInv, Place
  <2>2. ASSUME NEW t \in Types, t = pkg[item].type, NEW m \in Imgs PROVE Open(t, m)'
    <3>1. Flashed(t)'
      BY <1>19, <2>1, <2>2 DEF HdrWrite, Advance, Goto, Flashed
    <3>2. ASSUME NEW k \in DOMAIN pkg, k < item + 1 PROVE pkg[k] # Item("img", t, m)
      <4>1. CASE k = item
        BY <2>1, <4>1 DEF Item
      <4>2. CASE k < item
        BY <1>1, <1>19, <2>1, <2>2, <4>2, ImagesAfter DEF HdrWrite, Item
      <4>. QED  BY <2>1, <3>2, <4>1, <4>2
    <3>. QED  BY <1>19, <3>1, <3>2 DEF HdrWrite, Advance, Goto, Open
  <2>3. ASSUME NEW t \in Types, t = pkg[item].type PROVE Sound(t)'
    <3>1. tbl'[<<t, copy>>] = Fresh /\ Fresh # Unreadable
      BY <1>1, <1>19, <2>3, Elsewhere, Here, VersAssumption DEF HdrWrite, Written, Cur
    <3>. QED  BY <1>19, <2>2, <2>3, <3>1 DEF HdrWrite, Advance, Goto, Sound, Kept
  <2>4. ASSUME NEW t \in Types, t # pkg[item].type, Sound(t) PROVE Sound(t)'
    <3>1. ASSUME NEW m \in Imgs, Open(t, m) PROVE Open(t, m)'
      BY <1>19, <2>1, <3>1 DEF HdrWrite, Advance, Goto, Open, Flashed, Item
    <3>. QED  BY <1>17, <1>19, <2>4, <3>1 DEF HdrWrite, Advance, Goto, Sound, Kept, BeingStored
  <2>. QED  BY <1>15, <1>19, <2>3, <2>4 DEF HdrWrite, Advance, Goto, TableInRam
\* Where there is no table, the copy was bad before.
<1>20. ASSUME pc \in {"readTbl"} \cup Restoring, tbl[Cur] = Unreadable PROVE ~Sound(pkg[item].type)
  BY <1>20 DEF Sound, Kept, Cur
<1>21. CASE ReadTbl
  <2>1. CASE tbl[Cur] = Unreadable /\ pc' = "rstErase" /\ UNCHANGED <<copy, since>>
    BY <1>15, <1>16, <1>20, <1>21, <2>1 DEF ReadTbl, flash, TableInRam
  <2>2. CASE tbl[Cur] = Unreadable /\ End("error") /\ UNCHANGED since
    <3>1. ASSUME NEW c \in 1 .. N, Good(c) PROVE Good(c)'
      <4>1. c # copy
        BY <1>16, <1>20, <1>21, <2>2, <3>1 DEF ReadTbl, Good
      <4>. QED  BY <1>2, <1>21, <2>2, <3>1, <4>1 DEF ReadTbl, flash, End, Good
    <3>. QED  BY <1>1, <2>2, <3>1, FewBadNext DEF End, SafeInv, TableInRam
  <2>3. CASE tbl[Cur] # Unreadable /\ imgTbl' = tbl[Cur] /\ pc' = "imgErase" /\ UNCHANGED <<mode, copy, item, result, since>>
    <3>1. ASSUME NEW t \in Types, Sound(t) PROVE Sound(t)'
      BY <1>21, <2>3, <3>1 DEF ReadTbl, flash, Sound, Kept, Open, Flashed, BeingStored
    <3>. QED  BY <1>15, <1>21, <2>3, <3>1 DEF ReadTbl, flash, TableInRam, Cur
  <2>. QED  BY <1>21, <2>1, <2>2, <2>3 DEF ReadTbl
<1>22. CASE RstErase
  BY <1>1, <1>15, <1>16, <1>20, <1>22 DEF RstErase, ImageAtHand, TableInRam
<1>23. CASE RstWrite
  <2>1. tbl'[Cur] = Fresh /\ Cur' = Cur
    BY <1>1, <1>23, Elsewhere DEF RstWrite, Written, Cur
  <2>. QED  BY <1>1, <1>15, <1>16, <1>20, <1>23, <2>1 DEF RstWrite, ImageAtHand, TableInRam
\* The image at hand, and the others.
<1>24. ASSUME pc \in Storing PROVE
         /\ pkg[item] = Item("img", pkg[item].type, pkg[item].img) /\ pkg[item].img \in Imgs
         /\ <<Cur, pkg[item].img>> \in Parts \X Imgs
         /\ \A t, m : Item("img", t, m) = pkg[item] => t = pkg[item].type /\ m = pkg[item].img
         /\ ver # Empty /\ pkg \in Packages /\ item \in DOMAIN pkg
  <2>1. /\ pkg[item].kind = "img" /\ pkg[item].img \in Imgs /\ <<Cur, pkg[item].img>> \in Parts \X Imgs
        /\ pkg \in Packages /\ item \in DOMAIN pkg
    BY <1>1, <1>24, Here DEF TypeInv, Place
  <2>2. pkg[item] = Item("img", pkg[item].type, pkg[item].img)
    BY <2>1, PackageSeq, ItemFields
  <2>3. ver # Empty
    BY <1>1, <1>24, VersAssumption DEF TypeInv, TypeOK
  <2>4. \A t, m : Item("img", t, m) = pkg[item] => t = pkg[item].type /\ m = pkg[item].img
    BY DEF Item
  <2>. QED  BY <2>1, <2>2, <2>3, <2>4
<1>25. ASSUME pc \in Storing, pc \in ImageOps, NEW x, img' = [img EXCEPT ![<<Cur, pkg[item].img>>] = x],
              NEW t \in Types, NEW m \in Imgs, Item("img", t, m) # pkg[item]
       PROVE  img'[<<<<t, copy>>, m>>] = img[<<<<t, copy>>, m>>]
  BY <1>1, <1>24, <1>25 DEF TypeInv, TypeOK, Cur
<1>26. CASE ImgErase
  <2>1. ASSUME NEW t \in Types, Sound(t) PROVE Sound(t)'
    BY <1>25, <1>26, <2>1 DEF ImgErase, Sound, Kept, Open, Flashed, BeingStored
  <2>. QED  BY <1>1, <1>15, <1>26, <2>1 DEF ImgErase, TableInRam, Cur
<1>27. CASE ImgWrite
  <2>1. ASSUME NEW t \in Types, Sound(t) PROVE Sound(t)'
    BY <1>25, <1>27, <2>1 DEF ImgWrite, Sound, Kept, Open, Flashed, BeingStored
  <2>2. \A m \in Imgs : m # pkg[item].img => imgTbl'[m] = tbl[Cur][m]
    BY <1>1, <1>27 DEF ImgWrite, TableInRam, TypeInv, TypeOK, Tables
  <2>. QED  BY <1>15, <1>27, <2>1, <2>2 DEF ImgWrite, TableInRam, Cur
<1>28. CASE TblErase
  <2>1. ASSUME NEW t \in Types, Sound(t) PROVE Sound(t)'
    <3>1. CASE t = pkg[item].type
      <4>1. Kept(t, copy)' = imgTbl /\ imgTbl # Unreadable /\ Kept(t, copy) = tbl[Cur] /\ <<t, copy>> = Cur
        BY <1>1, <1>28, <3>1, VersAssumption DEF TblErase, Kept, Cur, TypeInv, TypeOK
      <4>2. ASSUME NEW m \in Imgs
            PROVE  \/ Open(t, m)'
                   \/ imgTbl[m] # Empty /\ imgTbl[m] = img[<<<<t, copy>>, m>>]
        <5>1. CASE m = pkg[item].img
          BY <1>1, <1>24, <1>28, <4>1, <5>1 DEF TblErase, ImageAtHand
        <5>2. CASE m # pkg[item].img
          BY <1>1, <1>24, <1>28, <2>1, <4>1, <5>2 DEF TblErase, TableInRam, Sound, BeingStored, Open, Flashed
        <5>. QED  BY <5>1, <5>2
      <4>. QED  BY <1>28, <4>1, <4>2 DEF TblErase, Sound
    <3>2. CASE t # pkg[item].type
      BY <1>17, <1>24, <1>28, <2>1, <3>2 DEF TblErase, Sound, Kept, Open, Flashed, BeingStored, Cur
    <3>. QED  BY <3>1, <3>2
  <2>. QED  BY <1>15, <1>28, <2>1 DEF TblErase, TableInRam
<1>29. CASE TblWrite
  <2>1. ASSUME NEW t \in Types, NEW m \in Imgs, Open(t, m), Item("img", t, m) # pkg[item] PROVE Open(t, m)'
    BY <1>1, <1>24, <1>29, <2>1, PackageSeq DEF TblWrite, Advance, Goto, Open, Flashed
  <2>2. ASSUME NEW t \in Types, Sound(t) PROVE Sound(t)'
    <3>1. Kept(t, copy)' = Kept(t, copy)
      BY <1>1, <1>17, <1>29, Elsewhere DEF TblWrite, Advance, Goto, Written, Kept, Cur
    <3>2. ASSUME NEW m \in Imgs
          PROVE Open(t, m)' \/ (Kept(t, copy)[m] # Empty /\ Kept(t, copy)[m] = img[<<<<t, copy>>, m>>])
      <4>1. CASE Item("img", t, m) = pkg[item]
        BY <1>1, <1>24, <1>29, <4>1 DEF TblWrite, ImageAtHand, Kept, Cur
      <4>2. CASE Item("img", t, m) # pkg[item]
        BY <1>29, <2>1, <2>2, <4>2 DEF TblWrite, Sound, BeingStored
      <4>. QED  BY <4>1, <4>2
    <3>. QED  BY <1>29, <2>2, <3>1, <3>2 DEF TblWrite, Advance, Goto, Sound
  <2>. QED  BY <1>15, <1>29, <2>2 DEF TblWrite, Advance, Goto, TableInRam
<1>30. ASSUME mode = "update", pc' = "none", since' = since + 1,
              Interrupted \/ (pc \in TableOps \cup ImageOps \cup PTOps /\ Unconfirmed)
       PROVE  SafeInv'
  <2>1. ASSUME NEW c \in 1 .. N, c # copy, Good(c), NEW t \in Types PROVE Valid(<<t, c>>)'
    <3>1. Valid(<<t, c>>)
      BY <2>1 DEF Good
    <3>2. CASE UNCHANGED <<tbl, img>>
      BY <1>2, <3>1, <3>2
    <3>3. CASE pc \in TableOps /\ (EraseTbl \/ WriteTbl) /\ UNCHANGED img
      BY <1>14, <2>1, <3>1, <3>3
    <3>4. CASE pc \in ImageOps /\ UNCHANGED tbl /\ \E x : img' = [img EXCEPT ![<<Cur, pkg[item].img>>] = x]
      BY <1>14, <2>1, <3>1, <3>4
    <3>5. CASE Interrupted
      BY <3>2, <3>3, <3>4, <3>5 DEF Interrupted, flash
    <3>6. CASE pc \in TableOps \cup ImageOps \cup PTOps /\ Unconfirmed
      BY <3>2, <3>3, <3>4, <3>6 DEF Unconfirmed
    <3>. QED  BY <1>30, <3>5, <3>6
  <2>2. \A c \in 1 .. N : c # copy /\ Good(c) => Good(c)'
    BY <1>30, <2>1 DEF Good
  <2>. QED  BY <1>1, <1>30, <2>2, FewBadNext DEF SafeInv, TableInRam
<1>31. CASE Fault
  BY <1>1, <1>30, <1>31 DEF Fault, Flashing, End, TypeInv, TypeOK
<1>32. CASE PowerFailure
  BY <1>30, <1>32 DEF PowerFailure, Off
<1>33. CASE UNCHANGED vars
  BY <1>1, <1>33 DEF vars, SafeInv, TableInRam, FewBad, Bad, Good, Sound, Valid, Kept, Open, Flashed, BeingStored, Cur
<1>. QED  BY <1>5, <1>6, <1>7, <1>8, <1>9, <1>10, <1>11, <1>12, <1>13, <1>18, <1>19, <1>21, <1>22, <1>23,
             <1>26, <1>27, <1>28, <1>29, <1>31, <1>32, <1>33 DEF Next

\* As long as no image table fails to be read: whatever was interrupted and
\* tried again, fewer times than there are copies since the last complete
\* update, there is a valid copy of each type.
THEOREM UpdateIsFailsafe == ~ReadsFail => (Spec => []Failsafe)
<1>. SUFFICES ASSUME ~ReadsFail PROVE Spec => []Failsafe
  OBVIOUS
<1>1. SafeInv /\ [Next]_vars => SafeInv'
  BY SafeNext
<1>. QED  BY <1>1, SafeInit, FewBadIsSafe, PTL DEF Spec
=============================================================================
