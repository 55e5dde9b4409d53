------------------------------- MODULE BootUpdate ------------------------------
(***************************************************************************)
(* The service update of the bootloader (bootloader/control/bl_updater.c   *)
(* over its partition table manager, bootloader/utils/bl_ptm.c) and the    *)
(* start-up that has to live with what an update left behind               *)
(* (bootloader/control/bl_main.c).                                         *)
(*                                                                         *)
(* The flash has one sector with all the copies of the partition table,    *)
(* and N copies of the partition of every type.  A partition has an image  *)
(* table, whose entries hold the CRCs of the images, and the images.  An   *)
(* update writes the items of a package, image tables and images, to the   *)
(* first copies, then to the second ones, and so on.  Power may fail at    *)
(* any moment, and flash operations may fail; what was being erased or     *)
(* written is then unreadable, and all that is known is what the flash     *)
(* still holds.                                                            *)
(*                                                                         *)
(* Not here: how the package reached the RAM, RSA signatures, and packages *)
(* that change the layout of the flash.                                    *)
(***************************************************************************)
EXTENDS Naturals, Sequences, FiniteSets

CONSTANTS
  Types,       \* the types of partitions
  SYSCFG, FW,  \* the two types the start-up needs
  Imgs,        \* the entries of an image table
  Backup,      \* the entries of SYSCFG (one, or none) that are the backup of the tables
  N,           \* how many copies there are of each partition
  Packages,    \* what is flashed, sequences of items
  Vers,        \* versions of the images
  Unreadable,  \* an image table erased, or torn: no magic or a wrong CRC
  ReadsFail,   \* reading an image table may fail as well
  MaxFailures  \* bound: failures since the last complete update

PTBL_NUM_COPIES     == 4
PTBL_MAX_NUM_COPIES == 3

\* aPwImgHdrs[j]: pid, isImgHdr and imgID.
Item(kind, type, img) == [kind |-> kind, type |-> type, img |-> img]
PTItem == Item("PT", "none", "none")
Items == {PTItem} \cup {Item("hdr", t, "none") : t \in Types}
                  \cup {Item("img", t, m) : t \in Types, m \in Imgs}

ASSUME TypeAssumption == SYSCFG \in Types /\ FW \in Types /\ Imgs # {}
ASSUME CopyAssumption == N \in 1 .. PTBL_MAX_NUM_COPIES /\ MaxFailures \in Nat /\ ReadsFail \in BOOLEAN
ASSUME BackupAssumption == Backup \subseteq Imgs /\ Cardinality(Backup) <= 1
ASSUME PackageAssumption ==
  \A p \in Packages :
    /\ p \in Seq(Items) /\ p # <<>>
    /\ \A j \in DOMAIN p : p[j].kind = "PT" => j = 1
    \* A header comes once, and all its images come after it.
    /\ \A j \in DOMAIN p : p[j].kind = "hdr" =>
         /\ \A k \in DOMAIN p : p[k].type = p[j].type => k >= j /\ (k > j => p[k].kind = "img")
         /\ \A m \in Imgs : \E k \in DOMAIN p : p[k] = Item("img", p[j].type, m)

Parts == Types \X (1 .. N)
Empty == 0                              \* actualSize = 0
Fresh == [m \in Imgs |-> Empty]         \* the entries of a header that is flashed
Tables == [Imgs -> Vers \cup {Empty}]   \* each entry with the CRC of a version
ASSUME VersAssumption == Vers \subseteq Nat \ {Empty} /\ Unreadable \notin Tables

VARIABLES
  pts,    \* how many of the copies of the partition table are valid
  tbl,    \* the image tables in the flash
  img,    \* the images in the flash
  mode,   \* off, in the download loop, updating, or running the firmware
  ptm,    \* BL_PTM_Comp.state,
  sysCfg, \*   .sysCfgCopyIdx,
  imgTbl, \*   .imgTbl
  pkg,    \* the package being flashed, or flashed last,
  ver,    \*   its version,
  copy,   \*   i and
  item,   \*   j of BL_CNTRL_UpdateFlashPiecewise
  pc,     \* the next step of the update
  result, \* of the last update
  since   \* failures since the last complete update

flash == <<pts, tbl, img>>
ram   == <<mode, ptm, sysCfg, imgTbl, pkg, ver, copy, item, pc, result>>
vars  == <<pts, tbl, img, mode, ptm, sysCfg, imgTbl, pkg, ver, copy, item, pc, result, since>>

TableOps == {"hdrErase", "hdrWrite", "rstErase", "rstWrite", "tblErase", "tblWrite"}
ImageOps == {"imgErase", "imgWrite"}
PTOps    == {"ptErase", "ptWrite"}
Writes   == {"hdrWrite", "rstWrite", "tblWrite", "imgWrite", "ptWrite"}

TypeOK ==
  /\ pts \in 0 .. PTBL_NUM_COPIES
  /\ tbl \in [Parts -> Tables \cup {Unreadable}]
  /\ img \in [Parts \X Imgs -> Vers \cup {Empty}]
  /\ mode \in {"off", "download", "update", "firmware"}
  /\ ptm \in {"UNINIT", "IDLE", "ERROR"}
  /\ sysCfg \in 0 .. N /\ imgTbl \in Tables
  /\ pkg \in Packages \cup {<<>>} /\ ver \in Vers \cup {Empty}
  /\ copy \in 1 .. PTBL_MAX_NUM_COPIES + 1 /\ item \in 1 .. Len(pkg) + 1
  /\ pc \in {"none", "item", "readTbl"} \cup TableOps \cup ImageOps \cup PTOps
  /\ (mode = "update") = (pc # "none") /\ (mode = "update" => ver \in Vers /\ pkg # <<>>)
  /\ result \in {"none", "ok", "error"} /\ since \in 0 .. MaxFailures
  \* What is being flashed is in the partition table, and has a table to begin with.
  /\ pc \in ImageOps \cup TableOps \cup {"readTbl"} =>
       copy \in 1 .. N /\ item \in DOMAIN pkg /\ pkg[item].type \in Types
  /\ pc \in ImageOps \cup {"tblErase"} =>
       tbl[<<pkg[item].type, copy>>] \in Tables /\ pkg[item].kind = "img"

Valid(p) ==
  /\ tbl[p] # Unreadable
  /\ \A m \in Imgs : tbl[p][m] # Empty /\ tbl[p][m] = img[<<p, m>>]
ValidCopies(t) == {c \in 1 .. N : Valid(<<t, c>>)}
Least(S) == CHOOSE c \in S : \A d \in S : c <= d

\* A board that was flashed in the factory.
Init ==
  /\ \E v \in Vers : /\ tbl = [p \in Parts |-> [m \in Imgs |-> v]]
                     /\ img = [q \in Parts \X Imgs |-> v]
  /\ pts = PTBL_NUM_COPIES
  /\ mode = "off" /\ ptm = "UNINIT" /\ sysCfg = 0 /\ imgTbl = Fresh
  /\ pkg = <<>> /\ ver = Empty /\ copy = 1 /\ item = 1 /\ pc = "none"
  /\ result = "none" /\ since = 0

----------------------------------------------------------------------------
(* Start-up and reset.                                                     *)

\* BL_PTM_Init: the first partition table that is valid.
PTMInit == IF pts > 0 THEN "IDLE" ELSE "ERROR"

\* BL_main, which only reads.  Without a partition table, or without a valid
\* SYSCFG, it enters the download mode; but after a software reset the mode
\* is the one the reset asked for; and without a valid firmware there is
\* only the download mode.
Boot(reset) ==
  /\ mode = "off"
  /\ ptm' = PTMInit
  /\ LET found == ptm' = "IDLE" /\ ValidCopies(SYSCFG) # {}
         enter == CASE reset = "power" -> found
                    [] reset = "sw_fw" -> TRUE
                    [] reset = "sw_download" -> FALSE
     IN /\ sysCfg' = IF found THEN Least(ValidCopies(SYSCFG)) ELSE 0
        /\ mode' = IF enter /\ ptm' = "IDLE" /\ ValidCopies(FW) # {}
                   THEN "firmware" ELSE "download"
  /\ UNCHANGED <<flash, imgTbl, pkg, ver, copy, item, pc, result, since>>

\* The RAM is lost.
Off ==
  /\ mode' = "off" /\ ptm' = "UNINIT" /\ sysCfg' = 0 /\ imgTbl' = Fresh
  /\ pkg' = <<>> /\ ver' = Empty /\ copy' = 1 /\ item' = 1 /\ pc' = "none"
  /\ result' = "none"

\* A reset outside an update.
Reset ==
  /\ mode \in {"download", "firmware"}
  /\ Off
  /\ UNCHANGED <<flash, since>>

----------------------------------------------------------------------------
(* BL_CNTRL_UpdateFlashPiecewise                                           *)

Cur == <<pkg[item].type, copy>>

Goto(c, j) == copy' = c /\ item' = j /\ pc' = "item"

\* Mutant: each item goes to all the copies before the next one is flashed.
CopiesInside == IF copy < PTBL_MAX_NUM_COPIES THEN Goto(copy + 1, item) ELSE Goto(1, item + 1)

Advance == Goto(copy, item + 1)

\* Mutant: the first item is passed over even if it is no partition table.
FirstIsSecond(p) == 2

\* start: a partition table is not flashed again with the copies.
First(p) == IF p[1].kind = "PT" THEN 2 ELSE 1

\* Mutant: the copy is not looked for in the partition table.
InTableUnchecked(c) == ptm = "IDLE"

\* BL_PTM_IsValidPartition
InTable(c) == ptm = "IDLE" /\ c <= N

\* A package was received.
StartUpdate(p, v) ==
  /\ mode = "download"
  /\ mode' = "update" /\ pkg' = p /\ ver' = v /\ copy' = 1 /\ item' = 1
  /\ pc' = IF p[1].kind = "PT" THEN "ptErase" ELSE "item"
  /\ result' = "none"
  /\ UNCHANGED <<flash, ptm, sysCfg, imgTbl, since>>

\* Every table and image of every type: then no failure matters any more.
Complete(p) == \A t \in Types : \E j \in DOMAIN p : p[j] = Item("hdr", t, "none")

End(res) ==
  /\ mode' = "download" /\ pc' = "none" /\ result' = res
  /\ UNCHANGED <<copy, item>>

\* BL_PTM_WritePT erases the sector of all copies, and writes one by one.
PTErase ==
  /\ pc = "ptErase"
  /\ pts' = 0 /\ pc' = "ptWrite"
  /\ UNCHANGED <<tbl, img, mode, ptm, sysCfg, imgTbl, pkg, ver, copy, item, result, since>>

\* After the last, BL_PTM_DeInit and BL_PTM_Init.
PTWrite ==
  /\ pc = "ptWrite"
  /\ pts' = pts + 1
  /\ IF pts' < PTBL_NUM_COPIES
     THEN UNCHANGED <<ptm, sysCfg, imgTbl, copy, item, pc>>
     ELSE /\ ptm' = "IDLE" /\ sysCfg' = 0 /\ imgTbl' = Fresh
          /\ Goto(1, First(pkg))
  /\ UNCHANGED <<tbl, img, mode, pkg, ver, result, since>>

\* The loops over the copies and, inside, over the items.
AllDone ==
  /\ pc = "item" /\ copy > PTBL_MAX_NUM_COPIES
  /\ End("ok")
  /\ since' = IF ptm = "IDLE" /\ Complete(pkg) THEN 0 ELSE since
  /\ UNCHANGED <<flash, ptm, sysCfg, imgTbl, pkg, ver>>

NextCopy ==
  /\ pc = "item" /\ copy <= PTBL_MAX_NUM_COPIES /\ item > Len(pkg)
  /\ Goto(copy + 1, First(pkg))
  /\ UNCHANGED <<flash, mode, ptm, sysCfg, imgTbl, pkg, ver, result, since>>

\* A partition that is not in the partition table is passed over.
PassOver ==
  /\ pc = "item" /\ copy <= PTBL_MAX_NUM_COPIES /\ item <= Len(pkg) /\ ~InTable(copy)
  /\ Advance
  /\ UNCHANGED <<flash, mode, ptm, sysCfg, imgTbl, pkg, ver, result, since>>

BeginItem ==
  /\ pc = "item" /\ copy <= PTBL_MAX_NUM_COPIES /\ item <= Len(pkg) /\ InTable(copy)
  /\ pc' = IF pkg[item].kind = "hdr" THEN "hdrErase" ELSE "readTbl"
  /\ UNCHANGED <<flash, mode, ptm, sysCfg, imgTbl, pkg, ver, copy, item, result, since>>

----------------------------------------------------------------------------
(* BL_PTM_WriteImgHdr and BL_PTM_WriteImg                                  *)

\* What the write at hand puts in the image table; the tables of a package,
\* and those of the backup, have no sizes and no CRCs.
Written == IF pc = "tblWrite" THEN imgTbl ELSE Fresh

EraseTbl == tbl' = [tbl EXCEPT ![Cur] = Unreadable]
WriteTbl == tbl' = [tbl EXCEPT ![Cur] = Written]

\* Mutant: a table that is readable is not replaced.
HdrEraseUnlessThere ==
  /\ pc = "hdrErase"
  /\ IF tbl[Cur] # Unreadable THEN UNCHANGED tbl /\ Advance
     ELSE EraseTbl /\ pc' = "hdrWrite" /\ UNCHANGED <<copy, item>>
  /\ UNCHANGED <<pts, img, mode, ptm, sysCfg, imgTbl, pkg, ver, result, since>>

HdrErase ==
  /\ pc = "hdrErase"
  /\ EraseTbl /\ pc' = "hdrWrite"
  /\ UNCHANGED <<pts, img, mode, ptm, sysCfg, imgTbl, pkg, ver, copy, item, result, since>>

HdrWrite ==
  /\ pc = "hdrWrite"
  /\ WriteTbl /\ Advance
  /\ UNCHANGED <<pts, img, mode, ptm, sysCfg, imgTbl, pkg, ver, result, since>>

\* BL_PTM_LoadSysCfgImg(0xFFFF): the table of the SYSCFG copy in use is valid
\* and has the backup, which is read without its CRC being looked at; what
\* BL_PTM_UpdatePT would find in an image that is torn is taken for nothing.
HasBackup ==
  /\ sysCfg # 0 /\ tbl[<<SYSCFG, sysCfg>>] # Unreadable
  /\ \E m \in Backup : /\ tbl[<<SYSCFG, sysCfg>>][m] # Empty
                       /\ img[<<<<SYSCFG, sysCfg>>, m>>] # Empty

\* The image table is read and, when it is valid, used.  When it is not (or
\* when reading it failed) the backup takes its place.
ReadTbl ==
  /\ pc = "readTbl"
  /\ \/ /\ tbl[Cur] # Unreadable
        /\ imgTbl' = tbl[Cur] /\ pc' = "imgErase"
        /\ UNCHANGED <<mode, copy, item, result, since>>
     \/ /\ \/ tbl[Cur] = Unreadable /\ UNCHANGED since
           \/ tbl[Cur] # Unreadable /\ ReadsFail /\ since < MaxFailures /\ since' = since + 1
        /\ UNCHANGED imgTbl
        /\ IF HasBackup THEN pc' = "rstErase" /\ UNCHANGED <<mode, copy, item, result>>
                        ELSE End("error")
  /\ UNCHANGED <<flash, ptm, sysCfg, pkg, ver>>

\* BL_PTM_UpdatePT, and the table read again.
RstErase ==
  /\ pc = "rstErase"
  /\ EraseTbl /\ pc' = "rstWrite"
  /\ UNCHANGED <<pts, img, mode, ptm, sysCfg, imgTbl, pkg, ver, copy, item, result, since>>

RstWrite ==
  /\ pc = "rstWrite"
  /\ WriteTbl /\ imgTbl' = Fresh /\ pc' = "imgErase"
  /\ UNCHANGED <<pts, img, mode, ptm, sysCfg, pkg, ver, copy, item, result, since>>

\* BL_PTM_UpdateImg
ImgErase ==
  /\ pc = "imgErase"
  /\ img' = [img EXCEPT ![<<Cur, pkg[item].img>>] = Empty]
  /\ pc' = "imgWrite"
  /\ UNCHANGED <<pts, tbl, mode, ptm, sysCfg, imgTbl, pkg, ver, copy, item, result, since>>

\* What was written was read back: the CRC goes to the table in RAM.
ImgWrite ==
  /\ pc = "imgWrite"
  /\ img' = [img EXCEPT ![<<Cur, pkg[item].img>>] = ver]
  /\ imgTbl' = [imgTbl EXCEPT ![pkg[item].img] = ver]
  /\ pc' = "tblErase"
  /\ UNCHANGED <<pts, tbl, mode, ptm, sysCfg, pkg, ver, copy, item, result, since>>

TblErase ==
  /\ pc = "tblErase"
  /\ EraseTbl /\ pc' = "tblWrite"
  /\ UNCHANGED <<pts, img, mode, ptm, sysCfg, imgTbl, pkg, ver, copy, item, result, since>>

TblWrite ==
  /\ pc = "tblWrite"
  /\ WriteTbl /\ Advance
  /\ UNCHANGED <<pts, img, mode, ptm, sysCfg, imgTbl, pkg, ver, result, since>>

----------------------------------------------------------------------------
(* Failures.                                                               *)

\* An operation that was interrupted did nothing yet, or left a mess.
Interrupted ==
  \/ UNCHANGED flash
  \/ pc \in TableOps /\ EraseTbl /\ UNCHANGED <<pts, img>>
  \/ pc \in ImageOps /\ img' = [img EXCEPT ![<<Cur, pkg[item].img>>] = Empty]
                     /\ UNCHANGED <<pts, tbl>>
  \/ pc = "ptErase" /\ pts' = 0 /\ UNCHANGED <<tbl, img>>

\* What was written is all there, but reading it back failed.
Unconfirmed ==
  \/ pc \in TableOps \cap Writes /\ WriteTbl /\ UNCHANGED <<pts, img>>
  \/ pc = "imgWrite" /\ img' = [img EXCEPT ![<<Cur, pkg[item].img>>] = ver]
                     /\ UNCHANGED <<pts, tbl>>
  \/ pc = "ptWrite" /\ pts' = pts + 1 /\ UNCHANGED <<tbl, img>>

Flashing == pc \in TableOps \cup ImageOps \cup PTOps /\ since < MaxFailures

\* A flash operation fails: the update ends, the downloader waits for another.
Fault ==
  /\ Flashing
  /\ Interrupted \/ Unconfirmed
  /\ End("error") /\ since' = since + 1
  /\ UNCHANGED <<ptm, sysCfg, imgTbl, pkg, ver>>

\* Power fails.
PowerFailure ==
  /\ mode = "update" /\ since < MaxFailures
  /\ Interrupted
  /\ Off /\ since' = since + 1

----------------------------------------------------------------------------
Next ==
  \/ \E r \in {"power", "sw_fw", "sw_download"} : Boot(r)
  \/ Reset
  \/ \E p \in Packages, v \in Vers : StartUpdate(p, v)
  \/ PTErase \/ PTWrite
  \/ AllDone \/ NextCopy \/ PassOver \/ BeginItem
  \/ HdrErase \/ HdrWrite \/ ReadTbl \/ RstErase \/ RstWrite
  \/ ImgErase \/ ImgWrite \/ TblErase \/ TblWrite
  \/ Fault \/ PowerFailure

Spec == Init /\ [][Next]_vars

----------------------------------------------------------------------------
\* Failsafe Software Update (bootloader/comp.mk): whatever was interrupted,
\* and whatever was tried after it, as long as fewer updates were cut short since
\* the last complete one than there are copies, each type has a valid copy
\* whenever no update is running.
Failsafe == mode # "update" /\ since < N => \A t \in Types : ValidCopies(t) # {}

\* The images of a package are where they belong, under a table that says so.
Stored(p) ==
  \A j \in DOMAIN p : p[j].kind = "img" =>
    \A c \in 1 .. N :
      /\ tbl[<<p[j].type, c>>] # Unreadable /\ tbl[<<p[j].type, c>>][p[j].img] = ver
      /\ img[<<<<p[j].type, c>>, p[j].img>>] = ver

\* An update that ends without an error has flashed all its images to all the
\* copies, with tables that say so ("Update successful" in bl_cntrl.h), unless
\* it found no partition table: then it did nothing at all.
OkMeansStored == result = "ok" /\ ptm = "IDLE" => Stored(pkg)

\* A package has images of this type, but not their table.
Piecemeal(p, t) == /\ \E j \in DOMAIN p : p[j].type = t
                   /\ \A j \in DOMAIN p : p[j] # Item("hdr", t, "none")

\* A partition that validates has its images from one package, whatever
\* updates to different versions were interrupted before, when they are always
\* flashed with their table.
OneVersion ==
  \A t \in Types : (\A p \in Packages : ~Piecemeal(p, t)) =>
    \A c \in ValidCopies(t) : \A m, n \in Imgs : img[<<<<t, c>>, m>>] = img[<<<<t, c>>, n>>]

\* An update that was interrupted can always be repeated: what it left in the
\* flash is never the reason why a package with its tables is refused.
Repeatable ==
  [][ result' = "error" /\ result # "error" /\ since' = since =>
        \E t \in Types : Piecemeal(pkg, t) ]_vars
==============================================================================
