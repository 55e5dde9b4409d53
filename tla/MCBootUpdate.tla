------------------------------ MODULE MCBootUpdate -----------------------------
(* Packages for the model checker, built as build/common/pt_creator.py does: *)
(* the partition table first, if at all, and each table before its images.   *)
EXTENDS BootUpdate

Sys == <<Item("hdr", SYSCFG, "none"), Item("img", SYSCFG, "a"), Item("img", SYSCFG, "b")>>
Fw  == <<Item("hdr", FW, "none"), Item("img", FW, "a"), Item("img", FW, "b")>>

\* One image of the system configuration, without its table.
SysImage == <<Item("img", SYSCFG, "a")>>

MCPackages == {<<PTItem>> \o Sys \o Fw, Sys \o Fw, SysImage}
==============================================================================
