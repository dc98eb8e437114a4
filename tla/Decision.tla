------------------------------ MODULE Decision ------------------------------
(***************************************************************************)
(* The decision tables of the FUSE layer: what an operation on a path does *)
(* given its access mode, whether the real file exists, and the entry the  *)
(* syncing daemon has for it.                                              *)
(*                                                                         *)
(*   src/fuse/decision.rs   the decide_* functions                         *)
(*   src/fuse/policy.rs     AccessMode                                     *)
(*   src/syncing/proto.rs   FuseEntry                                      *)
(*                                                                         *)
(* An entry is its type and its object; the object of an entry that has    *)
(* none is 0 (the ids of the object store start at 1).                     *)
(***************************************************************************)
EXTENDS Naturals

AccessModes == {"Passthrough", "FuseOnly", "CopyOnWrite"}

NoObject == 0
NoEntry  == [type |-> "None", object |-> NoObject]
Whiteout == [type |-> "Whiteout", object |-> NoObject]
File(id) == [type |-> "File", object |-> id]
Dir      == [type |-> "Dir", object |-> NoObject]
Symlink  == [type |-> "Symlink", object |-> NoObject]

IsWhiteout(entry) == entry.type = "Whiteout"
Exists(entry)     == entry.type # "None"

-----------------------------------------------------------------------------
\* What decide_stat answers.
DecideStat(mode, real_exists, entry) ==
    CASE mode = "Passthrough" ->
           IF real_exists THEN "UseReal" ELSE "NotFound"
      [] mode = "FuseOnly" ->
           IF Exists(entry) /\ ~IsWhiteout(entry) THEN "UseFuse" ELSE "NotFound"
      [] mode = "CopyOnWrite" ->
           IF IsWhiteout(entry) THEN "NotFound"
           ELSE IF Exists(entry) THEN "UseFuse"
           ELSE IF real_exists THEN "UseReal" ELSE "NotFound"

\* The answers of decide_open.  OpenObject says whether the daemon must make
\* sure there is an object, whether the real file is copied into it, and
\* whether a whiteout is deleted afterwards.
Open(what) == [do |-> what, needs_ensure |-> FALSE, copy_up_from_real |-> FALSE,
               delete_whiteout |-> FALSE]

OpenObject(needs_ensure, copy_up_from_real, delete_whiteout) ==
    [do |-> "OpenObject", needs_ensure |-> needs_ensure,
     copy_up_from_real |-> copy_up_from_real, delete_whiteout |-> delete_whiteout]

\* Faulty: the table before bug 003 was fixed: a read-only open under
\* CopyOnWrite always opens the real file.
DecideOpen003(mode, entry, has_object_path, need_write, truncate, real_exists) ==
    LET has_object   == entry.object # NoObject
        needs_ensure == ~has_object \/ ~has_object_path
    IN CASE IsWhiteout(entry) -> Open("NotFound")
         [] ~IsWhiteout(entry) /\ mode = "FuseOnly" ->
              OpenObject(needs_ensure, FALSE, FALSE)
         [] ~IsWhiteout(entry) /\ mode = "CopyOnWrite" /\ ~need_write ->
              Open("OpenReal")
         [] OTHER ->
              OpenObject(needs_ensure, ~has_object /\ ~truncate /\ real_exists, TRUE)

\* Faulty: a write under CopyOnWrite that finds no object opens the real file.
DecideOpenInPlace(mode, entry, has_object_path, need_write, truncate, real_exists) ==
    IF IsWhiteout(entry) THEN Open("NotFound")
    ELSE IF entry.object = NoObject /\ real_exists THEN Open("OpenReal")
    ELSE OpenObject(entry.object = NoObject, FALSE, FALSE)

\* Faulty: the table before bug 004 was fixed: a first write gets an empty
\* object.
DecideOpen004(mode, entry, has_object_path, need_write, truncate, real_exists) ==
    LET has_object   == entry.object # NoObject
        needs_ensure == ~has_object \/ ~has_object_path
    IN CASE IsWhiteout(entry) -> Open("NotFound")
         [] ~IsWhiteout(entry) /\ mode = "FuseOnly" ->
              OpenObject(needs_ensure, FALSE, FALSE)
         [] ~IsWhiteout(entry) /\ mode = "CopyOnWrite" /\ ~need_write ->
              IF has_object THEN OpenObject(FALSE, FALSE, FALSE) ELSE Open("OpenReal")
         [] OTHER -> OpenObject(needs_ensure, FALSE, TRUE)

DecideOpen(mode, entry, has_object_path, need_write, truncate, real_exists) ==
    LET has_object   == entry.object # NoObject
        needs_ensure == ~has_object \/ ~has_object_path
    IN IF IsWhiteout(entry) THEN Open("NotFound")
       ELSE CASE mode = "Passthrough" -> Open("OpenReal")
              [] mode = "FuseOnly" -> OpenObject(needs_ensure, FALSE, FALSE)
              [] mode = "CopyOnWrite" /\ ~need_write ->
                   IF ~has_object THEN Open("OpenReal")
                   ELSE IF has_object_path THEN OpenObject(FALSE, FALSE, FALSE)
                   ELSE Open("Error")
              [] mode = "CopyOnWrite" /\ need_write ->
                   OpenObject(needs_ensure, ~has_object /\ ~truncate /\ real_exists, TRUE)

\* What decide_child says of one name of a directory.
DecideChild(mode, has_real, has_fuse, fuse_is_whiteout) ==
    IF fuse_is_whiteout THEN "Hide"
    ELSE CASE mode = "Passthrough" /\ has_real /\ has_fuse -> "DontCareCollision"
           [] mode = "FuseOnly" /\ has_fuse -> "ShowFuse"
           [] mode = "FuseOnly" /\ ~has_fuse -> "Hide"
           [] OTHER -> IF has_fuse THEN "ShowFuse"
                       ELSE IF has_real THEN "ShowReal" ELSE "Hide"

\* What readdir shows of it.
VisibleChild(mode, has_real, entry) ==
    LET child == DecideChild(mode, has_real, Exists(entry), IsWhiteout(entry))
    IN CASE child = "Hide" -> "nothing"
         [] child = "ShowReal" -> "real"
         [] child = "ShowFuse" -> entry.type
         [] child = "DontCareCollision" -> "real"

\* What decide_readlink answers.
DecideReadlink(mode, entry) ==
    CASE mode = "Passthrough" -> "UseReal"
      [] mode # "Passthrough" /\ entry.type = "Symlink" -> "UseFuse"
      [] mode = "CopyOnWrite" /\ entry.type \notin {"Symlink", "Whiteout"} -> "UseReal"
      [] OTHER -> "NotFound"
=============================================================================
