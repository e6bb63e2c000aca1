------------------------------ MODULE AtomicFile ------------------------------
(***************************************************************************)
(* What a reader of a snapshot path is promised: at any moment it finds    *)
(* either no file (only before the first write) or one whole document, and *)
(* a write replaces one whole document by another in a single step.        *)
(***************************************************************************)
CONSTANTS Documents,  \* the whole documents
          Absent      \* no file

VARIABLE value

FileInit == value \in Documents \cup {Absent}

Replace == value' \in Documents

FileSpec == FileInit /\ [][Replace]_value
===============================================================================
