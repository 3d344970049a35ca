---------------------------- MODULE Photographs ----------------------------
(***************************************************************************)
(* The vocabulary the Bridge and the server share: photographs by the      *)
(* idempotency key of their spool row, and the bytes of a file.            *)
(***************************************************************************)
EXTENDS Naturals

CONSTANTS
    Row,            \* spool rows; a row's randomUUID idempotency key is its id
    Content,        \* possible bytes of a file, and so its digest
    None            \* null, and the content of a path with no file

ASSUME NoneIsNoContent == None \notin Content

=============================================================================
