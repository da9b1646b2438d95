---------------------------- MODULE MCStorageUpload ----------------------------
(* A small storage node: two requests, two contents, an upload of two chunks. *)
EXTENDS StorageUpload

CONSTANTS h1, h2, d1, d2, l1, l2

================================================================================
