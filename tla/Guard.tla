--------------------------------- MODULE Guard ---------------------------------
(***************************************************************************)
(* What a service keeps behind the guard of src/shared/idempotency.py: the *)
(* table of stored keys and the requests that the guard let through.  The  *)
(* modules that extend this one say what a key and a request are there.    *)
(***************************************************************************)
EXTENDS Integers, Sequences, FiniteSets

CONSTANTS
    Keys,       \* values of the header Idempotency-Key
    Handlers,   \* requests in progress at the same time
    NULL        \* SQL NULL, "no row" and "no request"

ASSUME NullIsNoNumber == NULL \notin Nat

VARIABLES
    idempotency_keys,  \* the table: what is stored under a key, or NULL
    session            \* what each handler is working on, or NULL
================================================================================
