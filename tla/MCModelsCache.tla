--------------------------- MODULE MCModelsCache ---------------------------
(***************************************************************************)
(* Three requests, enough for an initial fetch, a refresh and a request    *)
(* that meets either, on one unnamed upstream and on two named ones.       *)
(***************************************************************************)
EXTENDS ModelsCache
=============================================================================
