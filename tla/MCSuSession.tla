------------------------------ MODULE MCSuSession ------------------------------
(***************************************************************************)
(* Banners for TLC: none, complete lines, and a line that mentions a       *)
(* password and can be cut by a read where it looks like a prompt.         *)
(***************************************************************************)
EXTENDS SuSession

MCBanners == {<<>>, <<"line">>, <<"line", "mention", "rest">>}
================================================================================
