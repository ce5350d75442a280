----------------------------- MODULE MCPlainUpload -----------------------------
(***************************************************************************)
(* Up to two addresses, files of up to three bytes, half milliseconds.     *)
(***************************************************************************)
EXTENDS PlainUpload

MCResolutions == BoundedSeq({"refuses", "silent", "foreign", "answers", "unsteady"}, 2)
MCContents == {<<>>, <<"a">>, <<"a", "b">>, <<"b", "b", "a">>}
MCTimeouts == {NoTimeout, 5}
MCOld == <<"o">>
================================================================================
