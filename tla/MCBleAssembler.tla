--------------------------- MODULE MCBleAssembler ---------------------------
(* Constants for checking BleAssembler with TLC.                           *)
EXTENDS BleAssembler

Flat   == <<"open", "other", "close">>
Nested == <<"open", "open", "close", "other", "close">>
\* Two that are too long for the buffer: one is all nesting, the other has an object
\* in the part that does not fit.
Deep   == <<"open", "open", "open", "close", "close", "close">>
Tailed == <<"open", "other", "other", "other", "other", "other", "open", "close", "close">>

PlainTexts == {Flat, Nested, Deep, Tailed}
=============================================================================
