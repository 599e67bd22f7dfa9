---------------------------- MODULE MCHwComposer ----------------------------
(* Small instances of HwComposer: one or two layers per frame, and one     *)
(* layer of each kind that hwc_set drops before it looks at the buffer.    *)
EXTENDS HwComposer

CONSTANTS b1, b2, b3

plain(b) == [skip |-> FALSE, compositionType |-> "FRAMEBUFFER", opaque |-> TRUE,
             handle |-> b, known |-> TRUE, acquire |-> TRUE]

dropped == {[plain(b1) EXCEPT !.skip = TRUE],
            [plain(b1) EXCEPT !.opaque = FALSE],
            [plain(b1) EXCEPT !.compositionType = "FRAMEBUFFER_TARGET", !.acquire = FALSE],
            [plain(b1) EXCEPT !.handle = NoHandle],
            [plain(b2) EXCEPT !.known = FALSE]}

one_layer  == {<<plain(b)>> : b \in Buffers}
two_layers == {<<plain(b), plain(c)>> : b, c \in Buffers}

(* The frames of a full-screen client, and of two clients on one surface.  *)
SimpleContents == {<<>>} \cup one_layer \cup {<<plain(b1), plain(b2)>>}

(* Every way through the loop, with a usable layer after a dropped one.    *)
MixedContents == {<<>>} \cup one_layer \cup two_layers
                   \cup {<<d, plain(b1)>> : d \in dropped}

=============================================================================
