----------------------------- MODULE MCClipNode -----------------------------
(***************************************************************************)
(* ClipNode for TLC: two nodes a and b; contents are short strings.        *)
(***************************************************************************)
EXTENDS ClipNode, TLC

\* One peer entry in each direction.
OneLinkEach == {<<"a", "b", 1>>, <<"b", "a", 1>>}

\* a lists b under two names.
TwoLinks == {<<"a", "b", 1>>, <<"a", "b", 2>>, <<"b", "a", 1>>}

\* a lists b under two names, and itself.
TwoLinksAndSelf == {<<"a", "b", 1>>, <<"a", "b", 2>>, <<"b", "a", 1>>, <<"a", "a", 1>>}

\* Plain text.
TextValues == {[t \in Types |-> c] : c \in Contents}
Verbatim == [n \in Nodes |-> [c \in Contents |-> c]]

\* Text or image, one at a time; b re-encodes the image p to q.
TextOrImage == {[t \in Types |-> IF t = "text" THEN "x" ELSE None],
                [t \in Types |-> IF t = "image" THEN "p" ELSE None]}
BReencodes == [n \in Nodes |-> [c \in Contents |-> IF n = "b" /\ c = "p" THEN "q" ELSE c]]
=============================================================================
