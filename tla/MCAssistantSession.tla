------------------------- MODULE MCAssistantSession -------------------------
EXTENDS AssistantSession, TLC

Shape(kind, confirm, setup) == [kind |-> kind, confirm |-> confirm, setup |-> setup]

\* One shape for each path of advancePlugin, with and without a confirmation
\* where the manifest decides, and one that requires setup.
MCShapes == {Shape("generic", FALSE, TRUE), Shape("generic", TRUE, FALSE),
             Shape("reminder", FALSE, FALSE), Shape("meet", FALSE, FALSE),
             Shape("location", TRUE, FALSE), Shape("composio", FALSE, TRUE)}

ComposioShapes == {Shape("composio", FALSE, TRUE)}

\* Messages differ only in their names, and every property is a safety one.
MsgSymmetry == Permutations(Msgs)
=============================================================================
