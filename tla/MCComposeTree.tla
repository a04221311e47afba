---------------------------- MODULE MCComposeTree ---------------------------
EXTENDS ComposeTree, MCTrees
=============================================================================
