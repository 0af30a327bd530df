--------------------------- MODULE MCPushPartition ---------------------------
(* Instances of PushPartition.                                             *)
EXTENDS PushPartition, MCPushDriver

\* Content of two constructs, or one and an epilog.
MCPartitionDocs == ContentDocs(2, {<<>>, <<Good("ws")>>}) \cup ContentDocs(1, Epilogs)
                     \cup MCPrologDocs \cup MCNamespaceDocs
=============================================================================
