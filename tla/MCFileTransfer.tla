---------------------------- MODULE MCFileTransfer ----------------------------
(* Two endpoints for TLC, their files, and how many each of them sends.    *)
EXTENDS FileTransfer

CONSTANTS alice, bob

MCPeer == {alice, bob}

\* Chunks of the file: two and one.  The name is as long as it may be, the type
\* is missing; a second file is refused for its name.
LongFiles  == {[size |-> 3, name |-> NameCap, mime |-> 0],
               [size |-> 3, name |-> NameCap + 1, mime |-> MimeCap]}
ShortFiles == {[size |-> 1, name |-> 0, mime |-> MimeCap]}

OneWay  == [p \in MCPeer |-> IF p = alice THEN MaxSends ELSE 0]
BothWay == [p \in MCPeer |-> MaxSends]
=============================================================================
