----------------------------- MODULE MCGateway ------------------------------
EXTENDS Gateway

\* Each part alone, where it keeps a state of its own, and one channel beside the one
\* that blocks the event loop.
Alone == {{c} : c \in Channel \ {"discord", "feishu"}}
ChannelSets == Alone \cup {{}, {"discord", "feishu"}}

Parts ==
  {[channels |-> cs, mochat |-> FALSE, stream |-> FALSE, sandbox |-> FALSE] :
     cs \in ChannelSets \ {{}}}
  \cup {[channels |-> {}, mochat |-> p = "mochat", stream |-> p = "stream", sandbox |-> p = "sandbox"] :
          p \in {"mochat", "stream", "sandbox"}}
=============================================================================
