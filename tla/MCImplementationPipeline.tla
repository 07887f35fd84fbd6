---------------------- MODULE MCImplementationPipeline ----------------------
EXTENDS ImplementationPipeline

Independent == [t \in Tickets |-> {}]
Chain == [t \in Tickets |-> {s \in Tickets : s < t}]
=============================================================================
