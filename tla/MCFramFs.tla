------------------------------ MODULE MCFramFs ------------------------------
EXTENDS FramFs

\* Power failures anywhere but inside a compaction and inside the super block
\* write of a format.
WriteAndDelete == WritePCs \cup DeletePCs \cup {"format_stub", "format_vol"}
NoCrash == {}
SuperBlock == {"write_sb"}
=============================================================================
