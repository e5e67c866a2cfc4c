------------------------------- MODULE MCRamDisk -------------------------------
EXTENDS RamDisk

MCContent == {<<>>, <<0>>, <<5>>, <<1, 6>>}
================================================================================
