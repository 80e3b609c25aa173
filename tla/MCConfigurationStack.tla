------------------------ MODULE MCConfigurationStack ------------------------
EXTENDS ConfigurationStack, TLC

\* Domain names and program names are interchangeable.
Interchangeable == Permutations(Names) \cup Permutations(ProgNames)
=============================================================================
