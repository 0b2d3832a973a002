--------------------------- MODULE MCBenchmarkRunner ---------------------------
\* Model-checking instance of BenchmarkRunner; the bounds are in the .cfg file.
EXTENDS BenchmarkRunner
=============================================================================
