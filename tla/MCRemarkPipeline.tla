--------------------------- MODULE MCRemarkPipeline ---------------------------
EXTENDS RemarkPipeline

CONSTANTS main, util,      \* two source files
          shadow, build    \* the yaml file both share, one of the build's

\* Two files of one name in two directories share their shadow yaml file.
SharedYaml == [f \in Files |-> shadow]
===============================================================================
