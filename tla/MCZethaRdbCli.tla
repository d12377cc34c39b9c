---------------------------- MODULE MCZethaRdbCli ----------------------------
\* One table with one row key, for TLC.
EXTENDS ZethaRdbCli
CONSTANTS schema_key, task_key, tasks, task

MCCliKeys      == {schema_key, task_key}
MCTableOf      == [k \in {task_key} |-> tasks]
MCCliSchemas   == {{}, {tasks}}
MCRowValues    == {task}
MCCliValues    == MCCliSchemas \cup MCRowValues
AppSymmetry    == Permutations(Apps)
=============================================================================
