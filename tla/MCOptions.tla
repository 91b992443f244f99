------------------------------ MODULE MCOptions ------------------------------
\* One field at a time, and the two fields that are mixed up in a merge.
EXTENDS Options

MCStudied == {{f} : f \in Fields \ {"profiles"}} \cup {{"abi", "reloc_model"}}
MCNames == {"debug", "gone"}
MCLists == {<<>>, <<"debug">>, <<"debug", "gone">>}
MCTriples == {<<"wasm32">>, <<"x86_64", "pc", "_linux", "gnu">>, <<"riscv64", "none", "none">>}
==============================================================================
