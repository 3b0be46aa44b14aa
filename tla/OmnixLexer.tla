------------------------------ MODULE OmnixLexer ------------------------------
(* What the parser is told about a word of a program.  A program is a       *)
(* sequence of words; Lexer.tokenize() gives each the type it is parsed by. *)
(* A punctuation mark is its own type here.                                 *)
EXTENDS Integers, Sequences

\* Reserved words.  `in` is not one of them.
keywords ==
    {"consensus", "cluster", "node", "function", "service", "state", "when",
     "phase", "broadcast", "on", "let", "return", "if", "else", "for", "while",
     "loop", "break", "continue", "await", "emit", "true", "false", "null",
     "new", "self", "import", "export", "contract", "pipeline", "stage",
     "workers", "auto_scale", "gpu_workers", "parallel", "cross_chain",
     "blockchain", "verify", "deploy", "scale", "balance", "edge", "cloud",
     "region", "zone", "replica", "shard", "load", "input", "output",
     "process", "model", "gpu", "cpu"}

types == {"u64", "i64", "f64", "bool", "String", "Bytes", "Vec", "Set", "Map",
          "Option", "Result", "ChainId", "TokenAmount", "Address", "Block",
          "Transaction", "UserRequest", "Response", "RawData", "ProcessedData"}

consensusAlgorithms == {"PBFT", "Raft", "PoW", "PoS", "DPoS", "Tendermint", "HotStuff"}

blockchainNetworks == {"ethereum", "polygon", "arbitrum", "optimism", "solana",
                       "avalanche", "cosmos", "bitcoin", "polkadot"}

\* The literals the programs are written with.
StringWords == {"'return'", "'a'", "'b'"}
NumberOf(word) == CASE word = "0" -> 0 [] word = "1" -> 1 [] word = "2" -> 2 [] OTHER -> 3

consensusOps == {"<!>", "<?>", "<#>", "<@>"}

operators ==
    consensusOps \cup
    {"==", "!=", "<=", ">=", "&&", "||", "->", "::", "+", "-", "*", "/", "%", "=", "!", ">", "<",
     "&", "|", "^", "~", ".", ",", ";", ":", "(", ")", "[", "]", "{", "}", "@"}

\* The type readString(), readNumber(), readIdentifier() or readOperator()
\* gives a word: keywords are tried before the other sets of names, and a
\* number that is followed by a unit is a time.
TokenType(word) ==
    CASE word \in operators -> IF word \in consensusOps THEN "CONSENSUS_OP" ELSE word
      [] word \in StringWords -> "STRING"
      [] word \in {"0", "1", "2", "3"} -> "INTEGER"
      [] word = "2s" -> "TIME"
      [] word \in keywords -> "KEYWORD"
      [] word \in types -> "TYPE"
      [] word \in consensusAlgorithms -> "CONSENSUS_ALGO"
      [] word \in blockchainNetworks -> "BLOCKCHAIN"
      [] word = "EOF" -> "EOF"
      [] OTHER -> "IDENTIFIER"
===============================================================================
