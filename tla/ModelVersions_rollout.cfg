\* Two versions whose directories are listed in numeric order, four
\* configurations; options 2 let requests reload a version.
CONSTANTS
  Versions = {1, 2}
  DirOrder <- NumericOrder
  Configs <- MCConfigs
  Blacklistable = {1}
  NoConfig = NoConfig
  DynamicOptions = {2}
SPECIFICATION FairSpec
INVARIANTS
  DefaultNotRetired
PROPERTIES
  RolloutKeepsServing
  Converges
