CONSTANTS
    k1 = k1
    UserKeys <- MCUserKeys
    MaxBuilds <- MCMaxBuilds
    RecipeKeys <- MCRecipeKeys
    SectionChoices <- MCSectionChoices

SPECIFICATION Spec

\* The lineage ends after MaxBuilds builds.
CHECK_DEADLOCK FALSE

INVARIANT LabelPrecedence
