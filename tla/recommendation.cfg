SPECIFICATION Spec
CHECK_DEADLOCK FALSE
CONSTANTS
    None = None
    NProducts = 5
    Catalog <- MCCatalog
    GiftExclusionCategories <- MCGiftExclusionCategories
    GiftExclusionSubcategories <- MCGiftExclusionSubcategories
    GiftExclusionTerms <- MCGiftExclusionTerms
    AllergySubcategories <- MCAllergySubcategories
    AllergyTerms <- MCAllergyTerms
    Requests <- MCRequests
    Nearness <- MCNearness
    Within = {}
    Pets = "pets"
    ONBOARDING_INTEREST_WEIGHT = 60
    MAX_QUERIES = 2
    MIN_PRIMARY_WEIGHT = 55
    MIN_PRIMARY_QUERIES = 2
    MAX_TASTE_QUERIES = 2
    MAX_SITUATION_QUERIES = 1
    MAX_CROSS_INTERESTS = 1
    TOP_K = 2
    EXCLUSION_TOP_K = 1
    EXPLORE_TOP_K = 2
    EXCLUSION_SIMILARITY = 60
    PREFERENCE_SIMILARITY = 50
    COVERAGE_MIN_SIMILARITY = 62
    SHARED_REASON_MIN_SIMILARITY = 60
    DEFAULT_LIMIT = 3
    EXPLORE_PER_SIGNAL = 1
    MAX_EXPLORE = 1
    MIN_LIST_SIZE = 2
    CLUE_LIMIT = 3
    ShortValues <- MCShortValues
    MaxAnswers = 1
INVARIANTS
    ListsInOrder
    NothingExcluded
    QueriesServed
    GiftKeepsSecrets
